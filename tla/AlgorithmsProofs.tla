-------------------------- MODULE AlgorithmsProofs --------------------------
(***************************************************************************)
(* The sequential parts of an import and of an answer, for every input.       *)
(***************************************************************************)
EXTENDS MCAlgorithms, SequenceTheorems, FiniteSetTheorems, NaturalsInduction,
        WellFoundedInduction, TLAPS

-----------------------------------------------------------------------------
(* Induction on numbers and on finite sets, with the statement as a set.       *)

(* Every set of numbers has a least one.                                      *)
LEMMA LeastNumber == ASSUME NEW B, B \subseteq Nat, B # {} PROVE \E n \in B : \A m \in B : n <= m
  <1>1. PICK n \in B : \A m \in B : ~(<<m, n>> \in OpToRel(<, Nat))
    BY NatLessThanWellFounded, WFMin
  <1>2. \A m \in B : ~(m < n)
    BY <1>1 DEF OpToRel
  <1> QED
    BY <1>2

(* A set with 0 and with the successor of each of its numbers has all of them.*)
LEMMA NumbersByInduction ==
  ASSUME NEW A, 0 \in A, \A n \in Nat : n \in A => n + 1 \in A
  PROVE  Nat \subseteq A
  <1> SUFFICES ASSUME Nat \ A # {} PROVE FALSE
    OBVIOUS
  <1>1. PICK n \in Nat \ A : \A m \in Nat \ A : n <= m
    BY LeastNumber
  <1>2. n # 0 /\ n - 1 \in Nat /\ n - 1 + 1 = n /\ ~(n <= n - 1)
    BY <1>1
  <1>3. n - 1 \in A
    BY <1>1, <1>2
  <1> QED
    BY <1>1, <1>2, <1>3

(* The same for the numbers up to one of them.                                *)
LEMMA NumbersUpTo ==
  ASSUME NEW A, NEW k \in Nat, 0 \in A, \A n \in 0..(k - 1) : n \in A => n + 1 \in A
  PROVE  0..k \subseteq A
  <1> DEFINE B == {n \in Nat : n <= k => n \in A}
  <1>1. 0 \in B
    OBVIOUS
  <1>2. \A n \in Nat : n \in B => n + 1 \in B
    OBVIOUS
  <1> HIDE DEF B
  <1>3. Nat \subseteq B
    BY <1>1, <1>2, NumbersByInduction
  <1> QED
    BY <1>3 DEF B

(* What holds of a set if it holds of the set without any one of its elements   *)
(* holds of every finite set.                                               *)
LEMMA SetsByInduction ==
  ASSUME NEW S, IsFiniteSet(S), NEW A,
         \A s \in SUBSET S : (\A x \in s : s \ {x} \in A) => s \in A
  PROVE  SUBSET S \subseteq A
  <1> DEFINE B == {n \in Nat : \A s \in SUBSET S : Cardinality(s) = n => s \in A}
  <1>1. \A s \in SUBSET S : IsFiniteSet(s) /\ Cardinality(s) \in Nat
    BY FS_Subset, FS_CardinalityType
  <1>2. 0 \in B
    <2>1. {} \in A
      OBVIOUS
    <2> QED
      BY <1>1, <2>1, FS_EmptySet
  <1>3. ASSUME NEW n \in Nat, n \in B, NEW s \in SUBSET S, Cardinality(s) = n + 1 PROVE s \in A
    <2>1. ASSUME NEW x \in s PROVE s \ {x} \in A
      <3>1. IsFiniteSet(s)
        BY <1>1
      <3>2. Cardinality(s \ {x}) = n
        BY <1>3, <3>1, FS_RemoveElement
      <3> QED
        BY <1>3, <3>2
    <2> QED
      BY <2>1
  <1>4. Nat \subseteq B
    <2>1. \A n \in Nat : n \in B => n + 1 \in B
      BY <1>3
    <2> HIDE DEF B
    <2> QED
      BY <1>2, <2>1, NumbersByInduction
  <1> QED
    BY <1>1, <1>4

(* A fold over the subsets of a set: each is one of its elements and the rest.  *)
FoldsOver(S, c, b, h, g) ==
  \A s \in SUBSET S : g[s] = IF s = {} THEN b ELSE h[<<c[s], g[s \ {c[s]}]>>]

(* There is such a function, which TLA+ does not grant a recursive definition.*)
LEMMA FoldExists ==
  ASSUME NEW S, IsFiniteSet(S), NEW c, \A s \in SUBSET S : s # {} => c[s] \in s,
         NEW V, NEW b \in V, NEW h \in [S \X V -> V]
  PROVE  \E g \in [SUBSET S -> V] : FoldsOver(S, c, b, h, g)
  <1> DEFINE Short(n) == {s \in SUBSET S : Cardinality(s) <= n}
             Upto(n, g) ==
               \A s \in Short(n) : g[s] = IF s = {} THEN b ELSE h[<<c[s], g[s \ {c[s]}]>>]
             A == {n \in Nat : \E g \in [Short(n) -> V] : Upto(n, g)}
  <1>1. \A s \in SUBSET S : /\ IsFiniteSet(s) /\ Cardinality(s) \in Nat
                            /\ Cardinality(s) = 0 <=> s = {}
    BY FS_Subset, FS_CardinalityType, FS_EmptySet
  <1>2. ASSUME NEW s \in SUBSET S, s # {}
        PROVE  s \ {c[s]} \in SUBSET S /\ c[s] \in S /\ Cardinality(s \ {c[s]}) = Cardinality(s) - 1
    BY <1>1, <1>2, FS_RemoveElement
  <1>3. 0 \in A
    <2> DEFINE g == [s \in Short(0) |-> b]
    <2>1. g \in [Short(0) -> V] /\ \A s \in Short(0) : s = {} /\ g[s] = b
      BY <1>1
    <2> QED
      BY <2>1
  <1>4. ASSUME NEW n \in Nat, n \in A PROVE n + 1 \in A
    <2>1. PICK g \in [Short(n) -> V] :
            \A s \in Short(n) : g[s] = IF s = {} THEN b ELSE h[<<c[s], g[s \ {c[s]}]>>]
      BY <1>4
    <2> DEFINE f == [s \in Short(n + 1) |-> IF s = {} THEN b ELSE h[<<c[s], g[s \ {c[s]}]>>]]
    <2>2. \A s \in Short(n + 1) : s # {} => s \ {c[s]} \in Short(n)
      BY <1>1, <1>2
    <2>3. \A s \in Short(n) : s \in Short(n + 1) /\ f[s] = g[s]
      BY <1>1, <2>1
    <2>4. f \in [Short(n + 1) -> V]
      BY <1>2, <2>1, <2>2
    <2>5. \A s \in Short(n + 1) : f[s] = IF s = {} THEN b ELSE h[<<c[s], f[s \ {c[s]}]>>]
      BY <2>2, <2>3
    <2> HIDE DEF f, Short
    <2>6. Upto(n + 1, f)
      BY <2>5
    <2> HIDE DEF Upto
    <2> QED
      BY <2>4, <2>6
  <1>5. Cardinality(S) \in Nat /\ Cardinality(S) \in A
    <2>1. \A n \in Nat : n \in A => n + 1 \in A
      BY <1>4
    <2> HIDE DEF A
    <2> QED
      BY <1>1, <1>3, <2>1, NumbersByInduction
  <1>6. Short(Cardinality(S)) = SUBSET S
    BY FS_Subset
  <1> QED
    BY <1>5, <1>6 DEF FoldsOver

(* A sum of numbers.                                                         *)
One(s) == CHOOSE x \in s : TRUE
Sums(S, f, g) == g = [s \in SUBSET S |-> IF s = {} THEN 0 ELSE f[One(s)] + g[s \ {One(s)}]]

(* Numbers have a sum in every order, and only one in the order chosen.       *)
LEMMA SumExists ==
  ASSUME NEW S, IsFiniteSet(S), NEW f, \A x \in S : f[x] \in Nat
  PROVE  \E g \in [SUBSET S -> Nat] :
           Sums(S, f, g)
  <1> DEFINE c == [s \in SUBSET S |-> One(s)]
             h == [p \in S \X Nat |-> f[p[1]] + p[2]]
  <1>1. \A s \in SUBSET S : s # {} => c[s] \in s /\ c[s] = One(s)
    BY DEF One
  <1>2. h \in [S \X Nat -> Nat]
    OBVIOUS
  <1>3. \A x \in S, n \in Nat : h[<<x, n>>] = f[x] + n
    OBVIOUS
  <1> HIDE DEF c, h
  <1>4. PICK g \in [SUBSET S -> Nat] : FoldsOver(S, c, 0, h, g)
    <2>1. \A s \in SUBSET S : s # {} => c[s] \in s
      BY <1>1
    <2>2. 0 \in Nat
      OBVIOUS
    <2> QED
      BY <1>2, <2>1, <2>2, FoldExists, Zenon
  <1>5. \A s \in SUBSET S : g[s] = IF s = {} THEN 0 ELSE f[One(s)] + g[s \ {One(s)}]
    <2> SUFFICES ASSUME NEW s \in SUBSET S, s # {} PROVE g[s] = f[One(s)] + g[s \ {One(s)}]
      BY <1>4 DEF FoldsOver
    <2>1. One(s) \in S /\ s \ {One(s)} \in SUBSET S
      BY <1>1
    <2> QED
      BY <1>1, <1>3, <1>4, <2>1 DEF FoldsOver
  <1> QED
    BY <1>5 DEF Sums

(* What a part of a set sums to does not depend on the set.                   *)
LEMMA SumUnique ==
  ASSUME NEW S, IsFiniteSet(S), NEW f, \A x \in S : f[x] \in Nat, NEW T \in SUBSET S, NEW g, NEW h,
         Sums(S, f, g),
         Sums(T, f, h)
  PROVE  \A s \in SUBSET T : g[s] = h[s]
  <1> DEFINE A == {s \in SUBSET T : g[s] = h[s]}
  <1>1. g[{}] = 0 /\ h[{}] = 0
    BY DEF Sums
  <1>2. ASSUME NEW s \in SUBSET T, \A x \in s : s \ {x} \in A, s # {} PROVE s \in A
    <2>1. One(s) \in s
      BY <1>2 DEF One
    <2>2. g[s] = f[One(s)] + g[s \ {One(s)}]
      BY <1>2 DEF Sums
    <2>3. h[s] = f[One(s)] + h[s \ {One(s)}]
      BY <1>2 DEF Sums
    <2> QED
      BY <1>2, <2>1, <2>2, <2>3
  <1>3. IsFiniteSet(T)
    BY FS_Subset
  <1>4. \A s \in SUBSET T : (\A x \in s : s \ {x} \in A) => s \in A
    BY <1>1, <1>2
  <1> HIDE DEF A
  <1>5. SUBSET T \subseteq A
    BY <1>3, <1>4, SetsByInduction
  <1> QED
    BY <1>5 DEF A

(* The tokens of some hits are one hit's and those of the others.             *)
LEMMA TokensIs ==
  ASSUME NEW S, IsFiniteSet(S), NEW f, \A x \in S : f[x] \in Nat
  PROVE  /\ Tokens({}, f) = 0 /\ \A s \in SUBSET S : Tokens(s, f) \in Nat
         /\ \A s \in SUBSET S : s # {} => Tokens(s, f) = f[One(s)] + Tokens(s \ {One(s)}, f)
  <1>1. ASSUME NEW T, IsFiniteSet(T), \A x \in T : f[x] \in Nat
        PROVE  \E g : /\ Sums(T, f, g)
                      /\ Tokens(T, f) = g[T]
    <2>1. \E g : Sums(T, f, g)
      BY <1>1, SumExists, Zenon
    <2> QED
      BY <2>1 DEF Sums, One, Tokens, MapThenSumSet, MapThenFoldSet
  <1>2. PICK g \in [SUBSET S -> Nat] :
          Sums(S, f, g)
    BY SumExists, Zenon
  <1>3. ASSUME NEW T \in SUBSET S PROVE Tokens(T, f) = g[T]
    <2>1. IsFiniteSet(T) /\ \A x \in T : f[x] \in Nat
      BY FS_Subset
    <2>2. PICK h : /\ Sums(T, f, h)
                   /\ Tokens(T, f) = h[T]
      BY <1>1, <2>1
    <2>3. \A s \in SUBSET T : g[s] = h[s]
      BY <1>2, <2>2, SumUnique
    <2> QED
      BY <2>2, <2>3
  <1>4. g[{}] = 0 /\ \A s \in SUBSET S : s # {} => g[s] = f[One(s)] + g[s \ {One(s)}]
    BY <1>2 DEF Sums
  <1>5. \A s \in SUBSET S : s \ {One(s)} \in SUBSET S
    OBVIOUS
  <1> QED
    BY <1>2, <1>3, <1>4, <1>5

(* The order in which numbers are added does not matter.                      *)
LEMMA TokensStep ==
  ASSUME NEW S, IsFiniteSet(S), NEW f, \A x \in S : f[x] \in Nat
  PROVE  \A s \in SUBSET S : \A x \in s : Tokens(s, f) = f[x] + Tokens(s \ {x}, f)
  <1>1. \A s \in SUBSET S : Tokens(s, f) \in Nat
    BY TokensIs
  <1>2. \A s \in SUBSET S : s # {} => Tokens(s, f) = f[One(s)] + Tokens(s \ {One(s)}, f)
    BY TokensIs
  <1> DEFINE A == {s \in SUBSET S : \A x \in s : Tokens(s, f) = f[x] + Tokens(s \ {x}, f)}
  <1>3. ASSUME NEW s \in SUBSET S, \A x \in s : s \ {x} \in A, NEW x \in s
        PROVE  Tokens(s, f) = f[x] + Tokens(s \ {x}, f)
    <2> DEFINE y == One(s)
    <2>1. y \in s /\ Tokens(s, f) = f[y] + Tokens(s \ {y}, f)
      BY <1>2, <1>3 DEF One
    <2> HIDE DEF y
    <2>2. CASE x = y
      BY <2>1, <2>2
    <2>3. CASE x # y
      <3>1. Tokens(s \ {y}, f) = f[x] + Tokens((s \ {y}) \ {x}, f)
        BY <1>3, <2>1, <2>3
      <3>2. Tokens(s \ {x}, f) = f[y] + Tokens((s \ {x}) \ {y}, f)
        BY <1>3, <2>1, <2>3
      <3>3. (s \ {x}) \ {y} = (s \ {y}) \ {x}
        OBVIOUS
      <3>4. f[x] \in Nat /\ f[y] \in Nat /\ Tokens((s \ {y}) \ {x}, f) \in Nat
        BY <1>1, <2>1
      <3>5. Tokens(s, f) = f[y] + (f[x] + Tokens((s \ {y}) \ {x}, f))
        BY <2>1, <3>1
      <3>6. Tokens(s \ {x}, f) = f[y] + Tokens((s \ {y}) \ {x}, f)
        BY <3>2, <3>3
      <3> QED
        BY ONLY <3>4, <3>5, <3>6
    <2> QED
      BY <2>2, <2>3
  <1>4. SUBSET S \subseteq A
    <2>1. \A s \in SUBSET S : (\A x \in s : s \ {x} \in A) => s \in A
      BY <1>3
    <2> HIDE DEF A
    <2> QED
      BY <2>1, SetsByInduction
  <1> QED
    BY <1>4

(* A smaller set has no larger sum.                                          *)
LEMMA TokensGrow ==
  ASSUME NEW S, IsFiniteSet(S), NEW f, \A x \in S : f[x] \in Nat, NEW T \in SUBSET S
  PROVE  Tokens(T, f) <= Tokens(S, f)
  <1> DEFINE A == {s \in SUBSET S : T \subseteq s => Tokens(T, f) <= Tokens(s, f)}
  <1>1. ASSUME NEW s \in SUBSET S, \A x \in s : s \ {x} \in A, T \subseteq s
        PROVE  Tokens(T, f) <= Tokens(s, f)
    <2>1. CASE T = s
      BY <2>1, TokensIs
    <2>2. CASE T # s
      <3>1. PICK x \in s : x \notin T
        BY <1>1, <2>2
      <3>2. Tokens(T, f) <= Tokens(s \ {x}, f)
        BY <1>1, <3>1
      <3>3. Tokens(s, f) = f[x] + Tokens(s \ {x}, f)
        BY <3>1, TokensStep
      <3>4. f[x] \in Nat /\ Tokens(s \ {x}, f) \in Nat /\ Tokens(T, f) \in Nat
        BY TokensIs
      <3> QED
        BY <3>2, <3>3, <3>4
    <2> QED
      BY <2>1, <2>2
  <1>2. SUBSET S \subseteq A
    <2>1. \A s \in SUBSET S : (\A x \in s : s \ {x} \in A) => s \in A
      BY <1>1
    <2> HIDE DEF A
    <2> QED
      BY <2>1, SetsByInduction
  <1> QED
    BY <1>2

(* The greatest of some numbers, and the least.                              *)
LEMMA Greatest ==
  ASSUME NEW n \in Nat, NEW s \in SUBSET (1..n), s # {}
  PROVE  Max(s) \in s /\ \A y \in s : y <= Max(s)
  <1> DEFINE B == {n - y : y \in s}
  <1>0. \A y \in s : y \in Nat /\ n - y \in Nat
    OBVIOUS
  <1>1. B \subseteq Nat /\ B # {}
    BY <1>0
  <1>2. PICK b \in B : \A m \in B : b <= m
    <2> HIDE DEF B
    <2> QED
      BY <1>1, LeastNumber
  <1>3. PICK x \in s : b = n - x
    BY <1>2
  <1>4. \A y \in s : x >= y
    <2> SUFFICES ASSUME NEW y \in s PROVE x >= y
      OBVIOUS
    <2>1. n - x <= n - y
      BY <1>2, <1>3
    <2> QED
      BY <1>0, <2>1
  <1>5. Max(s) \in s /\ \A y \in s : Max(s) >= y
    BY <1>4 DEF Max
  <1> QED
    BY <1>5

(* The least of some numbers is one of them and none is less.                 *)
LEMMA Least ==
  ASSUME NEW s \in SUBSET Nat, s # {}
  PROVE  Min(s) \in s /\ \A y \in s : Min(s) <= y
  <1>1. PICK x \in s : \A y \in s : x <= y
    BY LeastNumber
  <1> QED
    BY <1>1 DEF Min

(* A fold over a sequence goes through its prefixes.                          *)
FoldsUp(n, V, b, h, g) ==
  /\ g \in [SUBSET (1..n) -> V]
  /\ \A s \in SUBSET (1..n) : g[s] = IF s = {} THEN b ELSE h[<<Max(s), g[s \ {Max(s)}]>>]

(* There is such a function for the places of a sequence.                     *)
LEMMA PrefixFolds ==
  ASSUME NEW n \in Nat, NEW V, NEW b \in V, NEW h \in [(1..n) \X V -> V]
  PROVE  \E g : FoldsUp(n, V, b, h, g)
  <1> DEFINE c == [s \in SUBSET (1..n) |-> Max(s)]
  <1>1. \A s \in SUBSET (1..n) : s # {} => c[s] \in s
    BY Greatest
  <1>2. \A s \in SUBSET (1..n) : c[s] = Max(s)
    OBVIOUS
  <1>3. IsFiniteSet(1..n)
    BY FS_Interval
  <1> HIDE DEF c
  <1>4. PICK f \in [SUBSET (1..n) -> V] : FoldsOver(1..n, c, b, h, f)
    BY <1>1, <1>3, FoldExists
  <1>5. FoldsUp(n, V, b, h, f)
    BY <1>2, <1>4 DEF FoldsOver, FoldsUp
  <1> QED
    BY <1>5

(* The last of the first k places.                                            *)
LEMMA PrefixTop ==
  ASSUME NEW k \in Nat, k # 0
  PROVE  Max(1..k) = k /\ (1..k) \ {k} = 1..(k - 1) /\ 1..k # {}
  <1>1. 1..k \in SUBSET (1..k) /\ 1..k # {} /\ k \in 1..k
    OBVIOUS
  <1>2. Max(1..k) \in 1..k /\ k <= Max(1..k)
    BY <1>1, Greatest
  <1> QED
    BY <1>1, <1>2

-----------------------------------------------------------------------------
(* Ranking (retrieval/ranking.py).                                          *)

(* The share of a place is exact: Scale is a multiple of the denominator.     *)
LEMMA ShareIsExact ==
  ASSUME NEW p \in 1..CandidateLimit
  PROVE  /\ Scale \div (Damping + p) \in Nat
         /\ (Scale \div (Damping + p)) * (Damping + p) = Scale
  <1>1. Damping + p \in Nat \ {0} /\ Scale \in Nat /\ Scale % (Damping + p) = 0
    BY ContextBounds
  <1> QED
    BY <1>1

(* The share of the last place that a channel lists, and of the first.        *)
LeastShare == Scale \div (Damping + CandidateLimit)
MostShare == Scale \div (Damping + 1)

(* A better place has the greater share.                                    *)
LEMMA SharesFall ==
  ASSUME NEW d \in Nat, NEW s \in Nat, NEW a \in Nat, NEW b \in Nat, NEW p \in Nat, NEW r \in Nat,
         a * (d + p) = s, b * (d + r) = s, p <= r, s # 0
  PROVE  b <= a
  <1> SUFFICES ASSUME b >= a + 1 PROVE FALSE
    OBVIOUS
  <1>1. b * (d + r) >= b * (d + p)
    OBVIOUS
  <1>2. b * (d + p) >= (a + 1) * (d + p)
    OBVIOUS
  <1>3. (a + 1) * (d + p) = a * (d + p) + (d + p)
    OBVIOUS
  <1>4. d + p = 0
    BY <1>1, <1>2, <1>3
  <1> QED
    BY <1>4

LEMMA ShareOfPlace ==
  ASSUME NEW p \in 1..CandidateLimit
  PROVE  /\ LeastShare \in Nat /\ MostShare \in Nat
         /\ LeastShare <= Scale \div (Damping + p) /\ Scale \div (Damping + p) <= MostShare
  <1>1. /\ Damping \in Nat /\ Scale \in Nat /\ Scale # 0 /\ CandidateLimit \in Nat \ {0}
        /\ p \in Nat /\ 1 \in 1..CandidateLimit /\ CandidateLimit \in 1..CandidateLimit
        /\ 1 <= p /\ p <= CandidateLimit
    BY ContextBounds
  <1> DEFINE q == Scale \div (Damping + p)
  <1>2. q \in Nat /\ q * (Damping + p) = Scale
    BY ShareIsExact
  <1>3. LeastShare \in Nat /\ LeastShare * (Damping + CandidateLimit) = Scale
    BY <1>1, ShareIsExact DEF LeastShare
  <1>4. MostShare \in Nat /\ MostShare * (Damping + 1) = Scale
    BY <1>1, ShareIsExact DEF MostShare
  <1> HIDE DEF q
  <1>5. LeastShare <= q
    BY <1>1, <1>2, <1>3, SharesFall
  <1>6. q <= MostShare
    <2>1. 1 \in Nat
      OBVIOUS
    <2> QED
      BY <2>1, <1>1, <1>2, <1>4, SharesFall
  <1> QED
    BY <1>3, <1>4, <1>5, <1>6 DEF q

(* Three times the least share is more than twice the greatest, and so twice   *)
(* the least is more than the greatest.                                     *)
LEMMA DampingOutweighs == 3 * LeastShare > 2 * MostShare /\ 2 * LeastShare > MostShare
  <1>1. /\ Damping \in Nat /\ Scale \in Nat /\ Scale # 0 /\ CandidateLimit \in Nat \ {0}
        /\ 1 \in 1..CandidateLimit /\ CandidateLimit \in 1..CandidateLimit
    BY ContextBounds
  <1>2. LeastShare \in Nat /\ LeastShare * (Damping + CandidateLimit) = Scale
    BY <1>1, ShareIsExact DEF LeastShare
  <1>3. MostShare \in Nat /\ MostShare * (Damping + 1) = Scale
    BY <1>1, ShareIsExact DEF MostShare
  <1>4. MostShare >= 1
    BY <1>1, <1>3
  <1>5. PICK n \in Nat : n = Damping + CandidateLimit
    BY <1>1
  <1>6. n \in Nat /\ 3 * (Damping + 1) >= 2 * n + 1
    BY <1>1, <1>5, DampingSuffices
  <1>7. PICK o \in Nat : o = Damping + 1
    BY <1>1
  <1>8. LeastShare * n = MostShare * o /\ 3 * o >= 2 * n + 1
    BY <1>2, <1>3, <1>5, <1>6, <1>7
  <1>9. MostShare * (3 * o) >= MostShare * (2 * n + 1)
    BY <1>3, <1>7, <1>6, <1>8
  <1>10. 3 * (LeastShare * n) >= 2 * (MostShare * n) + MostShare
    BY <1>2, <1>3, <1>6, <1>7, <1>8, <1>9
  <1>11. 3 * LeastShare > 2 * MostShare
    <2> SUFFICES ASSUME 3 * LeastShare <= 2 * MostShare PROVE FALSE
      BY <1>2, <1>3
    <2>1. (3 * LeastShare) * n <= (2 * MostShare) * n
      BY <1>2, <1>3, <1>6
    <2>2. 3 * (LeastShare * n) <= 2 * (MostShare * n)
      BY <2>1, <1>2, <1>3, <1>6
    <2> QED
      BY <2>2, <1>2, <1>3, <1>4, <1>6, <1>10
  <1> QED
    BY <1>2, <1>3, <1>4, <1>11

(* What a channel adds to the score of a chunk.                              *)
LEMMA ShareIs ==
  ASSUME NEW list \in Lists(Nat), NEW c
  PROVE  /\ Hit(list, c) => /\ Share(list, c) \in Nat
                            /\ LeastShare <= Share(list, c) /\ Share(list, c) <= MostShare
         /\ ~Hit(list, c) => Share(list, c) = 0
  <1>1. PICK m \in 0..CandidateLimit : list \in [1..m -> Nat]
    BY DEF Lists, SeqOf
  <1>2. ASSUME Hit(list, c) PROVE Position(list, c) \in 1..CandidateLimit
    <2>1. \E i \in DOMAIN list : list[i] = c
      BY <1>2 DEF Hit
    <2>2. Position(list, c) \in DOMAIN list
      BY <2>1 DEF Position
    <2> QED
      BY <1>1, <2>2, ContextBounds
  <1>3. ASSUME Hit(list, c)
        PROVE  /\ Share(list, c) \in Nat
               /\ LeastShare <= Share(list, c) /\ Share(list, c) <= MostShare
    <2> DEFINE p == Position(list, c)
    <2>1. p \in 1..CandidateLimit
      BY <1>2, <1>3
    <2>2. Share(list, c) = Scale \div (Damping + p)
      BY <1>3 DEF Share
    <2> HIDE DEF p
    <2> QED
      BY <2>1, <2>2, ShareOfPlace, ShareIsExact
  <1>4. ~Hit(list, c) => Share(list, c) = 0
    BY DEF Share
  <1> QED
    BY <1>3, <1>4

(* One for a channel that found the chunk.                                  *)
Votes(found, c, ch) == IF Hit(found[ch], c) THEN 1 ELSE 0

(* The channels that found a chunk are counted one by one.                    *)
LEMMA FoundByCount ==
  ASSUME NEW found, NEW c
  PROVE  Cardinality(FoundBy(found, c)) =
           Votes(found, c, "lexical") + Votes(found, c, "symbol") + Votes(found, c, "vector")
  <1> DEFINE S == FoundBy(found, c)
             S1 == S \ {"lexical"}
             S2 == S1 \ {"symbol"}
             S3 == S2 \ {"vector"}
  <1>1. IsFiniteSet(Channels)
    <2>1. IsFiniteSet({"lexical"})
      BY FS_Singleton
    <2>2. IsFiniteSet({"lexical"} \cup {"symbol"})
      BY <2>1, FS_AddElement
    <2>3. IsFiniteSet(({"lexical"} \cup {"symbol"}) \cup {"vector"})
      BY <2>2, FS_AddElement
    <2>4. Channels = ({"lexical"} \cup {"symbol"}) \cup {"vector"}
      BY DEF Channels
    <2> QED
      BY <2>3, <2>4
  <1>2. IsFiniteSet(S)
    <2>1. S \in SUBSET Channels
      BY DEF FoundBy
    <2> QED
      BY <1>1, <2>1, FS_Subset
  <1>3. /\ IsFiniteSet(S1)
        /\ Cardinality(S1) = IF "lexical" \in S THEN Cardinality(S) - 1 ELSE Cardinality(S)
    BY <1>2, FS_RemoveElement
  <1>4. /\ IsFiniteSet(S2)
        /\ Cardinality(S2) = IF "symbol" \in S1 THEN Cardinality(S1) - 1 ELSE Cardinality(S1)
    BY <1>3, FS_RemoveElement
  <1>5. Cardinality(S3) = IF "vector" \in S2 THEN Cardinality(S2) - 1 ELSE Cardinality(S2)
    BY <1>4, FS_RemoveElement
  <1>6. S3 = {}
    BY DEF FoundBy, Channels
  <1>7. Cardinality(S3) = 0
    BY <1>6, FS_EmptySet
  <1>8. Cardinality(S) \in Nat
    BY <1>2, FS_CardinalityType
  <1>9. /\ "lexical" \in S <=> Hit(found["lexical"], c)
        /\ "symbol" \in S1 <=> Hit(found["symbol"], c)
        /\ "vector" \in S2 <=> Hit(found["vector"], c)
    BY DEF FoundBy, Channels
  <1>10. /\ Votes(found, c, "lexical") = IF "lexical" \in S THEN 1 ELSE 0
         /\ Votes(found, c, "symbol") = IF "symbol" \in S1 THEN 1 ELSE 0
         /\ Votes(found, c, "vector") = IF "vector" \in S2 THEN 1 ELSE 0
    BY <1>9 DEF Votes
  <1>11. ASSUME NEW A, NEW B, NEW C, NEW n0 \in Nat, NEW n1, NEW n2, NEW v1, NEW v2, NEW v3,
                n1 = (IF A THEN n0 - 1 ELSE n0), n2 = (IF B THEN n1 - 1 ELSE n1),
                0 = (IF C THEN n2 - 1 ELSE n2), v1 = (IF A THEN 1 ELSE 0),
                v2 = (IF B THEN 1 ELSE 0), v3 = (IF C THEN 1 ELSE 0)
         PROVE  n0 = v1 + v2 + v3
    BY <1>11
  <1> HIDE DEF S, S1, S2, S3
  <1>12. Cardinality(S) = Votes(found, c, "lexical") + Votes(found, c, "symbol") + Votes(found, c, "vector")
    BY <1>3, <1>4, <1>5, <1>7, <1>8, <1>10
  <1> QED
    BY <1>12 DEF S

(* A score is a number between the least and the most its channels can give.   *)
LEMMA ScoreIs ==
  ASSUME NEW found, \A ch \in Channels : found[ch] \in Lists(Nat), NEW c
  PROVE  /\ Score(found, c) \in Nat
         /\ Cardinality(FoundBy(found, c)) \in 0..3
         /\ Cardinality(FoundBy(found, c)) * LeastShare <= Score(found, c)
         /\ Score(found, c) <= Cardinality(FoundBy(found, c)) * MostShare
  <1> DEFINE a == Share(found["lexical"], c)
             b == Share(found["symbol"], c)
             d == Share(found["vector"], c)
             x == Votes(found, c, "lexical")
             y == Votes(found, c, "symbol")
             z == Votes(found, c, "vector")
  <1>1. LeastShare \in Nat /\ MostShare \in Nat
    <2>1. 1 \in 1..CandidateLimit
      BY ContextBounds
    <2> QED
      BY <2>1, ShareOfPlace
  <1>2. \A ch \in Channels :
          \/ /\ Votes(found, c, ch) = 0 /\ Share(found[ch], c) = 0
          \/ /\ Votes(found, c, ch) = 1 /\ Share(found[ch], c) \in Nat
             /\ LeastShare <= Share(found[ch], c) /\ Share(found[ch], c) <= MostShare
    BY ShareIs DEF Votes
  <1>3. "lexical" \in Channels /\ "symbol" \in Channels /\ "vector" \in Channels
    BY DEF Channels
  <1>4. (x = 0 /\ a = 0) \/ (x = 1 /\ a \in Nat /\ LeastShare <= a /\ a <= MostShare)
    BY <1>2, <1>3
  <1>5. (y = 0 /\ b = 0) \/ (y = 1 /\ b \in Nat /\ LeastShare <= b /\ b <= MostShare)
    BY <1>2, <1>3
  <1>6. (z = 0 /\ d = 0) \/ (z = 1 /\ d \in Nat /\ LeastShare <= d /\ d <= MostShare)
    BY <1>2, <1>3
  <1>7. Score(found, c) = a + b + d /\ Cardinality(FoundBy(found, c)) = x + y + z
    BY FoundByCount DEF Score
  <1> HIDE DEF a, b, d, x, y, z
  <1>8. /\ a + b + d \in Nat /\ x + y + z \in 0..3
        /\ (x + y + z) * LeastShare <= a + b + d /\ a + b + d <= (x + y + z) * MostShare
    BY <1>1, <1>4, <1>5, <1>6
  <1> QED
    BY <1>7, <1>8

(* The chunk that more channels found has the greater score.                  *)
LEMMA AgreementScores ==
  ASSUME NEW found, \A ch \in Channels : found[ch] \in Lists(Nat), NEW c, NEW d,
         Cardinality(FoundBy(found, c)) > Cardinality(FoundBy(found, d)),
         d \in Candidates(found)
  PROVE  Score(found, c) > Score(found, d)
  <1> DEFINE k == Cardinality(FoundBy(found, c))
             n == Cardinality(FoundBy(found, d))
             s == Score(found, c)
             t == Score(found, d)
  <1>1. LeastShare \in Nat /\ MostShare \in Nat
    <2>1. 1 \in 1..CandidateLimit
      BY ContextBounds
    <2> QED
      BY <2>1, ShareOfPlace
  <1>2. s \in Nat /\ k \in 0..3 /\ k * LeastShare <= s
    BY ScoreIs
  <1>3. t \in Nat /\ n \in 0..3 /\ t <= n * MostShare
    BY ScoreIs
  <1>4. n # 0
    <2>1. PICK ch \in Channels : d \in ToSet(found[ch])
      BY DEF Candidates
    <2>2. Hit(found[ch], d)
      BY <2>1 DEF ToSet, Hit
    <2>3. Votes(found, d, ch) = 1
      BY <2>2 DEF Votes
    <2>4. n = Votes(found, d, "lexical") + Votes(found, d, "symbol") + Votes(found, d, "vector")
      BY FoundByCount
    <2>5. \A h : Votes(found, d, h) \in 0..1
      BY DEF Votes
    <2>6. ch = "lexical" \/ ch = "symbol" \/ ch = "vector"
      BY DEF Channels
    <2>7. /\ Votes(found, d, "lexical") \in 0..1 /\ Votes(found, d, "symbol") \in 0..1
          /\ Votes(found, d, "vector") \in 0..1
          /\ \/ Votes(found, d, "lexical") = 1 \/ Votes(found, d, "symbol") = 1
             \/ Votes(found, d, "vector") = 1
      BY <2>3, <2>5, <2>6
    <2> QED
      BY <2>4, <2>7
  <1>5. k > n
    OBVIOUS
  <1> HIDE DEF k, n, s, t
  <1>6. 3 * LeastShare > 2 * MostShare /\ 2 * LeastShare > MostShare
    BY DampingOutweighs
  <1>7. s > t
    <2>1. CASE n = 1 /\ k = 2
      BY <2>1, <1>1, <1>2, <1>3, <1>6
    <2>2. CASE n = 1 /\ k = 3
      BY <2>2, <1>1, <1>2, <1>3, <1>6
    <2>3. CASE n = 2 /\ k = 3
      BY <2>3, <1>1, <1>2, <1>3, <1>6
    <2> QED
      BY <2>1, <2>2, <2>3, <1>2, <1>3, <1>4, <1>5
  <1> QED
    BY <1>7 DEF s, t

(* The candidates are chunks, and finitely many.                             *)
LEMMA CandidatesFinite ==
  ASSUME NEW found, \A ch \in Channels : found[ch] \in Lists(Nat)
  PROVE  IsFiniteSet(Candidates(found)) /\ Candidates(found) \subseteq Nat
  <1>1. ASSUME NEW ch \in Channels
        PROVE  IsFiniteSet(ToSet(found[ch])) /\ ToSet(found[ch]) \subseteq Nat
    <2>1. found[ch] \in Lists(Nat)
      BY <1>1
    <2>2. PICK m \in 0..CandidateLimit : found[ch] \in [1..m -> Nat]
      BY <2>1 DEF Lists, SeqOf
    <2>3. IsFiniteSet(1..m)
      BY <2>2, FS_Interval
    <2>4. found[ch] \in Surjection(1..m, ToSet(found[ch]))
      BY <2>2 DEF ToSet, Surjection
    <2>5. IsFiniteSet(ToSet(found[ch]))
      BY <2>3, <2>4, FS_Surjection
    <2>6. ToSet(found[ch]) \subseteq Nat
      BY <2>2 DEF ToSet
    <2> QED
      BY <2>5, <2>6
  <1> DEFINE a == ToSet(found["lexical"])
             b == ToSet(found["symbol"])
             c == ToSet(found["vector"])
  <1>2. "lexical" \in Channels /\ "symbol" \in Channels /\ "vector" \in Channels
    BY DEF Channels
  <1>3. IsFiniteSet(a) /\ IsFiniteSet(b) /\ IsFiniteSet(c)
    BY <1>1, <1>2
  <1>4. Candidates(found) = (a \cup b) \cup c
    BY DEF Candidates, Channels
  <1>5. IsFiniteSet((a \cup b) \cup c)
    <2> HIDE DEF a, b, c
    <2>1. IsFiniteSet(a \cup b)
      BY <1>3, FS_Union
    <2> QED
      BY <1>3, <2>1, FS_Union
  <1>6. Candidates(found) \subseteq Nat
    BY <1>1 DEF Candidates
  <1> QED
    BY <1>4, <1>5, <1>6

(* The order of the candidates is strict and total.                          *)
LEMMA BeforeOrders ==
  ASSUME NEW found, \A ch \in Channels : found[ch] \in Lists(Nat)
  PROVE  /\ \A a \in Nat : ~Before(found, a, a)
         /\ \A a, b \in Nat : a = b \/ Before(found, a, b) \/ Before(found, b, a)
         /\ \A a, b, c \in Nat : Before(found, a, b) /\ Before(found, b, c) => Before(found, a, c)
  <1>1. \A x \in Nat : Score(found, x) \in Nat
    BY ScoreIs
  <1>2. \A a, b \in Nat : Before(found, a, b) <=>
          \/ Score(found, a) > Score(found, b)
          \/ Score(found, a) = Score(found, b) /\ a < b
    BY DEF Before
  <1>3. ASSUME NEW a \in Nat, NEW b \in Nat
        PROVE  a = b \/ Before(found, a, b) \/ Before(found, b, a)
    BY <1>1, <1>2
  <1>4. ASSUME NEW a \in Nat, NEW b \in Nat, NEW c \in Nat,
               Before(found, a, b), Before(found, b, c)
        PROVE  Before(found, a, c)
    <2>1. Score(found, a) \in Nat /\ Score(found, b) \in Nat /\ Score(found, c) \in Nat
      BY <1>1
    <2>2. Score(found, a) > Score(found, b) \/ (Score(found, a) = Score(found, b) /\ a < b)
      BY <1>2, <1>4
    <2>3. Score(found, b) > Score(found, c) \/ (Score(found, b) = Score(found, c) /\ b < c)
      BY <1>2, <1>4
    <2>4. Score(found, a) > Score(found, c) \/ (Score(found, a) = Score(found, c) /\ a < c)
      BY <2>1, <2>2, <2>3
    <2> QED
      BY <1>2, <2>4
  <1>5. \A a \in Nat : ~Before(found, a, a)
    BY <1>1, <1>2
  <1> QED
    BY <1>3, <1>4, <1>5

(* The place of a candidate is one of the numbers up to their count, and a      *)
(* candidate before another has the lesser place.                            *)
LEMMA PlacesOrder ==
  ASSUME NEW found, \A ch \in Channels : found[ch] \in Lists(Nat), NEW c \in Candidates(found)
  PROVE  /\ Place(found, c) \in 1..Cardinality(Candidates(found))
         /\ \A a \in Candidates(found) : Before(found, a, c) => Place(found, a) < Place(found, c)
  <1> DEFINE S == Candidates(found)
             Above(x) == {d \in S : Before(found, d, x)}
  <1>1. IsFiniteSet(S) /\ S \subseteq Nat
    BY CandidatesFinite
  <1>2. ASSUME NEW x \in S
        PROVE  /\ IsFiniteSet(Above(x)) /\ Cardinality(Above(x)) \in Nat
               /\ Cardinality(Above(x) \cup {x}) = Cardinality(Above(x)) + 1
               /\ IsFiniteSet(Above(x) \cup {x})
               /\ Place(found, x) = 1 + Cardinality(Above(x))
    <2>1. Above(x) \in SUBSET S
      OBVIOUS
    <2>2. IsFiniteSet(Above(x))
      BY <1>1, <2>1, FS_Subset
    <2>3. x \notin Above(x)
      BY <1>1, BeforeOrders
    <2>4. Place(found, x) = 1 + Cardinality(Above(x))
      BY DEF Place
    <2> HIDE DEF Above
    <2> QED
      BY <2>2, <2>3, <2>4, FS_AddElement, FS_CardinalityType
  <1>3. Place(found, c) \in 1..Cardinality(S)
    <2>1. Above(c) \cup {c} \in SUBSET S
      OBVIOUS
    <2>2. Cardinality(Above(c) \cup {c}) <= Cardinality(S)
      BY <1>1, <2>1, FS_Subset
    <2>3. Cardinality(S) \in Nat
      BY <1>1, FS_CardinalityType
    <2>4. /\ Cardinality(Above(c)) \in Nat /\ Place(found, c) = 1 + Cardinality(Above(c))
          /\ Cardinality(Above(c) \cup {c}) = Cardinality(Above(c)) + 1
      BY <1>2
    <2> HIDE DEF Above, S
    <2> QED
      BY <2>2, <2>3, <2>4
  <1>4. ASSUME NEW a \in S, Before(found, a, c) PROVE Place(found, a) < Place(found, c)
    <2>1. Above(a) \cup {a} \in SUBSET Above(c)
      BY <1>1, <1>4, BeforeOrders
    <2>2. IsFiniteSet(Above(c)) /\ Cardinality(Above(c)) \in Nat
          /\ Place(found, c) = 1 + Cardinality(Above(c))
      BY <1>2
    <2>3. /\ Cardinality(Above(a)) \in Nat /\ Place(found, a) = 1 + Cardinality(Above(a))
          /\ Cardinality(Above(a) \cup {a}) = Cardinality(Above(a)) + 1
      BY <1>2
    <2>4. Cardinality(Above(a) \cup {a}) <= Cardinality(Above(c))
      <3> HIDE DEF Above
      <3> QED
        BY <2>1, <2>2, FS_Subset
    <2> HIDE DEF Above, S
    <2> QED
      BY <2>2, <2>3, <2>4
  <1> QED
    BY <1>3, <1>4

(* Every place up to the count of the candidates is that of exactly one.       *)
LEMMA PlacesFilled ==
  ASSUME NEW found, \A ch \in Channels : found[ch] \in Lists(Nat),
         NEW i \in 1..Cardinality(Candidates(found))
  PROVE  /\ \E c \in Candidates(found) : Place(found, c) = i
         /\ \A a, b \in Candidates(found) : Place(found, a) = i /\ Place(found, b) = i => a = b
  <1> DEFINE S == Candidates(found)
             n == Cardinality(S)
             f == [c \in S |-> Place(found, c)]
  <1>1. IsFiniteSet(S) /\ S \subseteq Nat
    BY CandidatesFinite
  <1>2. n \in Nat
    BY <1>1, FS_CardinalityType
  <1>3. \A c \in S : Place(found, c) \in 1..n
    BY PlacesOrder
  <1>4. ASSUME NEW a \in S, NEW b \in S, Place(found, a) = Place(found, b) PROVE a = b
    <2>1. a = b \/ Before(found, a, b) \/ Before(found, b, a)
      BY <1>1, BeforeOrders
    <2>2. ~Before(found, a, b)
      <3> SUFFICES ASSUME Before(found, a, b) PROVE FALSE
        OBVIOUS
      <3>1. Place(found, a) < Place(found, b) /\ Place(found, a) \in Nat
        BY PlacesOrder, <1>2, <1>3
      <3> QED
        BY <3>1, <1>4
    <2>3. ~Before(found, b, a)
      <3> SUFFICES ASSUME Before(found, b, a) PROVE FALSE
        OBVIOUS
      <3>1. Place(found, b) < Place(found, a) /\ Place(found, a) \in Nat
        BY PlacesOrder, <1>2, <1>3
      <3> QED
        BY <3>1, <1>4
    <2> QED
      BY <2>1, <2>2, <2>3
  <1>5. f \in Injection(S, 1..n)
    BY <1>3, <1>4 DEF Injection, IsInjective
  <1>6. IsFiniteSet(1..n)
    BY <1>2, FS_Interval
  <1>7. Cardinality(1..n) = n
    BY <1>2, FS_Interval
  <1>8. f \in Surjection(S, 1..n)
    <2> HIDE DEF f
    <2>1. Cardinality(S) = Cardinality(1..n)
      BY <1>7
    <2> HIDE DEF n, S
    <2> QED
      BY <1>5, <1>6, <2>1, FS_Injection
  <1>9. \E c \in S : f[c] = i
    <2>1. i \in 1..n
      OBVIOUS
    <2> QED
      BY <1>8, <2>1 DEF Surjection
  <1> QED
    BY <1>4, <1>9

(* Of any lists of chunks: a chunk that more channels found stands above every  *)
(* chunk that fewer found (fuse). Why: two shares are more than one and three   *)
(* more than two, so its score is greater; a candidate stands at its place,     *)
(* and the place of the greater score is the lesser one.                     *)
THEOREM AgreementRanks ==
  \A found : (\A ch \in Channels : found[ch] \in Lists(Nat)) => AgreementWinsFor(found)
  <1> SUFFICES ASSUME NEW found, \A ch \in Channels : found[ch] \in Lists(Nat)
               PROVE  AgreementWinsFor(found)
    OBVIOUS
  <1> DEFINE S == Candidates(found)
             n == Cardinality(S)
             m == IF n < TopK THEN n ELSE TopK
             ranked == Fuse(found)
  <1>1. IsFiniteSet(S) /\ S \subseteq Nat
    BY CandidatesFinite
  <1>2. n \in Nat /\ TopK \in Nat
    BY <1>1, FS_CardinalityType, ContextBounds
  <1>3. m \in Nat /\ m <= n
    BY <1>2
  <1>4. ranked = [i \in 1..m |-> CHOOSE c \in S : Place(found, c) = i]
    BY DEF Fuse
  <1>5. ASSUME NEW i \in 1..m PROVE ranked[i] \in S /\ Place(found, ranked[i]) = i
    <2>1. i \in 1..n
      BY <1>2, <1>3
    <2>2. \E c \in S : Place(found, c) = i
      BY <2>1, PlacesFilled
    <2>3. ranked[i] = CHOOSE c \in S : Place(found, c) = i
      BY <1>4
    <2> HIDE DEF ranked, S
    <2> QED
      BY <2>2, <2>3
  <1>6. DOMAIN ranked = 1..m
    BY <1>4
  <1> HIDE DEF ranked, m
  <1>7. ASSUME NEW i \in 1..m, NEW c \in S,
               Cardinality(FoundBy(found, c)) > Cardinality(FoundBy(found, ranked[i]))
        PROVE  \E j \in 1..(i - 1) : ranked[j] = c
    <2>1. ranked[i] \in S /\ Place(found, ranked[i]) = i
      BY <1>5
    <2>2. Score(found, c) > Score(found, ranked[i])
      BY <2>1, <1>7, AgreementScores
    <2>3. Before(found, c, ranked[i])
      BY <2>2 DEF Before
    <2>4. Place(found, c) < i
      BY <2>1, <2>3, PlacesOrder
    <2>5. Place(found, c) \in 1..n
      BY PlacesOrder
    <2>6. PICK j \in 1..n : j = Place(found, c)
      BY <2>5
    <2>7. j \in 1..(i - 1) /\ j \in 1..m
      BY <1>2, <1>3, <2>4, <2>6
    <2>8. ranked[j] \in S /\ Place(found, ranked[j]) = j
      BY <1>5, <2>7
    <2>9. ranked[j] = c
      BY <2>6, <2>8, PlacesFilled
    <2> QED
      BY <2>7, <2>9
  <1> QED
    BY <1>6, <1>7 DEF AgreementWinsFor, ranked

-----------------------------------------------------------------------------
(* Evidence.                                                               *)

(* What is kept of the first k hits.                                         *)
Packs(n, hits, p) ==
  /\ p \in [0..n -> SUBSET (1..n)] /\ p[0] = {}
  /\ \A k \in 1..n : p[k] = IF Tokens(p[k - 1] \cup {k}, hits) <= EvidenceBudget
                            THEN p[k - 1] \cup {k} ELSE p[k - 1]

(* Packing goes through the hits in order.                                    *)
LEMMA PackIs ==
  ASSUME NEW n \in Nat, NEW hits \in [1..n -> Nat]
  PROVE  \E p : Packs(n, hits, p) /\ Pack(hits) = p[n]
  <1> DEFINE Add(kept, i) == IF Tokens(kept \cup {i}, hits) <= EvidenceBudget THEN kept \cup {i} ELSE kept
             q == [i \in DOMAIN hits |-> i]
             V == SUBSET (1..n)
             h == [x \in (1..n) \X V |-> Add(x[2], x[1])]
             IsIt(g) == g = [s \in SUBSET DOMAIN q |->
                               IF s = {} THEN {} ELSE Add(g[s \ {Max(s)}], q[Max(s)])]
  <1>1. h \in [(1..n) \X V -> V] /\ \A i \in 1..n, v \in V : h[<<i, v>>] = Add(v, i)
    <2>1. \A i \in 1..n, v \in V : Add(v, i) \in V
      OBVIOUS
    <2> HIDE DEF Add, V
    <2> QED
      BY <2>1
  <1>2. DOMAIN q = 1..n /\ \A i \in 1..n : q[i] = i
    OBVIOUS
  <1>3. {} \in V
    OBVIOUS
  <1>4. PICK f : FoldsUp(n, V, {}, h, f)
    <2> HIDE DEF h, V
    <2>1. h \in [(1..n) \X V -> V]
      BY <1>1
    <2> QED
      BY <1>3, <2>1, PrefixFolds
  <1>5. \A s \in SUBSET (1..n) : s # {} => Max(s) \in 1..n /\ s \ {Max(s)} \in SUBSET (1..n)
    BY Greatest
  <1>6. IsIt(f)
    <2> HIDE DEF h, V, Add, q
    <2>1. \A s \in SUBSET (1..n) : f[s] = IF s = {} THEN {} ELSE Add(f[s \ {Max(s)}], q[Max(s)])
      <3> SUFFICES ASSUME NEW s \in SUBSET (1..n), s # {}
                   PROVE  f[s] = Add(f[s \ {Max(s)}], q[Max(s)])
        BY <1>4 DEF FoldsUp
      <3>1. f[s \ {Max(s)}] \in V /\ Max(s) \in 1..n
        BY <1>4, <1>5 DEF FoldsUp
      <3>2. f[s] = h[<<Max(s), f[s \ {Max(s)}]>>]
        BY <1>4 DEF FoldsUp
      <3> QED
        BY <1>1, <1>2, <3>1, <3>2
    <2> QED
      BY <1>2, <1>4, <2>1 DEF FoldsUp
  <1>7. PICK g : IsIt(g) /\ Pack(hits) = g[DOMAIN q]
    BY <1>6 DEF Pack, FoldLeft, MapThenFoldSet
  <1> DEFINE p == [k \in 0..n |-> g[1..k]]
  <1>8. g[{}] = {}
    BY <1>7
  <1>9. ASSUME NEW k \in 1..n PROVE g[1..k] = Add(g[1..(k - 1)], k)
    <2>0. k \in Nat /\ k # 0 /\ 1..k \in SUBSET (1..n)
      OBVIOUS
    <2>1. 1..k \in SUBSET (1..n) /\ Max(1..k) = k /\ (1..k) \ {k} = 1..(k - 1) /\ 1..k # {}
      BY <2>0, PrefixTop
    <2> HIDE DEF q, Add
    <2>2. g[1..k] = Add(g[(1..k) \ {Max(1..k)}], q[Max(1..k)])
      BY <1>2, <1>7, <2>1
    <2> QED
      BY <1>2, <2>1, <2>2
  <1>10. 1..0 = {} /\ p[0] = {} /\ p[n] = g[1..n]
    BY <1>8
  <1>11. \A k \in 1..n : k - 1 \in 0..n /\ p[k] = Add(p[k - 1], k)
    <2> HIDE DEF Add, q, IsIt
    <2> QED
      BY <1>9
  <1>12. \A k \in 0..n : p[k] \in SUBSET (1..n)
    <2> DEFINE A == {k \in 0..n : p[k] \in SUBSET (1..n)}
    <2>1. 0 \in A
      BY <1>10
    <2>2. \A k \in 0..(n - 1) : k \in A => k + 1 \in A
      <3> SUFFICES ASSUME NEW k \in 0..(n - 1), k \in A PROVE p[k + 1] \in SUBSET (1..n)
        OBVIOUS
      <3>1. k + 1 \in 1..n /\ k + 1 - 1 = k
        OBVIOUS
      <3>2. p[k + 1] = Add(p[k], k + 1)
        <4> HIDE DEF p, Add
        <4> QED
          BY <1>11, <3>1
      <3>3. p[k] \in SUBSET (1..n)
        OBVIOUS
      <3> HIDE DEF p
      <3> QED
        BY <3>1, <3>2, <3>3
    <2> HIDE DEF A
    <2>3. 0..n \subseteq A
      BY <2>1, <2>2, NumbersUpTo
    <2> QED
      BY <2>3 DEF A
  <1>13. Packs(n, hits, p)
    <2>1. p \in [0..n -> SUBSET (1..n)]
      BY <1>12
    <2> HIDE DEF p
    <2> QED
      BY <1>10, <1>11, <2>1 DEF Packs
  <1>14. Pack(hits) = p[n]
    BY <1>2, <1>7, <1>10
  <1> QED
    BY <1>13, <1>14

(* A hit is left out because it does not fit beside those before it.           *)
LEMMA PackSkips ==
  ASSUME NEW n \in Nat, NEW hits \in [1..n -> Nat], NEW p, Packs(n, hits, p)
  PROVE  /\ Tokens(p[n], hits) <= EvidenceBudget
         /\ \A k \in 1..n : k \notin p[n] =>
              Tokens((p[n] \cap 1..(k - 1)) \cup {k}, hits) > EvidenceBudget
  <1> DEFINE Fit(k) ==
               /\ p[k] \subseteq 1..k /\ Tokens(p[k], hits) <= EvidenceBudget
               /\ \A j \in 1..k : j \notin p[k] =>
                    Tokens((p[k] \cap 1..(j - 1)) \cup {j}, hits) > EvidenceBudget
             A == {k \in 0..n : Fit(k)}
  <1>0. IsFiniteSet(1..n)
    BY FS_Interval
  <1>1. IsFiniteSet(1..n) /\ \A i \in 1..n : hits[i] \in Nat
    BY <1>0
  <1>2. EvidenceBudget \in Nat
    BY ContextBounds DEF ContextBounds
  <1>3. Tokens({}, hits) = 0 /\ \A s \in SUBSET (1..n) : Tokens(s, hits) \in Nat
    BY <1>1, TokensIs
  <1>4. 0 \in A
    <2>1. p[0] = {} /\ 0 \in 0..n /\ Tokens(p[0], hits) <= EvidenceBudget
      BY <1>2, <1>3 DEF Packs
    <2>2. \A j \in 1..0 : FALSE
      OBVIOUS
    <2> QED
      BY <2>1, <2>2
  <1>5. ASSUME NEW k \in 0..(n - 1), k \in A PROVE k + 1 \in A
    <2>1. k + 1 \in 1..n /\ k + 1 - 1 = k /\ 1..(k + 1) = 1..k \cup {k + 1} /\ k + 1 \notin 1..k
      OBVIOUS
    <2>2. /\ p[k] \subseteq 1..k /\ Tokens(p[k], hits) <= EvidenceBudget
          /\ \A j \in 1..k : j \notin p[k] =>
               Tokens((p[k] \cap 1..(j - 1)) \cup {j}, hits) > EvidenceBudget
      BY <1>5
    <2>3. p[k + 1] = IF Tokens(p[k] \cup {k + 1}, hits) <= EvidenceBudget
                     THEN p[k] \cup {k + 1} ELSE p[k]
      BY <2>1 DEF Packs
    <2>4. p[k + 1] \subseteq 1..(k + 1) /\ Tokens(p[k + 1], hits) <= EvidenceBudget
      BY <2>1, <2>2, <2>3
    <2>5. p[k + 1] \cap 1..k = p[k]
      BY <2>1, <2>2, <2>3
    <2>6. ASSUME NEW j \in 1..(k + 1), j \notin p[k + 1]
          PROVE  Tokens((p[k + 1] \cap 1..(j - 1)) \cup {j}, hits) > EvidenceBudget
      <3>1. CASE j = k + 1
        <4>1. p[k + 1] = p[k] /\ ~(Tokens(p[k] \cup {k + 1}, hits) <= EvidenceBudget)
          BY <2>3, <2>6, <3>1
        <4>2. (p[k + 1] \cap 1..(j - 1)) \cup {j} = p[k] \cup {k + 1}
          BY <2>1, <2>5, <3>1
        <4>3. p[k] \cup {k + 1} \in SUBSET (1..n)
          BY <2>1, <2>2
        <4>4. Tokens(p[k] \cup {k + 1}, hits) \in Nat
          BY <1>3, <4>3
        <4>5. Tokens(p[k] \cup {k + 1}, hits) > EvidenceBudget
          BY <1>2, <4>1, <4>4
        <4> QED
          BY <4>2, <4>5
      <3>2. CASE j # k + 1
        <4>1. j \in 1..k /\ 1..(j - 1) \subseteq 1..k
          BY <3>2
        <4>2. p[k + 1] \cap 1..(j - 1) = p[k] \cap 1..(j - 1) /\ j \notin p[k]
          BY <2>5, <2>6, <4>1
        <4> QED
          BY <2>2, <4>1, <4>2
      <3> QED
        BY <3>1, <3>2
    <2>7. Fit(k + 1)
      BY <2>4, <2>6
    <2> HIDE DEF Fit
    <2> QED
      BY <2>1, <2>7
  <1>6. n \in A
    <2>1. \A k \in 0..(n - 1) : k \in A => k + 1 \in A
      BY <1>5
    <2> HIDE DEF A
    <2>2. 0..n \subseteq A
      BY <1>4, <2>1, NumbersUpTo
    <2> QED
      BY <2>2
  <1> QED
    BY <1>6

(* Packing (retrieval/context.py) keeps within the budget, and no other choice*)
(* that does prefers a better hit, for any number of hits of any size.        *)
THEOREM PackingIsFirstFit ==
  ASSUME NEW n \in Nat, NEW hits \in [1..n -> Nat]
  PROVE  EvidenceIsFirstFitFor(hits)
  <1>1. PICK p : Packs(n, hits, p) /\ Pack(hits) = p[n]
    BY PackIs
  <1> DEFINE kept == Pack(hits)
  <1>2. kept \in SUBSET (1..n)
    BY <1>1 DEF Packs
  <1>3. /\ Tokens(kept, hits) <= EvidenceBudget
        /\ \A k \in 1..n : k \notin kept => Tokens((kept \cap 1..(k - 1)) \cup {k}, hits) > EvidenceBudget
    BY <1>1, PackSkips
  <1> HIDE DEF kept
  <1>0. IsFiniteSet(1..n)
    BY FS_Interval
  <1>4. IsFiniteSet(1..n) /\ \A i \in 1..n : hits[i] \in Nat
    BY <1>0
  <1>5. ASSUME NEW other \in SUBSET (1..n), Tokens(other, hits) <= EvidenceBudget, other # kept
        PROVE  Min((kept \ other) \cup (other \ kept)) \in kept
    <2> DEFINE diff == (kept \ other) \cup (other \ kept)
               m == Min(diff)
    <2>1. diff \in SUBSET Nat /\ diff # {}
      BY <1>2, <1>5
    <2>2. m \in diff /\ \A y \in diff : m <= y
      <3> HIDE DEF diff
      <3> QED
        BY <2>1, Least
    <2> SUFFICES ASSUME m \notin kept PROVE FALSE
      OBVIOUS
    <2>3. m \in other /\ m \in 1..n
      BY <1>2, <2>2
    <2>4. \A y \in 1..(m - 1) : y \notin diff
      <3> HIDE DEF m, diff
      <3> QED
        BY <2>2, <2>3
    <2>5. (kept \cap 1..(m - 1)) \cup {m} \subseteq other
      BY <2>3, <2>4
    <2> DEFINE low == (kept \cap 1..(m - 1)) \cup {m}
    <2>6. Tokens(low, hits) > EvidenceBudget
      BY <1>3, <2>3
    <2>7. low \in SUBSET other /\ other \in SUBSET (1..n)
      BY <2>5
    <2> HIDE DEF low, m, diff
    <2>8. IsFiniteSet(other) /\ \A i \in other : hits[i] \in Nat
      BY <1>4, FS_Subset
    <2>9. Tokens(low, hits) <= Tokens(other, hits)
      BY <2>7, <2>8, TokensGrow
    <2>10. Tokens(low, hits) \in Nat /\ Tokens(other, hits) \in Nat
      BY <2>7, <2>8, TokensIs
    <2>11. EvidenceBudget \in Nat
      BY ContextBounds DEF ContextBounds
    <2> QED
      BY <1>5, <2>6, <2>9, <2>10, <2>11
  <1>6. DOMAIN hits = 1..n
    OBVIOUS
  <1> QED
    BY <1>3, <1>5, <1>6 DEF EvidenceIsFirstFitFor, kept

-----------------------------------------------------------------------------
(* History.                                                                *)

(* The last n items.                                                       *)
Newest(t, n) == SubSeq(t, Len(t) - n + 1, Len(t))

(* Which items they are.                                                      *)
LEMMA NewestIs ==
  ASSUME NEW R, NEW t \in Seq(R), NEW n \in 0..Len(t)
  PROVE  /\ Newest(t, n) \in Seq(R) /\ Len(Newest(t, n)) = n
         /\ \A i \in 1..n : Newest(t, n)[i] = t[Len(t) - n + i]
  <1>1. Len(t) \in Nat /\ DOMAIN t = 1..Len(t) /\ n \in Nat
    BY LenProperties
  <1> DEFINE m == Len(t) - n + 1
             L == Len(t)
  <1>2. m \in Int /\ L \in Int /\ L - m + 1 = n /\ m \in 1..(L + 1)
    BY <1>1
  <1>3. \A i \in m..L : t[i] \in R
    BY <1>1, <1>2, ElementOfSeq
  <1>4. SubSeq(t, m, L) \in Seq(R)
    BY <1>2, <1>3, SubSeqProperties
  <1>5. Len(SubSeq(t, m, L)) = IF m <= L THEN L - m + 1 ELSE 0
    BY <1>2, <1>3, SubSeqProperties
  <1>6. \A i \in 1..(L - m + 1) : SubSeq(t, m, L)[i] = t[m + i - 1]
    BY <1>2, <1>3, SubSeqProperties
  <1>7. Len(SubSeq(t, m, L)) = n
    BY <1>1, <1>2, <1>5
  <1>8. \A i \in 1..n : m + i - 1 = L - n + i
    BY <1>1
  <1>9. \A i \in 1..n : SubSeq(t, m, L)[i] = t[L - n + i]
    BY <1>2, <1>6, <1>8
  <1> QED
    BY <1>4, <1>7, <1>9 DEF Newest

(* The last of the last items are the last items.                             *)
LEMMA NewestOfNewest ==
  ASSUME NEW R, NEW t \in Seq(R), NEW n \in 0..Len(t), NEW m \in 0..n
  PROVE  Newest(Newest(t, n), m) = Newest(t, m)
  <1> DEFINE u == Newest(t, n)
  <1>1. u \in Seq(R) /\ Len(u) = n /\ \A i \in 1..n : u[i] = t[Len(t) - n + i]
    BY NewestIs
  <1>2. Len(t) \in Nat
    BY LenProperties
  <1> HIDE DEF u
  <1>3. m \in 0..Len(u) /\ m \in 0..Len(t)
    BY <1>1, <1>2
  <1>4. /\ Newest(u, m) \in Seq(R) /\ Len(Newest(u, m)) = m
        /\ \A i \in 1..m : Newest(u, m)[i] = u[Len(u) - m + i]
    BY <1>1, <1>3, NewestIs, ZenonT(60)
  <1>5. /\ Newest(t, m) \in Seq(R) /\ Len(Newest(t, m)) = m
        /\ \A i \in 1..m : Newest(t, m)[i] = t[Len(t) - m + i]
    BY <1>3, NewestIs
  <1>6. \A i \in 1..m : Newest(u, m)[i] = Newest(t, m)[i]
    <2> SUFFICES ASSUME NEW i \in 1..m PROVE Newest(u, m)[i] = Newest(t, m)[i]
      OBVIOUS
    <2>1. n - m + i \in 1..n /\ Len(t) - n + (n - m + i) = Len(t) - m + i
      BY <1>2
    <2>2. Newest(u, m)[i] = u[n - m + i]
      BY <1>1, <1>4
    <2> QED
      BY <1>1, <1>5, <2>1, <2>2
  <1>7. Newest(u, m) = Newest(t, m)
    BY <1>4, <1>5, <1>6, SeqEqual
  <1> QED
    BY <1>7 DEF u

(* Recent turns are the last ones, as many as may be remembered.              *)
LEMMA RecentIs ==
  ASSUME NEW R, NEW t \in Seq(R)
  PROVE  \E n \in 0..Len(t) : /\ Recent(t) = Newest(t, n) /\ n <= MaxTurns
                              /\ \A m \in 0..Len(t) : m <= MaxTurns => m <= n
  <1>1. Len(t) \in Nat /\ MaxTurns \in Nat
    BY LenProperties, ContextBounds DEF ContextBounds
  <1> DEFINE n == IF Len(t) < MaxTurns THEN Len(t) ELSE MaxTurns
  <1>2. n \in 0..Len(t) /\ n <= MaxTurns /\ \A m \in 0..Len(t) : m <= MaxTurns => m <= n
    BY <1>1
  <1>3. Recent(t) = Newest(t, n)
    BY DEF Recent, Newest
  <1> HIDE DEF n
  <1> QED
    BY <1>2, <1>3

(* Dropping the oldest, one at a time: `fits` are the numbers of dropped items  *)
(* that leave a rest that fits.                                             *)
LEMMA DropsUntil ==
  ASSUME NEW len \in Nat, NEW fits \in SUBSET (0..len), len \in fits, NEW rest,
         NEW drop, drop = [n \in 0..len |-> IF n \in fits THEN rest[n] ELSE drop[n + 1]]
  PROVE  drop[0] = rest[Min(fits)]
  <1>1. Min(fits) \in fits /\ \A y \in fits : Min(fits) <= y
    BY Least
  <1> DEFINE m == Min(fits)
             A == {k \in 0..m : drop[k] = drop[0]}
  <1>2. m \in 0..len
    BY <1>1
  <1>3. 0 \in A
    BY <1>2
  <1>4. \A k \in 0..(m - 1) : k \in A => k + 1 \in A
    <2>1. ASSUME NEW k \in 0..(m - 1) PROVE k \in 0..len /\ k \notin fits /\ k + 1 \in 0..m
      BY <1>1, <1>2
    <2>2. ASSUME NEW k \in 0..(m - 1) PROVE drop[k] = drop[k + 1]
      BY <2>1
    <2> QED
      BY <2>1, <2>2
  <1>5. 0..m \subseteq A
    <2>1. m \in Nat
      BY <1>2
    <2> HIDE DEF m, A
    <2> QED
      BY <2>1, <1>3, <1>4, NumbersUpTo
  <1> HIDE DEF A
  <1>6. drop[m] = drop[0]
    <2>1. m \in 0..m
      BY <1>2
    <2>2. m \in A
      BY <1>5, <2>1
    <2> QED
      BY <2>2 DEF A
  <1>7. drop[m] = rest[m]
    BY <1>1, <1>2
  <1> QED
    BY <1>6, <1>7

(* There is such a function.                                                  *)
LEMMA DropExists ==
  ASSUME NEW len \in Nat, NEW fits \in SUBSET (0..len), len \in fits, NEW rest
  PROVE  \E drop : drop = [n \in 0..len |-> IF n \in fits THEN rest[n] ELSE drop[n + 1]]
  <1> DEFINE later(n) == {m \in fits : n <= m}
             drop == [n \in 0..len |-> rest[Min(later(n))]]
  <1>1. ASSUME NEW n \in 0..len PROVE Min(later(n)) \in later(n) /\ \A y \in later(n) : Min(later(n)) <= y
    <2>1. later(n) \in SUBSET Nat /\ later(n) # {}
      <3>1. len \in later(n)
        OBVIOUS
      <3>2. later(n) \subseteq fits /\ fits \subseteq Nat
        OBVIOUS
      <3> HIDE DEF later
      <3> QED
        BY <3>1, <3>2
    <2> HIDE DEF later
    <2> QED
      BY <2>1, Least
  <1>2. ASSUME NEW n \in 0..len, n \in fits PROVE Min(later(n)) = n
    <2>1. n \in later(n) /\ \A y \in later(n) : y \in Nat /\ n <= y
      BY <1>2
    <2> HIDE DEF later
    <2> QED
      BY <1>1, <2>1
  <1>3. ASSUME NEW n \in 0..len, n \notin fits PROVE n + 1 \in 0..len /\ later(n) = later(n + 1)
    <2>1. n + 1 \in 0..len
      BY <1>3
    <2>2. \A m \in fits : n <= m <=> n + 1 <= m
      BY <1>3
    <2> QED
      BY <2>1, <2>2
  <1>4. \A n \in 0..len : drop[n] = IF n \in fits THEN rest[n] ELSE drop[n + 1]
    <2> HIDE DEF later
    <2> QED
      BY <1>2, <1>3
  <1>5. drop = [n \in 0..len |-> IF n \in fits THEN rest[n] ELSE drop[n + 1]]
    <2> DEFINE d == [n \in 0..len |-> IF n \in fits THEN rest[n] ELSE drop[n + 1]]
    <2>1. \A n \in 0..len : drop[n] = d[n]
      BY <1>4
    <2> QED
      BY <2>1
  <1> QED
    BY <1>5

(* The items that are kept: as many of the newest as may be.                  *)
Drops(t, may, d) ==
  d = [n \in 0..Len(t) |-> IF n = Len(t) \/ Len(t) - n \in may
                           THEN SubSeq(t, n + 1, Len(t)) ELSE d[n + 1]]

(* Dropping the oldest items keeps as many of the newest as may be kept.      *)
LEMMA DropIs ==
  ASSUME NEW R, NEW t \in Seq(R), NEW may
  PROVE  /\ \E d : Drops(t, may, d)
         /\ \A d : Drops(t, may, d) =>
              \E j \in 0..Len(t) : /\ d[0] = Newest(t, j) /\ (j = 0 \/ j \in may)
                                   /\ \A m \in 0..Len(t) : m \in may => m <= j
  <1> DEFINE len == Len(t)
             fits == {n \in 0..len : n = len \/ len - n \in may}
             rest == [n \in 0..len |-> SubSeq(t, n + 1, len)]
  <1>1. len \in Nat /\ fits \in SUBSET (0..len) /\ len \in fits
    BY LenProperties
  <1>2. ASSUME NEW d
        PROVE  Drops(t, may, d) <=> d = [n \in 0..len |-> IF n \in fits THEN rest[n] ELSE d[n + 1]]
    <2>1. [n \in 0..len |-> IF n = len \/ len - n \in may THEN SubSeq(t, n + 1, len) ELSE d[n + 1]]
          = [n \in 0..len |-> IF n \in fits THEN rest[n] ELSE d[n + 1]]
      OBVIOUS
    <2> HIDE DEF fits, rest
    <2> QED
      BY <2>1 DEF Drops
  <1>3. \E d : Drops(t, may, d)
    <2> HIDE DEF fits, rest, len
    <2>1. PICK d : d = [n \in 0..len |-> IF n \in fits THEN rest[n] ELSE d[n + 1]]
      BY <1>1, DropExists
    <2> QED
      BY <1>2, <2>1
  <1>4. ASSUME NEW d, Drops(t, may, d)
        PROVE  \E j \in 0..Len(t) : /\ d[0] = Newest(t, j) /\ (j = 0 \/ j \in may)
                                    /\ \A m \in 0..Len(t) : m \in may => m <= j
    <2> DEFINE k == Min(fits)
    <2>1. d[0] = rest[k]
      <3>1. d = [n \in 0..len |-> IF n \in fits THEN rest[n] ELSE d[n + 1]]
        BY <1>2, <1>4
      <3> HIDE DEF fits, rest, len
      <3> QED
        BY <1>1, <3>1, DropsUntil, SMTT(30)
    <2>2. k \in fits /\ \A y \in fits : k <= y
      <3> HIDE DEF fits
      <3>1. fits \in SUBSET Nat /\ fits # {}
        BY <1>1
      <3> QED
        BY <3>1, Least
    <2> HIDE DEF k
    <2>3. k \in 0..len /\ len - k \in 0..len /\ (len - k = 0 \/ len - k \in may)
      BY <1>1, <2>2
    <2>4. rest[k] = Newest(t, len - k)
      <3>1. len - (len - k) + 1 = k + 1
        BY <1>1, <2>3
      <3> QED
        BY <2>3, <3>1 DEF Newest
    <2>5. ASSUME NEW m \in 0..len, m \in may PROVE m <= len - k
      <3>1. len - m \in 0..len /\ len - (len - m) = m
        BY <1>1
      <3>2. len - m \in fits
        BY <2>5, <3>1
      <3>3. k <= len - m
        BY <2>2, <3>2
      <3> QED
        BY <1>1, <2>3, <3>3
    <2> HIDE DEF fits, rest
    <2> QED
      BY <2>1, <2>3, <2>4, <2>5
  <1> QED
    BY <1>3, <1>4

(* What is left after n items are dropped.                                    *)
LEMMA DropNewest ==
  ASSUME NEW R, NEW t \in Seq(R), NEW n \in 0..Len(t)
  PROVE  SubSeq(t, n + 1, Len(t)) = Newest(t, Len(t) - n)
  <1>1. Len(t) - (Len(t) - n) + 1 = n + 1
    BY LenProperties
  <1> QED
    BY <1>1 DEF Newest

(* What a history may hold.                                                  *)
Short(t) == {m \in 0..Len(t) : Within(Size(Newest(t, m)), HistoryLimit)}
Room(base, t) == {m \in 0..Len(t) : Within(Plus(base, Size(Newest(t, m))), PayloadLimit)}

(* A bounded history is the longest recent end that fits by itself.           *)
LEMMA BoundedIs ==
  ASSUME NEW R, NEW t \in Seq(R)
  PROVE  \E j \in 0..Len(t) :
           /\ BoundedHistory(t) = Newest(t, j) /\ j <= MaxTurns /\ (j = 0 \/ j \in Short(t))
           /\ \A m \in Short(t) : m <= MaxTurns => m <= j
  <1> DEFINE u == Recent(t)
  <1>1. PICK n \in 0..Len(t) : /\ u = Newest(t, n) /\ n <= MaxTurns
                              /\ \A m \in 0..Len(t) : m <= MaxTurns => m <= n
    BY RecentIs
  <1>2. u \in Seq(R) /\ Len(u) = n /\ Len(t) \in Nat
    BY <1>1, NewestIs, LenProperties
  <1>3. \A m \in 0..n : Newest(u, m) = Newest(t, m)
    BY <1>1, NewestOfNewest
  <1> HIDE DEF u
  <1>4. ASSUME NEW d
        PROVE  Drops(u, Short(u), d)
               <=> d = [k \in 0..Len(u) |->
                          IF k = Len(u) \/ Within(Size(SubSeq(u, k + 1, Len(u))), HistoryLimit)
                          THEN SubSeq(u, k + 1, Len(u)) ELSE d[k + 1]]
    <2>1. ASSUME NEW k \in 0..Len(u)
          PROVE  Len(u) - k \in Short(u)
                 <=> Within(Size(SubSeq(u, k + 1, Len(u))), HistoryLimit)
      <3>1. SubSeq(u, k + 1, Len(u)) = Newest(u, Len(u) - k)
        BY <1>2, DropNewest
      <3>2. Len(u) - k \in 0..Len(u)
        BY <1>2
      <3> QED
        BY <3>1, <3>2 DEF Short
    <2>2. [k \in 0..Len(u) |-> IF k = Len(u) \/ Len(u) - k \in Short(u)
                               THEN SubSeq(u, k + 1, Len(u)) ELSE d[k + 1]]
          = [k \in 0..Len(u) |->
               IF k = Len(u) \/ Within(Size(SubSeq(u, k + 1, Len(u))), HistoryLimit)
               THEN SubSeq(u, k + 1, Len(u)) ELSE d[k + 1]]
      BY <2>1
    <2> QED
      BY <2>2 DEF Drops
  <1>5. PICK d : Drops(u, Short(u), d) /\ BoundedHistory(t) = d[0]
    <2>1. \E d : Drops(u, Short(u), d)
      BY <1>2, DropIs
    <2>2. \E d : d = [k \in 0..Len(u) |->
                          IF k = Len(u) \/ Within(Size(SubSeq(u, k + 1, Len(u))), HistoryLimit)
                          THEN SubSeq(u, k + 1, Len(u)) ELSE d[k + 1]]
      BY <1>4, <2>1
    <2>3. \E d : /\ d = [k \in 0..Len(u) |->
                          IF k = Len(u) \/ Within(Size(SubSeq(u, k + 1, Len(u))), HistoryLimit)
                          THEN SubSeq(u, k + 1, Len(u)) ELSE d[k + 1]]
                 /\ BoundedHistory(t) = d[0]
      BY <2>2 DEF u, BoundedHistory, DropOldest
    <2> QED
      BY <1>4, <2>3
  <1>6. PICK j \in 0..Len(u) : /\ d[0] = Newest(u, j) /\ (j = 0 \/ j \in Short(u))
                              /\ \A m \in 0..Len(u) : m \in Short(u) => m <= j
    BY <1>2, <1>5, DropIs
  <1>7. \A m \in 0..n : m \in Short(u) <=> m \in Short(t)
    BY <1>2, <1>3 DEF Short
  <1>8. j \in 0..Len(t) /\ j <= MaxTurns
    BY <1>1, <1>2, ContextBounds DEF ContextBounds
  <1>9. BoundedHistory(t) = Newest(t, j)
    BY <1>2, <1>3, <1>5, <1>6
  <1>10. \A m \in Short(t) : m <= MaxTurns => m <= j
    <2>1. \A m \in Short(t) : m \in 0..Len(t)
      BY DEF Short
    <2> QED
      BY <1>1, <1>2, <1>6, <1>7, <2>1
  <1> QED
    BY <1>2, <1>6, <1>7, <1>8, <1>9, <1>10

(* What is remembered of a bounded history is the longest end with room for it.*)
LEMMA RememberedIs ==
  ASSUME NEW R, NEW t \in Seq(R), BoundedHistory(t) = t, NEW base
  PROVE  \E j \in 0..Len(t) : /\ Remembered(base, t) = Newest(t, j) /\ (j = 0 \/ j \in Room(base, t))
                              /\ \A m \in Room(base, t) : m <= j
  <1>1. Len(t) \in Nat
    BY LenProperties
  <1>2. ASSUME NEW d
        PROVE  Drops(t, Room(base, t), d)
               <=> d = [k \in 0..Len(t) |->
                          IF k = Len(t) \/ Within(Plus(base, Size(SubSeq(t, k + 1, Len(t)))), PayloadLimit)
                          THEN SubSeq(t, k + 1, Len(t)) ELSE d[k + 1]]
    <2>1. ASSUME NEW k \in 0..Len(t)
          PROVE  Len(t) - k \in Room(base, t)
                 <=> Within(Plus(base, Size(SubSeq(t, k + 1, Len(t)))), PayloadLimit)
      <3>1. SubSeq(t, k + 1, Len(t)) = Newest(t, Len(t) - k)
        BY DropNewest
      <3>2. Len(t) - k \in 0..Len(t)
        BY <1>1
      <3> QED
        BY <3>1, <3>2 DEF Room
    <2>2. [k \in 0..Len(t) |-> IF k = Len(t) \/ Len(t) - k \in Room(base, t)
                               THEN SubSeq(t, k + 1, Len(t)) ELSE d[k + 1]]
          = [k \in 0..Len(t) |->
               IF k = Len(t) \/ Within(Plus(base, Size(SubSeq(t, k + 1, Len(t)))), PayloadLimit)
               THEN SubSeq(t, k + 1, Len(t)) ELSE d[k + 1]]
      BY <2>1
    <2> QED
      BY <2>2 DEF Drops
  <1>3. PICK d : Drops(t, Room(base, t), d) /\ Remembered(base, t) = d[0]
    <2>1. \E d : Drops(t, Room(base, t), d)
      BY DropIs
    <2>2. \E d : d = [k \in 0..Len(t) |->
                        IF k = Len(t) \/ Within(Plus(base, Size(SubSeq(t, k + 1, Len(t)))), PayloadLimit)
                        THEN SubSeq(t, k + 1, Len(t)) ELSE d[k + 1]]
      BY <1>2, <2>1
    <2> DEFINE h == BoundedHistory(t)
    <2>3. \E d : /\ d = [k \in 0..Len(h) |->
                           IF k = Len(h) \/ Within(Plus(base, Size(SubSeq(h, k + 1, Len(h)))), PayloadLimit)
                           THEN SubSeq(h, k + 1, Len(h)) ELSE d[k + 1]]
                 /\ Remembered(base, t) = d[0]
      <3>1. \E d : d = [k \in 0..Len(h) |->
                          IF k = Len(h) \/ Within(Plus(base, Size(SubSeq(h, k + 1, Len(h)))), PayloadLimit)
                          THEN SubSeq(h, k + 1, Len(h)) ELSE d[k + 1]]
        BY <2>2
      <3> QED
        BY <3>1 DEF Remembered, DropOldest
    <2> QED
      BY <1>2, <2>3
  <1>4. PICK j \in 0..Len(t) : /\ d[0] = Newest(t, j) /\ (j = 0 \/ j \in Room(base, t))
                              /\ \A m \in 0..Len(t) : m \in Room(base, t) => m <= j
    BY <1>3, DropIs
  <1>5. \A m \in Room(base, t) : m \in 0..Len(t)
    BY DEF Room
  <1> QED
    BY <1>3, <1>4, <1>5

(* What a dialogue weighs is the sum of what its turns do.                     *)
LEMMA SizeIs ==
  ASSUME NEW t, IsFiniteSet(DOMAIN t), \A i \in DOMAIN t : t[i].size.tokens \in Nat /\ t[i].size.bytes \in Nat
  PROVE  /\ Size(t).tokens = Tokens(DOMAIN t, [i \in DOMAIN t |-> t[i].size.tokens])
         /\ Size(t).bytes = Tokens(DOMAIN t, [i \in DOMAIN t |-> t[i].size.bytes])
  <1>1. ASSUME NEW f, \A i \in DOMAIN t : f[i] \in Nat, NEW g, Sums(DOMAIN t, f, g)
        PROVE  g[DOMAIN t] = Tokens(DOMAIN t, f)
    <2>1. PICK h : Sums(DOMAIN t, f, h) /\ Tokens(DOMAIN t, f) = h[DOMAIN t]
      <3>1. \E h : Sums(DOMAIN t, f, h)
        BY <1>1, SumExists, Zenon
      <3> QED
        BY <3>1 DEF Sums, One, Tokens, MapThenSumSet, MapThenFoldSet
    <2>2. DOMAIN t \in SUBSET DOMAIN t
      OBVIOUS
    <2>3. \A s \in SUBSET DOMAIN t : h[s] = g[s]
      BY <1>1, <2>1, <2>2, SumUnique
    <2> QED
      BY <2>1, <2>3
  <1>2. Size(t).tokens = Tokens(DOMAIN t, [i \in DOMAIN t |-> t[i].size.tokens])
    <2> DEFINE f == [i \in DOMAIN t |-> t[i].size.tokens]
    <2>1. \A i \in DOMAIN t : f[i] \in Nat /\ f[i] = t[i].size.tokens
      OBVIOUS
    <2> HIDE DEF f
    <2>2. ASSUME NEW g
          PROVE  Sums(DOMAIN t, f, g)
                 <=> g = [s \in SUBSET DOMAIN t |->
                            IF s = {} THEN 0 ELSE t[One(s)].size.tokens + g[s \ {One(s)}]]
      <3>1. \A s \in SUBSET DOMAIN t : s # {} => f[One(s)] = t[One(s)].size.tokens
        BY <2>1 DEF One
      <3>2. [s \in SUBSET DOMAIN t |-> IF s = {} THEN 0 ELSE f[One(s)] + g[s \ {One(s)}]]
            = [s \in SUBSET DOMAIN t |-> IF s = {} THEN 0 ELSE t[One(s)].size.tokens + g[s \ {One(s)}]]
        BY <3>1
      <3> QED
        BY <3>2 DEF Sums
    <2>3. \E g : Sums(DOMAIN t, f, g)
      BY <2>1, SumExists, Zenon
    <2>4. PICK g : /\ g = [s \in SUBSET DOMAIN t |->
                             IF s = {} THEN 0 ELSE t[One(s)].size.tokens + g[s \ {One(s)}]]
                   /\ Size(t).tokens = g[DOMAIN t]
      <3>1. \E g : g = [s \in SUBSET DOMAIN t |->
                          IF s = {} THEN 0 ELSE t[One(s)].size.tokens + g[s \ {One(s)}]]
        BY <2>2, <2>3
      <3> QED
        BY <3>1 DEF Size, One, MapThenSumSet, MapThenFoldSet
    <2> QED
      BY <1>1, <2>1, <2>2, <2>4 DEF f
  <1>3. Size(t).bytes = Tokens(DOMAIN t, [i \in DOMAIN t |-> t[i].size.bytes])
    <2> DEFINE f == [i \in DOMAIN t |-> t[i].size.bytes]
    <2>1. \A i \in DOMAIN t : f[i] \in Nat /\ f[i] = t[i].size.bytes
      OBVIOUS
    <2> HIDE DEF f
    <2>2. ASSUME NEW g
          PROVE  Sums(DOMAIN t, f, g)
                 <=> g = [s \in SUBSET DOMAIN t |->
                            IF s = {} THEN 0 ELSE t[One(s)].size.bytes + g[s \ {One(s)}]]
      <3>1. \A s \in SUBSET DOMAIN t : s # {} => f[One(s)] = t[One(s)].size.bytes
        BY <2>1 DEF One
      <3>2. [s \in SUBSET DOMAIN t |-> IF s = {} THEN 0 ELSE f[One(s)] + g[s \ {One(s)}]]
            = [s \in SUBSET DOMAIN t |-> IF s = {} THEN 0 ELSE t[One(s)].size.bytes + g[s \ {One(s)}]]
        BY <3>1
      <3> QED
        BY <3>2 DEF Sums
    <2>3. \E g : Sums(DOMAIN t, f, g)
      BY <2>1, SumExists, Zenon
    <2>4. PICK g : /\ g = [s \in SUBSET DOMAIN t |->
                             IF s = {} THEN 0 ELSE t[One(s)].size.bytes + g[s \ {One(s)}]]
                   /\ Size(t).bytes = g[DOMAIN t]
      <3>1. \E g : g = [s \in SUBSET DOMAIN t |->
                          IF s = {} THEN 0 ELSE t[One(s)].size.bytes + g[s \ {One(s)}]]
        BY <2>2, <2>3
      <3> QED
        BY <3>1 DEF Size, One, MapThenSumSet, MapThenFoldSet
    <2> QED
      BY <1>1, <2>1, <2>2, <2>4 DEF f
  <1> QED
    BY <1>2, <1>3

(* The sum of a row of numbers that is moved.                                 *)
Moved(m, d, f, g) == \A i \in 1..m : f[i] \in Nat /\ g[d + i] = f[i]

(* Numbers that are moved have the same sum.                                  *)
LEMMA TokensMoved ==
  ASSUME NEW m \in Nat, NEW d \in Nat, NEW f, NEW g, Moved(m, d, f, g),
         NEW a, a = 1..m, NEW b, b = (d + 1)..(d + m)
  PROVE  Tokens(a, f) = Tokens(b, g)
  <1>0. \A i \in 1..m : f[i] \in Nat /\ g[d + i] = f[i]
    BY DEF Moved
  <1> DEFINE A == {k \in 0..m : Tokens(1..k, f) = Tokens((d + 1)..(d + k), g)}
  <1>1. IsFiniteSet(1..m) /\ \A i \in 1..m : f[i] \in Nat
    <2>1. IsFiniteSet(1..m)
      BY FS_Interval
    <2> QED
      BY <1>0, <2>1
  <1>2. IsFiniteSet((d + 1)..(d + m)) /\ \A i \in (d + 1)..(d + m) : g[i] \in Nat
    <2>1. IsFiniteSet((d + 1)..(d + m))
      BY FS_Interval
    <2>2. ASSUME NEW i \in (d + 1)..(d + m) PROVE g[i] \in Nat
      <3>1. i - d \in 1..m /\ d + (i - d) = i
        OBVIOUS
      <3> QED
        BY <1>0, <3>1
    <2> QED
      BY <2>1, <2>2
  <1>3. 0 \in A
    <2>1. 1..0 = {} /\ (d + 1)..(d + 0) = {}
      OBVIOUS
    <2>2. Tokens({}, f) = 0
      BY <1>1, TokensIs
    <2>3. Tokens({}, g) = 0
      BY <1>2, TokensIs
    <2> QED
      BY <2>1, <2>2, <2>3
  <1>4. ASSUME NEW k \in 0..(m - 1), Tokens(1..k, f) = Tokens((d + 1)..(d + k), g)
        PROVE  Tokens(1..(k + 1), f) = Tokens((d + 1)..(d + (k + 1)), g)
    <2> DEFINE p == 1..(k + 1)
               q == (d + 1)..(d + (k + 1))
    <2>1. /\ p \in SUBSET (1..m) /\ k + 1 \in p /\ q \in SUBSET ((d + 1)..(d + m))
          /\ d + (k + 1) \in q /\ k + 1 \in 1..m
      OBVIOUS
    <2>2. p \ {k + 1} = 1..k
      OBVIOUS
    <2>3. q \ {d + (k + 1)} = (d + 1)..(d + k)
      OBVIOUS
    <2> HIDE DEF p, q
    <2>4. Tokens(p, f) = f[k + 1] + Tokens(p \ {k + 1}, f)
      BY <1>1, <2>1, TokensStep
    <2>5. Tokens(q, g) = g[d + (k + 1)] + Tokens(q \ {d + (k + 1)}, g)
      BY <1>2, <2>1, TokensStep
    <2>6. g[d + (k + 1)] = f[k + 1]
      BY <1>0, <2>1
    <2>7. Tokens(p, f) = Tokens(q, g)
      BY <1>4, <2>2, <2>3, <2>4, <2>5, <2>6
    <2> QED
      BY <2>7 DEF p, q
  <1>5. 0..m \subseteq A
    <2>1. \A k \in 0..(m - 1) : k \in A => k + 1 \in A
      BY <1>4
    <2> HIDE DEF A
    <2> QED
      BY <1>3, <2>1, NumbersUpTo
  <1>6. m \in A
    <2> HIDE DEF A
    <2> QED
      BY <1>5
  <1> QED
    BY <1>6

TokensOf(t) == [i \in DOMAIN t |-> t[i].size.tokens]
BytesOf(t) == [i \in DOMAIN t |-> t[i].size.bytes]

(* What the last turns weigh.                                                 *)
LEMMA NewestSize ==
  ASSUME NEW t \in Seq(Turns), NEW n \in 0..Len(t)
  PROVE  /\ Size(Newest(t, n)).tokens = Tokens((Len(t) - n + 1)..Len(t), TokensOf(t))
         /\ Size(Newest(t, n)).bytes = Tokens((Len(t) - n + 1)..Len(t), BytesOf(t))
  <1> DEFINE u == Newest(t, n)
             d == Len(t) - n
  <1>1. /\ u \in Seq(Turns) /\ Len(u) = n /\ DOMAIN u = 1..n
        /\ \A i \in 1..n : u[i] = t[d + i]
    BY NewestIs, LenProperties
  <1>2. Len(t) \in Nat /\ DOMAIN t = 1..Len(t) /\ d \in Nat /\ n \in Nat /\ d + n = Len(t)
    BY LenProperties
  <1> HIDE DEF u, d
  <1>3. \A i \in DOMAIN u : u[i].size.tokens \in Nat /\ u[i].size.bytes \in Nat
    <2>1. \A i \in DOMAIN u : u[i] \in Turns
      BY <1>1, ElementOfSeq
    <2> QED
      BY <2>1 DEF Turns, Measures
  <1>4. IsFiniteSet(DOMAIN u)
    BY <1>1, <1>2, FS_Interval
  <1>5. Size(u).tokens = Tokens(1..n, TokensOf(u)) /\ Size(u).bytes = Tokens(1..n, BytesOf(u))
    BY <1>1, <1>3, <1>4, SizeIs DEF TokensOf, BytesOf
  <1>6. ASSUME NEW i \in 1..n PROVE d + i \in DOMAIN t
    BY <1>2
  <1>7. \A i \in 1..n : /\ TokensOf(u)[i] \in Nat /\ TokensOf(t)[d + i] = TokensOf(u)[i]
                        /\ BytesOf(u)[i] \in Nat /\ BytesOf(t)[d + i] = BytesOf(u)[i]
    BY <1>1, <1>3, <1>6 DEF TokensOf, BytesOf
  <1>8. /\ Tokens(1..n, TokensOf(u)) = Tokens((d + 1)..(d + n), TokensOf(t))
        /\ Tokens(1..n, BytesOf(u)) = Tokens((d + 1)..(d + n), BytesOf(t))
    <2> DEFINE a == 1..n
               b == (d + 1)..(d + n)
    <2>1. Moved(n, d, TokensOf(u), TokensOf(t)) /\ Moved(n, d, BytesOf(u), BytesOf(t))
      BY <1>7 DEF Moved
    <2>2. n \in Nat /\ d \in Nat /\ a = 1..n /\ b = (d + 1)..(d + n)
      BY <1>2
    <2> HIDE DEF a, b
    <2>3. Tokens(a, TokensOf(u)) = Tokens(b, TokensOf(t))
      BY <2>1, <2>2, TokensMoved
    <2>4. Tokens(a, BytesOf(u)) = Tokens(b, BytesOf(t))
      BY <2>1, <2>2, TokensMoved
    <2> QED
      BY <2>3, <2>4 DEF a, b
  <1> QED
    BY <1>2, <1>5, <1>8 DEF u, d

(* Fewer turns weigh no more.                                                *)
LEMMA NewestGrows ==
  ASSUME NEW t \in Seq(Turns), NEW n \in 0..Len(t), NEW m \in 0..n
  PROVE  /\ Size(Newest(t, m)).tokens \in Nat /\ Size(Newest(t, m)).bytes \in Nat
         /\ Size(Newest(t, n)).tokens \in Nat /\ Size(Newest(t, n)).bytes \in Nat
         /\ Size(Newest(t, m)).tokens <= Size(Newest(t, n)).tokens
         /\ Size(Newest(t, m)).bytes <= Size(Newest(t, n)).bytes
         /\ m = 0 => Size(Newest(t, m)).tokens = 0 /\ Size(Newest(t, m)).bytes = 0
  <1> DEFINE L == Len(t)
             a == (L - m + 1)..L
             b == (L - n + 1)..L
  <1>1. L \in Nat /\ DOMAIN t = 1..L /\ m \in 0..L
    BY LenProperties
  <1>2. /\ Size(Newest(t, m)).tokens = Tokens(a, TokensOf(t))
        /\ Size(Newest(t, m)).bytes = Tokens(a, BytesOf(t))
    BY <1>1, NewestSize
  <1>3. /\ Size(Newest(t, n)).tokens = Tokens(b, TokensOf(t))
        /\ Size(Newest(t, n)).bytes = Tokens(b, BytesOf(t))
    BY NewestSize
  <1>5. IsFiniteSet(b)
    BY <1>1, FS_Interval
  <1>6. \A i \in 1..L : TokensOf(t)[i] \in Nat /\ BytesOf(t)[i] \in Nat
    <2>1. \A i \in 1..L : t[i] \in Turns
      BY <1>1, ElementOfSeq
    <2> QED
      BY <1>1, <2>1 DEF TokensOf, BytesOf, Turns, Measures
  <1>7. \A i \in b : TokensOf(t)[i] \in Nat /\ BytesOf(t)[i] \in Nat
    BY <1>1, <1>6
  <1>8. a \in SUBSET b
    BY <1>1
  <1>9. m = 0 => a = {}
    BY <1>1
  <1> HIDE DEF a, b
  <1>10. Tokens({}, TokensOf(t)) = 0 /\ \A s \in SUBSET b : Tokens(s, TokensOf(t)) \in Nat
    BY <1>5, <1>7, TokensIs
  <1>11. Tokens({}, BytesOf(t)) = 0 /\ \A s \in SUBSET b : Tokens(s, BytesOf(t)) \in Nat
    BY <1>5, <1>7, TokensIs
  <1>12. Tokens(a, TokensOf(t)) <= Tokens(b, TokensOf(t))
    BY <1>5, <1>7, <1>8, TokensGrow
  <1>13. Tokens(a, BytesOf(t)) <= Tokens(b, BytesOf(t))
    BY <1>5, <1>7, <1>8, TokensGrow
  <1> QED
    BY <1>2, <1>3, <1>8, <1>9, <1>10, <1>11, <1>12, <1>13

(* The last m turns may all be remembered.                                    *)
Fine(t, m) == \A i \in (Len(t) - m + 1)..Len(t) : Eligible(t[i])

(* A snapshot starts after the last turn that may not be remembered.          *)
LEMMA SnapshotIs ==
  ASSUME NEW R, NEW t \in Seq(R)
  PROVE  \E e \in 0..Len(t) : /\ Snapshot(t) = BoundedHistory(Newest(t, e))
                              /\ e <= MaxTurns /\ Fine(t, e)
                              /\ \A m \in 0..Len(t) : m <= MaxTurns /\ Fine(t, m) => m <= e
  <1> DEFINE u == Recent(t)
             broken == {i \in DOMAIN u : ~Eligible(u[i])}
             from == 1 + (IF broken = {} THEN 0 ELSE Max(broken))
             L == Len(t)
  <1>1. PICK n \in 0..Len(t) : /\ u = Newest(t, n) /\ n <= MaxTurns
                              /\ \A m \in 0..Len(t) : m <= MaxTurns => m <= n
    BY RecentIs
  <1>2. /\ u \in Seq(R) /\ Len(u) = n /\ L \in Nat /\ DOMAIN u = 1..n
        /\ \A i \in 1..n : u[i] = t[L - n + i]
    <2>1. u \in Seq(R) /\ Len(u) = n /\ \A i \in 1..n : u[i] = t[L - n + i]
      BY <1>1, NewestIs
    <2>2. L \in Nat /\ DOMAIN u = 1..Len(u)
      <3> HIDE DEF u
      <3> QED
        BY <2>1, LenProperties
    <2> QED
      BY <2>1, <2>2
  <1>3. Snapshot(t) = BoundedHistory(SubSeq(u, from, Len(u)))
    BY DEF Snapshot
  <1>4. from \in Nat /\ from - 1 \in 0..n /\ (from = 1 \/ from - 1 \in broken) /\ \A i \in broken : i <= from - 1
    <2>1. CASE broken = {}
      BY <1>2, <2>1
    <2>2. CASE broken # {}
      <3>1. broken \in SUBSET (1..n) /\ n \in Nat
        BY <1>2
      <3> HIDE DEF broken
      <3>2. Max(broken) \in broken /\ \A y \in broken : y <= Max(broken)
        BY <2>2, <3>1, Greatest
      <3>3. from = 1 + Max(broken)
        BY <2>2
      <3> HIDE DEF from
      <3>4. Max(broken) \in 1..n
        BY <3>1, <3>2
      <3>5. from - 1 = Max(broken) /\ from \in Nat
        BY <3>3, <3>4
      <3>6. Max(broken) \in 0..n
        BY <3>4
      <3> QED
        BY <3>2, <3>5, <3>6
    <2> QED
      BY <2>1, <2>2
  <1> HIDE DEF from
  <1> DEFINE e == n - (from - 1)
  <1>5. e \in 0..n /\ e \in 0..L /\ e <= MaxTurns
    BY <1>1, <1>2, <1>4, ContextBounds DEF ContextBounds
  <1>6. SubSeq(u, from, Len(u)) = Newest(t, e)
    <2>1. Len(u) - e + 1 = from
      <3>1. \A x \in Int : n - (n - (x - 1)) + 1 = x
        BY <1>2
      <3> QED
        BY <1>2, <1>4, <3>1
    <2>2. SubSeq(u, from, Len(u)) = Newest(u, e)
      BY <2>1 DEF Newest
    <2> HIDE DEF u, e
    <2> QED
      BY <1>1, <1>5, <2>2, NewestOfNewest
  <1>7. Fine(t, e)
    <2> SUFFICES ASSUME NEW i \in (L - e + 1)..L PROVE Eligible(t[i])
      BY DEF Fine
    <2>1. i - (L - n) \in 1..n /\ i - (L - n) > from - 1 /\ L - n + (i - (L - n)) = i
      BY <1>2, <1>4
    <2>2. i - (L - n) \notin broken
      BY <1>4, <2>1
    <2> QED
      BY <1>2, <2>1, <2>2
  <1>8. ASSUME NEW m \in 0..L, m <= MaxTurns, Fine(t, m) PROVE m <= e
    <2>1. m <= n
      BY <1>1, <1>8
    <2>2. CASE from = 1
      BY <2>1, <2>2
    <2>3. CASE from - 1 \in broken
      <3>1. from - 1 \in 1..n /\ ~Eligible(u[from - 1])
        BY <1>2, <2>3
      <3>2. ~Eligible(t[L - n + (from - 1)]) /\ L - n + (from - 1) \in Int
        BY <1>2, <3>1
      <3>3. L - n + (from - 1) \notin (L - m + 1)..L
        BY <1>8, <3>2 DEF Fine
      <3> QED
        BY <1>2, <2>1, <3>1, <3>3
    <2> QED
      BY <1>4, <2>2, <2>3
  <1> QED
    BY <1>3, <1>5, <1>6, <1>7, <1>8

(* A history that is already bounded is not cut again.                       *)
LEMMA BoundedAgain ==
  ASSUME NEW R, NEW t \in Seq(R), NEW j \in 0..Len(t), j <= MaxTurns,
         j = 0 \/ Within(Size(Newest(t, j)), HistoryLimit)
  PROVE  BoundedHistory(Newest(t, j)) = Newest(t, j)
  <1> DEFINE h == Newest(t, j)
  <1>1. h \in Seq(R) /\ Len(h) = j /\ j \in 0..j
    BY NewestIs
  <1>2. \A k \in 0..j : Newest(h, k) = Newest(t, k)
    BY NewestOfNewest
  <1> HIDE DEF h
  <1>3. PICK k \in 0..Len(h) : /\ BoundedHistory(h) = Newest(h, k)
                               /\ \A m \in Short(h) : m <= MaxTurns => m <= k
    BY <1>1, BoundedIs
  <1>4. k = j
    <2>1. CASE j = 0
      BY <1>1, <2>1
    <2>2. CASE Within(Size(Newest(t, j)), HistoryLimit)
      <3>1. j \in Short(h)
        BY <1>1, <1>2, <2>2 DEF Short
      <3> QED
        BY <1>1, <1>3, <3>1
    <2> QED
      BY <2>1, <2>2
  <1> QED
    BY <1>1, <1>2, <1>3, <1>4 DEF h

(* What is remembered (generation/history.py, generation/context.py) is the   *)
(* longest uninterrupted end of the dialogue that may be, for any dialogue.   *)
THEOREM HistoryIsRecent ==
  \A turns \in Seq(Turns), base \in Measures : HistoryIsRecentSuffixFor(turns, base)
  <1> SUFFICES ASSUME NEW t \in Seq(Turns), NEW base \in Measures, ~Refused(base)
               PROVE  HistoryIsRecentSuffixFor(t, base)
    BY DEF HistoryIsRecentSuffixFor
  <1> DEFINE L == Len(t)
             May(n) == /\ Fine(t, n) /\ Within(Size(Newest(t, n)), HistoryLimit)
                       /\ Within(Plus(base, Size(Newest(t, n))), PayloadLimit)
  <1>1. L \in Nat /\ MaxTurns \in Nat
    BY LenProperties, ContextBounds DEF ContextBounds
  <1>2. PICK e \in 0..L : /\ Snapshot(t) = BoundedHistory(Newest(t, e))
                          /\ e <= MaxTurns /\ Fine(t, e)
                          /\ \A m \in 0..L : m <= MaxTurns /\ Fine(t, m) => m <= e
    BY SnapshotIs
  <1> DEFINE u == Newest(t, e)
  <1>3. u \in Seq(Turns) /\ Len(u) = e /\ \A m \in 0..e : Newest(u, m) = Newest(t, m)
    BY NewestIs, NewestOfNewest
  <1> HIDE DEF u
  <1>4. PICK j \in 0..Len(u) : /\ BoundedHistory(u) = Newest(u, j) /\ j <= MaxTurns
                              /\ (j = 0 \/ j \in Short(u))
                              /\ \A m \in Short(u) : m <= MaxTurns => m <= j
    BY <1>3, BoundedIs
  <1> DEFINE h == Newest(t, j)
  <1>5. /\ j \in 0..L /\ j <= e /\ h \in Seq(Turns) /\ Len(h) = j
        /\ \A m \in 0..j : Newest(h, m) = Newest(t, m)
    <2>1. j \in 0..L /\ j <= e
      BY <1>1, <1>3
    <2> QED
      BY <2>1, NewestIs, NewestOfNewest
  <1>6. Snapshot(t) = h
    BY <1>2, <1>3, <1>4 DEF u
  <1>7. j = 0 \/ Within(Size(h), HistoryLimit)
    BY <1>3, <1>4 DEF Short
  <1>8. BoundedHistory(h) = h
    BY <1>4, <1>5, <1>7, BoundedAgain
  <1> HIDE DEF h
  <1>9. PICK r \in 0..Len(h) : /\ Remembered(base, h) = Newest(h, r) /\ (r = 0 \/ r \in Room(base, h))
                              /\ \A m \in Room(base, h) : m <= r
    BY <1>5, <1>8, RememberedIs
  <1>10. r \in 0..L /\ r \in 0..j /\ r <= e /\ r <= MaxTurns
    BY <1>1, <1>4, <1>5
  <1>11. /\ Size(Newest(t, r)).tokens \in Nat /\ Size(Newest(t, r)).bytes \in Nat
         /\ Size(h).tokens \in Nat /\ Size(h).bytes \in Nat
         /\ Size(Newest(t, r)).tokens <= Size(h).tokens
         /\ Size(Newest(t, r)).bytes <= Size(h).bytes
         /\ r = 0 => Size(Newest(t, r)).tokens = 0 /\ Size(Newest(t, r)).bytes = 0
    BY <1>5, <1>10, NewestGrows DEF h
  <1>12. /\ HistoryLimit.tokens \in Nat /\ HistoryLimit.bytes \in Nat
         /\ PayloadLimit.tokens \in Nat /\ PayloadLimit.bytes \in Nat
         /\ base.tokens \in Nat /\ base.bytes \in Nat
    BY ContextBounds DEF ContextBounds, Measures
  <1>13. May(r)
    <2>1. Fine(t, r)
      <3>1. \A i \in (L - r + 1)..L : i \in (L - e + 1)..L
        BY <1>1, <1>10
      <3> QED
        BY <1>2, <3>1 DEF Fine
    <2>2. Within(Size(Newest(t, r)), HistoryLimit)
      <3>1. CASE r = 0
        <4>1. Size(Newest(t, r)).tokens = 0 /\ Size(Newest(t, r)).bytes = 0
          BY <1>11, <3>1
        <4>2. 0 <= HistoryLimit.tokens /\ 0 <= HistoryLimit.bytes
          BY <1>12
        <4> QED
          BY <4>1, <4>2 DEF Within
      <3>2. CASE r # 0
        <4>1. j # 0
          BY <1>10, <3>2
        <4>2. Size(h).tokens <= HistoryLimit.tokens /\ Size(h).bytes <= HistoryLimit.bytes
          BY <1>7, <4>1 DEF Within
        <4>3. \A x \in Nat, y \in Nat, z \in Nat : x <= y /\ y <= z => x <= z
          OBVIOUS
        <4>4. Size(Newest(t, r)).tokens <= HistoryLimit.tokens
          BY <1>11, <1>12, <4>2, <4>3
        <4>5. Size(Newest(t, r)).bytes <= HistoryLimit.bytes
          BY <1>11, <1>12, <4>2, <4>3
        <4> QED
          BY <4>4, <4>5 DEF Within
      <3> QED
        BY <3>1, <3>2
    <2>3. Within(Plus(base, Size(Newest(t, r))), PayloadLimit)
      <3>1. CASE r = 0
        <4>1. base.tokens <= PayloadLimit.tokens /\ base.bytes <= PayloadLimit.bytes
          BY DEF Refused, Within
        <4>2. /\ Plus(base, Size(Newest(t, r))).tokens = base.tokens
              /\ Plus(base, Size(Newest(t, r))).bytes = base.bytes
          <5>1. Size(Newest(t, r)).tokens = 0 /\ Size(Newest(t, r)).bytes = 0
            BY <1>11, <3>1
          <5>2. /\ Plus(base, Size(Newest(t, r))).tokens = base.tokens + 0
                /\ Plus(base, Size(Newest(t, r))).bytes = base.bytes + 0
            BY <5>1 DEF Plus
          <5> QED
            BY <1>12, <5>2
        <4> QED
          BY <4>1, <4>2 DEF Within
      <3>2. CASE r \in Room(base, h)
        BY <1>5, <1>10, <3>2 DEF Room
      <3> QED
        BY <1>9, <3>1, <3>2
    <2> QED
      BY <2>1, <2>2, <2>3
  <1>14. ASSUME NEW m \in 0..L, m <= MaxTurns, May(m) PROVE m <= r
    <2>1. m \in 0..e
      BY <1>1, <1>2, <1>14
    <2>2. m \in Short(u)
      BY <1>3, <1>14, <2>1 DEF Short
    <2>3. m \in 0..j
      BY <1>4, <1>14, <2>1, <2>2
    <2>4. m \in Room(base, h)
      BY <1>5, <1>14, <2>3 DEF Room
    <2> QED
      BY <1>9, <2>4
  <1>15. Remembered(base, Snapshot(t)) = Newest(t, r)
    BY <1>5, <1>6, <1>9, <1>10
  <1>16. ASSUME NEW n \in 0..L
         PROVE  (\A i \in DOMAIN Newest(t, n) : Eligible(Newest(t, n)[i])) <=> Fine(t, n)
    <2>1. /\ DOMAIN Newest(t, n) = 1..n /\ \A i \in 1..n : Newest(t, n)[i] = t[L - n + i]
      BY NewestIs, LenProperties
    <2>2. \A i \in 1..n : L - n + i \in (L - n + 1)..L
      BY <1>1
    <2>3. \A i \in (L - n + 1)..L : i - (L - n) \in 1..n /\ L - n + (i - (L - n)) = i
      BY <1>1
    <2>4. ASSUME Fine(t, n), NEW i \in 1..n PROVE Eligible(Newest(t, n)[i])
      BY <2>1, <2>2, <2>4 DEF Fine
    <2>5. ASSUME \A i \in 1..n : Eligible(Newest(t, n)[i]), NEW i \in (L - n + 1)..L
          PROVE  Eligible(t[i])
      <3>1. Eligible(Newest(t, n)[i - (L - n)])
        BY <2>3, <2>5
      <3> QED
        BY <2>1, <2>3, <3>1
    <2> QED
      BY <2>1, <2>4, <2>5 DEF Fine
  <1> DEFINE Allowed(n) == /\ \A i \in DOMAIN Newest(t, n) : Eligible(Newest(t, n)[i])
                           /\ Within(Size(Newest(t, n)), HistoryLimit)
                           /\ Within(Plus(base, Size(Newest(t, n))), PayloadLimit)
  <1>17. \A n \in 0..L : May(n) <=> Allowed(n)
    BY <1>16
  <1>18. \E n \in 0..L :
           /\ n <= MaxTurns /\ Allowed(n)
           /\ \A m \in 0..L : m <= MaxTurns /\ Allowed(m) => m <= n
           /\ Remembered(base, Snapshot(t)) = Newest(t, n)
    <2> HIDE DEF May, Allowed
    <2> QED
      BY <1>10, <1>13, <1>14, <1>15, <1>17
  <1> QED
    BY <1>18 DEF HistoryIsRecentSuffixFor, Newest

-----------------------------------------------------------------------------
(* The archive. The size of some members is a sum of numbers.                 *)
SizesOf(ms) == [i \in DOMAIN ms |-> ms[i].size]

(* The sum exists and is that of these numbers.                               *)
LEMMA BulkIs ==
  ASSUME NEW ms \in Seq(Members), NEW S \in SUBSET DOMAIN ms
  PROVE  /\ IsFiniteSet(S) /\ Bulk(ms, S) = Tokens(S, SizesOf(ms))
         /\ \A i \in S : SizesOf(ms)[i] \in Nat /\ SizesOf(ms)[i] = ms[i].size
  <1> DEFINE f == SizesOf(ms)
  <1>1. \A i \in DOMAIN ms : f[i] \in Nat /\ f[i] = ms[i].size
    <2>1. \A i \in DOMAIN ms : ms[i] \in Members
      BY ElementOfSeq, LenProperties
    <2> QED
      BY <2>1 DEF SizesOf, Members
  <1>2. IsFiniteSet(S)
    <2>1. DOMAIN ms = 1..Len(ms) /\ Len(ms) \in Nat
      BY LenProperties
    <2>2. IsFiniteSet(1..Len(ms))
      BY <2>1, FS_Interval
    <2> QED
      BY <2>1, <2>2, FS_Subset
  <1>3. \A x \in S : f[x] \in Nat
    BY <1>1
  <1> HIDE DEF f
  <1>4. ASSUME NEW g
        PROVE  Sums(S, f, g)
               <=> g = [s \in SUBSET S |-> IF s = {} THEN 0 ELSE ms[One(s)].size + g[s \ {One(s)}]]
    <2>1. \A s \in SUBSET S : s # {} => One(s) \in DOMAIN ms
      BY DEF One
    <2>2. \A s \in SUBSET S : s # {} => f[One(s)] = ms[One(s)].size
      BY <1>1, <2>1
    <2>3. [s \in SUBSET S |-> IF s = {} THEN 0 ELSE f[One(s)] + g[s \ {One(s)}]]
          = [s \in SUBSET S |-> IF s = {} THEN 0 ELSE ms[One(s)].size + g[s \ {One(s)}]]
      BY <2>2
    <2> QED
      BY <2>3 DEF Sums
  <1>5. \E g : Sums(S, f, g)
    BY <1>2, <1>3, SumExists, Zenon
  <1>6. PICK g : /\ g = [s \in SUBSET S |-> IF s = {} THEN 0 ELSE ms[One(s)].size + g[s \ {One(s)}]]
                 /\ Bulk(ms, S) = g[S]
    <2>1. \E g : g = [s \in SUBSET S |-> IF s = {} THEN 0 ELSE ms[One(s)].size + g[s \ {One(s)}]]
      BY <1>4, <1>5
    <2> QED
      BY <2>1 DEF Bulk, One, MapThenSumSet, MapThenFoldSet
  <1>7. PICK h : Sums(S, f, h) /\ Tokens(S, f) = h[S]
    BY <1>5 DEF Sums, One, Tokens, MapThenSumSet, MapThenFoldSet
  <1>8. Sums(S, f, g)
    BY <1>4, <1>6
  <1>9. g[S] = h[S]
    <2>1. S \in SUBSET S
      OBVIOUS
    <2>2. \A s \in SUBSET S : g[s] = h[s]
      BY <1>2, <1>3, <1>7, <1>8, <2>1, SumUnique
    <2> QED
      BY <2>1, <2>2
  <1> QED
    BY <1>1, <1>2, <1>6, <1>7, <1>9 DEF f

(* The size of some members is that of one and of the others.                 *)
LEMMA BulkStep ==
  ASSUME NEW ms \in Seq(Members), NEW S \in SUBSET DOMAIN ms
  PROVE  /\ Bulk(ms, {}) = 0 /\ Bulk(ms, S) \in Nat
         /\ \A x \in S : Bulk(ms, S) = ms[x].size + Bulk(ms, S \ {x})
  <1> DEFINE f == SizesOf(ms)
  <1>1. /\ IsFiniteSet(S) /\ \A i \in S : f[i] \in Nat /\ f[i] = ms[i].size
    BY BulkIs
  <1>2. \A T \in SUBSET S : Bulk(ms, T) = Tokens(T, f)
    BY BulkIs
  <1> HIDE DEF f
  <1>3. Tokens({}, f) = 0 /\ \A s \in SUBSET S : Tokens(s, f) \in Nat
    BY <1>1, TokensIs
  <1>4. \A s \in SUBSET S : \A x \in s : Tokens(s, f) = f[x] + Tokens(s \ {x}, f)
    BY <1>1, TokensStep
  <1>5. S \in SUBSET S /\ {} \in SUBSET S /\ \A x \in S : S \ {x} \in SUBSET S
    OBVIOUS
  <1>6. \A x \in S : Tokens(S, f) = f[x] + Tokens(S \ {x}, f)
    BY <1>4, <1>5
  <1> QED
    BY <1>1, <1>2, <1>3, <1>5, <1>6

(* The members of a set among the first k.                                    *)
Upto(S, k) == S \cap 1..k

(* One more member.                                                           *)
LEMMA UptoStep ==
  ASSUME NEW n \in Nat, NEW S \in SUBSET (1..n), NEW k \in 1..n
  PROVE  /\ Upto(S, 0) = {} /\ Upto(S, n) = S /\ Upto(S, k) \in SUBSET (1..n)
         /\ Cardinality(Upto(S, k)) \in Nat /\ Cardinality(Upto(S, k - 1)) \in Nat
         /\ k \notin S => Upto(S, k) = Upto(S, k - 1)
         /\ k \in S => /\ k \in Upto(S, k) /\ Upto(S, k) \ {k} = Upto(S, k - 1)
                       /\ Upto(S, k) = Upto(S, k - 1) \cup {k}
                       /\ Cardinality(Upto(S, k)) = Cardinality(Upto(S, k - 1)) + 1
  <1>0. IsFiniteSet(1..n)
    BY FS_Interval
  <1>1. \A T \in SUBSET (1..n) : IsFiniteSet(T) /\ Cardinality(T) \in Nat
    BY <1>0, FS_Subset, FS_CardinalityType
  <1>2. Upto(S, k) \in SUBSET (1..n) /\ Upto(S, k - 1) \in SUBSET (1..n)
    BY DEF Upto
  <1>3. Upto(S, 0) = {} /\ Upto(S, n) = S
    <2>1. 1..0 = {}
      OBVIOUS
    <2>2. S \cap {} = {} /\ S \cap 1..n = S
      OBVIOUS
    <2> QED
      BY <2>1, <2>2 DEF Upto
  <1>4. k \notin S => Upto(S, k) = Upto(S, k - 1)
    <2>1. \A i \in 1..n : i # k => (i <= k <=> i <= k - 1)
      OBVIOUS
    <2>2. \A i \in S : i \in 1..n /\ (i \in 1..k <=> i <= k) /\ (i \in 1..(k - 1) <=> i <= k - 1)
      OBVIOUS
    <2> QED
      BY <2>1, <2>2 DEF Upto
  <1>5. ASSUME k \in S
        PROVE  /\ k \in Upto(S, k) /\ Upto(S, k) \ {k} = Upto(S, k - 1)
               /\ Upto(S, k) = Upto(S, k - 1) \cup {k} /\ k \notin Upto(S, k - 1)
    <2>1. \A i \in 1..n : i # k => (i <= k <=> i <= k - 1)
      OBVIOUS
    <2>2. \A i \in S : i \in 1..n /\ (i \in 1..k <=> i <= k) /\ (i \in 1..(k - 1) <=> i <= k - 1)
      OBVIOUS
    <2>3. k \in 1..k /\ k \notin 1..(k - 1)
      OBVIOUS
    <2> QED
      BY <1>5, <2>1, <2>2, <2>3 DEF Upto
  <1>6. k \in S => Cardinality(Upto(S, k)) = Cardinality(Upto(S, k - 1)) + 1
    BY <1>1, <1>2, <1>5, FS_AddElement
  <1> QED
    BY <1>1, <1>2, <1>3, <1>4, <1>5, <1>6

(* The number of members up to one of them is a place among them.             *)
LEMMA UptoCount ==
  ASSUME NEW n \in Nat, NEW S \in SUBSET (1..n), NEW k \in 1..n, NEW i \in Upto(S, k)
  PROVE  Cardinality(Upto(S, i)) \in 1..Cardinality(Upto(S, k))
  <1>1. IsFiniteSet(1..n)
    BY FS_Interval
  <1>2. i \in Upto(S, i) /\ Upto(S, i) \in SUBSET Upto(S, k) /\ Upto(S, k) \in SUBSET (1..n)
    BY DEF Upto
  <1>3. IsFiniteSet(Upto(S, k)) /\ IsFiniteSet(Upto(S, i))
    BY <1>1, <1>2, FS_Subset
  <1>4. Cardinality(Upto(S, k)) \in Nat /\ Cardinality(Upto(S, i)) \in Nat
    BY <1>3, FS_CardinalityType
  <1>5. Cardinality(Upto(S, i)) <= Cardinality(Upto(S, k))
    BY <1>2, <1>3, FS_Subset
  <1>6. Cardinality(Upto(S, i)) # 0
    BY <1>2, <1>3, FS_EmptySet
  <1> QED
    BY <1>4, <1>5, <1>6

(* What the loop knows, and one round of it.                                  *)
Paths == {"", "a", "b"}
Roots == {"", "r", "s"}

States ==
  [refused : BOOLEAN, root : Roots, seen : SUBSET Paths, scanned : Nat, skipped : Nat,
   stored : Nat, members : Nat, expanded : Nat, files : Seq(Paths)]

BadNext(s, m) ==
  \/ s.members + 1 > MemberLimit \/ s.expanded + 1 + m.size > ExpandedLimit
  \/ ~m.safe
  \/ s.root # "" /\ m.root # s.root

BadPath(s, m) ==
  \/ m.path = "" \/ m.path \in s.seen
  \/ Wanted(m) /\ s.stored + m.size > StoredLimit

Refuses(s, m) == BadNext(s, m) \/ (m.type # "dir" /\ BadPath(s, m))

(* What the members of an archive are.                                        *)
LEMMA MemberIs ==
  ASSUME NEW m \in Members
  PROVE  /\ m.size \in Nat /\ m.path \in Paths /\ m.root \in Roots /\ m.root # ""
         /\ Wanted(m) => m.type # "dir"
  BY DEF Members, Paths, Roots, Wanted

(* What a state of the loop is.                                               *)
LEMMA StateIs ==
  ASSUME NEW s \in States
  PROVE  /\ s.refused \in BOOLEAN /\ s.root \in Roots /\ s.seen \subseteq Paths
         /\ s.scanned \in Nat /\ s.skipped \in Nat /\ s.stored \in Nat
         /\ s.members \in Nat /\ s.expanded \in Nat /\ s.files \in Seq(Paths)
  BY DEF States

(* A member is read.                                                          *)
LEMMA AdvanceIs ==
  ASSUME NEW s \in States, NEW m \in Members, NEW now, now = Advance(s, m)
  PROVE  /\ now \in States
         /\ now.members = s.members + 1 /\ now.expanded = s.expanded + 1 + m.size
         /\ now.root = (IF s.root = "" THEN m.root ELSE s.root)
         /\ now.refused = s.refused /\ now.seen = s.seen /\ now.scanned = s.scanned
         /\ now.skipped = s.skipped /\ now.stored = s.stored /\ now.files = s.files
  <1>1. now = [s EXCEPT !.members = s.members + 1, !.expanded = s.expanded + 1 + m.size,
                        !.root = IF s.root = "" THEN m.root ELSE s.root]
    BY DEF Advance
  <1>2. /\ s.members + 1 \in Nat /\ s.expanded + 1 + m.size \in Nat
        /\ (IF s.root = "" THEN m.root ELSE s.root) \in Roots
    <2>1. m.size \in Nat /\ m.root \in Roots
      BY MemberIs
    <2>2. s.members + 1 \in Nat /\ s.expanded + 1 + m.size \in Nat
      BY <2>1, StateIs
    <2> QED
      BY <2>1, <2>2, StateIs
  <1> QED
    BY <1>1, <1>2 DEF States

Continues(s, m, v) ==
  /\ v.members = s.members + 1 /\ v.expanded = s.expanded + 1 + m.size
  /\ v.root = (IF s.root = "" THEN m.root ELSE s.root)
  /\ m.type = "dir" => v.seen = s.seen /\ v.scanned = s.scanned /\ v.skipped = s.skipped
  /\ m.type # "dir" => v.seen = s.seen \cup {m.path} /\ v.scanned = s.scanned + 1
  /\ Wanted(m) => /\ v.skipped = s.skipped /\ v.stored = s.stored + m.size
                  /\ v.files = Append(s.files, m.path)
  /\ ~Wanted(m) => v.stored = s.stored /\ v.files = s.files
  /\ ~Wanted(m) /\ m.type # "dir" => v.skipped = s.skipped + 1

(* One round of the loop, by cases.                                           *)
LEMMA VisitIs ==
  ASSUME NEW s \in States, NEW m \in Members, NEW v, v = Visit(s, m)
  PROVE  /\ v \in States
         /\ s.refused => v = s
         /\ ~s.refused =>
              /\ v.refused <=> Refuses(s, m)
              /\ v.refused => v.files = << >>
              /\ ~v.refused => Continues(s, m, v)
  <1> DEFINE now == Advance(s, m)
  <1>1. /\ now \in States
        /\ now.members = s.members + 1 /\ now.expanded = s.expanded + 1 + m.size
        /\ now.root = (IF s.root = "" THEN m.root ELSE s.root)
        /\ now.refused = s.refused /\ now.seen = s.seen /\ now.scanned = s.scanned
        /\ now.skipped = s.skipped /\ now.stored = s.stored /\ now.files = s.files
    BY AdvanceIs
  <1>2. v = IF s.refused THEN s
            ELSE IF Bad(now, m) THEN Refuse(now)
            ELSE IF m.type = "dir" THEN now
            ELSE IF BadFile(now, m) THEN Refuse(now)
            ELSE IF Wanted(m)
            THEN [now EXCEPT !.seen = Note(now, m), !.scanned = @ + 1, !.stored = @ + m.size,
                             !.files = Append(@, m.path)]
            ELSE [now EXCEPT !.seen = Note(now, m), !.scanned = @ + 1, !.skipped = @ + 1]
    BY DEF Visit
  <1> HIDE DEF now
  <1>3. Refuses(s, m) <=> Bad(now, m) \/ (m.type # "dir" /\ BadFile(now, m))
    <2>1. Bad(now, m) <=> BadNext(s, m)
      BY <1>1 DEF Bad, BadNext
    <2>2. BadFile(now, m) <=> BadPath(s, m)
      BY <1>1 DEF BadFile, BadPath
    <2> QED
      BY <2>1, <2>2 DEF Refuses
  <1>4. Refuse(now) \in States /\ Refuse(now).refused /\ Refuse(now).files = << >>
    <2>1. << >> \in Seq(Paths)
      OBVIOUS
    <2> QED
      BY <1>1, <2>1 DEF Refuse, States
  <1>5. /\ Note(now, m) = s.seen \cup {m.path} /\ Note(now, m) \in SUBSET Paths
        /\ now.scanned + 1 \in Nat /\ now.stored + m.size \in Nat /\ now.skipped + 1 \in Nat
    <2>1. m.size \in Nat /\ m.path \in Paths
      BY MemberIs
    <2>2. Note(now, m) = s.seen \cup {m.path}
      BY <1>1 DEF Note
    <2>3. now \in States /\ s.seen \subseteq Paths
      BY <1>1, StateIs
    <2>4. now.scanned \in Nat /\ now.stored \in Nat /\ now.skipped \in Nat
      BY <2>3, StateIs
    <2>5. now.scanned + 1 \in Nat /\ now.stored + m.size \in Nat /\ now.skipped + 1 \in Nat
      BY <2>1, <2>4
    <2> QED
      BY <2>1, <2>2, <2>3, <2>5
  <1>6. Append(now.files, m.path) \in Seq(Paths)
    BY <1>1, MemberIs, StateIs, AppendProperties
  <1> DEFINE kept == [now EXCEPT !.seen = Note(now, m), !.scanned = @ + 1, !.stored = @ + m.size,
                                 !.files = Append(@, m.path)]
             left == [now EXCEPT !.seen = Note(now, m), !.scanned = @ + 1, !.skipped = @ + 1]
  <1>7. /\ kept \in States /\ kept.seen = Note(now, m) /\ kept.scanned = now.scanned + 1
        /\ kept.stored = now.stored + m.size /\ kept.files = Append(now.files, m.path)
        /\ kept.members = now.members /\ kept.expanded = now.expanded /\ kept.root = now.root
        /\ kept.skipped = now.skipped /\ kept.refused = now.refused
    BY <1>1, <1>5, <1>6 DEF States
  <1>8. /\ left \in States /\ left.seen = Note(now, m) /\ left.scanned = now.scanned + 1
        /\ left.stored = now.stored /\ left.files = now.files
        /\ left.members = now.members /\ left.expanded = now.expanded /\ left.root = now.root
        /\ left.skipped = now.skipped + 1 /\ left.refused = now.refused
    BY <1>1, <1>5 DEF States
  <1>9. v = IF s.refused THEN s
            ELSE IF Refuses(s, m) THEN Refuse(now)
            ELSE IF m.type = "dir" THEN now
            ELSE IF Wanted(m) THEN kept ELSE left
    BY <1>2, <1>3
  <1> HIDE DEF kept, left
  <1>10. v \in States
    BY <1>1, <1>4, <1>7, <1>8, <1>9
  <1>11. s.refused => v = s
    BY <1>9
  <1>12. Wanted(m) => m.type # "dir"
    BY MemberIs
  <1>13. CASE s.refused
    BY <1>10, <1>11, <1>13
  <1>14. CASE ~s.refused /\ Refuses(s, m)
    BY <1>4, <1>9, <1>10, <1>14
  <1>15. CASE ~s.refused /\ ~Refuses(s, m) /\ m.type = "dir"
    BY <1>1, <1>9, <1>10, <1>12, <1>15 DEF Continues
  <1>16. CASE ~s.refused /\ ~Refuses(s, m) /\ m.type # "dir" /\ Wanted(m)
    BY <1>1, <1>5, <1>7, <1>9, <1>10, <1>16 DEF Continues
  <1>17. CASE ~s.refused /\ ~Refuses(s, m) /\ m.type # "dir" /\ ~Wanted(m)
    BY <1>1, <1>5, <1>8, <1>9, <1>10, <1>17 DEF Continues
  <1> QED
    BY <1>13, <1>14, <1>15, <1>16, <1>17

(* The states that the loop goes through.                                     *)
Visits(n, ms, p) ==
  /\ p \in [0..n -> States] /\ p[0] = Empty
  /\ \A k \in 1..n : p[k] = Visit(p[k - 1], ms[k])

(* The state before the first member.                                         *)
LEMMA EmptyIs == Empty \in States
  <1>1. << >> \in Seq(Paths)
    OBVIOUS
  <1> QED
    BY <1>1 DEF Empty, States, Paths, Roots

(* The loop goes through the members in order.                                *)
LEMMA ScanIs ==
  ASSUME NEW ms \in Seq(Members), NEW n, n = Len(ms)
  PROVE  \E p : Visits(n, ms, p) /\ Scan(ms) = p[n]
  <1>1. n \in Nat /\ DOMAIN ms = 1..n /\ \A i \in 1..n : ms[i] \in Members
    BY LenProperties, ElementOfSeq
  <1> DEFINE h == [x \in (1..n) \X States |-> Visit(x[2], ms[x[1]])]
             IsIt(g) == g = [s \in SUBSET DOMAIN ms |->
                               IF s = {} THEN Empty ELSE Visit(g[s \ {Max(s)}], ms[Max(s)])]
  <1>2. \A i \in 1..n, v \in States : Visit(v, ms[i]) \in States
    BY <1>1, VisitIs
  <1>3. h \in [(1..n) \X States -> States]
        /\ \A i \in 1..n, v \in States : h[<<i, v>>] = Visit(v, ms[i])
    BY <1>2
  <1> HIDE DEF h
  <1>4. PICK f : FoldsUp(n, States, Empty, h, f)
    BY <1>1, <1>3, EmptyIs, PrefixFolds
  <1>5. \A s \in SUBSET (1..n) : s # {} => Max(s) \in 1..n /\ s \ {Max(s)} \in SUBSET (1..n)
    BY <1>1, Greatest
  <1>6. IsIt(f)
    <2>1. \A s \in SUBSET (1..n) :
            f[s] = IF s = {} THEN Empty ELSE Visit(f[s \ {Max(s)}], ms[Max(s)])
      <3> SUFFICES ASSUME NEW s \in SUBSET (1..n), s # {}
                   PROVE  f[s] = Visit(f[s \ {Max(s)}], ms[Max(s)])
        BY <1>4 DEF FoldsUp
      <3>1. f[s \ {Max(s)}] \in States /\ Max(s) \in 1..n
        BY <1>4, <1>5 DEF FoldsUp
      <3>2. f[s] = h[<<Max(s), f[s \ {Max(s)}]>>]
        BY <1>4 DEF FoldsUp
      <3> QED
        BY <1>3, <3>1, <3>2
    <2> QED
      BY <1>1, <1>4, <2>1 DEF FoldsUp
  <1>7. PICK g : IsIt(g) /\ Scan(ms) = g[DOMAIN ms]
    BY <1>6 DEF Scan, FoldLeft, MapThenFoldSet
  <1> DEFINE p == [k \in 0..n |-> g[1..k]]
  <1>8. g[{}] = Empty
    BY <1>7
  <1>9. ASSUME NEW k \in 1..n PROVE g[1..k] = Visit(g[1..(k - 1)], ms[k])
    <2>1. k \in Nat /\ k # 0 /\ 1..k \in SUBSET (1..n)
      BY <1>1
    <2>2. Max(1..k) = k /\ (1..k) \ {k} = 1..(k - 1) /\ 1..k # {}
      BY <2>1, PrefixTop
    <2>3. g[1..k] = Visit(g[(1..k) \ {Max(1..k)}], ms[Max(1..k)])
      BY <1>1, <1>7, <2>1, <2>2
    <2> QED
      BY <2>2, <2>3
  <1>10. 1..0 = {} /\ p[0] = Empty /\ p[n] = g[1..n]
    BY <1>1, <1>8
  <1>11. \A k \in 1..n : k - 1 \in 0..n /\ p[k] = Visit(p[k - 1], ms[k])
    <2> HIDE DEF IsIt
    <2> QED
      BY <1>1, <1>9
  <1>12. \A k \in 0..n : p[k] \in States
    <2> DEFINE A == {k \in 0..n : p[k] \in States}
    <2>1. 0 \in A
      BY <1>1, <1>10, EmptyIs
    <2>2. \A k \in 0..(n - 1) : k \in A => k + 1 \in A
      <3> SUFFICES ASSUME NEW k \in 0..(n - 1), k \in A PROVE p[k + 1] \in States /\ k + 1 \in 0..n
        OBVIOUS
      <3>1. k + 1 \in 1..n /\ k + 1 - 1 = k /\ k + 1 \in 0..n /\ p[k] \in States
        BY <1>1
      <3> HIDE DEF p
      <3>2. p[k + 1] = Visit(p[k], ms[k + 1])
        BY <1>11, <3>1
      <3> QED
        BY <1>2, <3>1, <3>2
    <2> HIDE DEF A
    <2>3. 0..n \subseteq A
      BY <1>1, <2>1, <2>2, NumbersUpTo
    <2> QED
      BY <2>3 DEF A
  <1>13. Visits(n, ms, p)
    <2>1. p \in [0..n -> States]
      BY <1>12
    <2> HIDE DEF p
    <2> QED
      BY <1>10, <1>11, <2>1 DEF Visits
  <1>14. Scan(ms) = p[n]
    BY <1>1, <1>7, <1>10
  <1> QED
    BY <1>13, <1>14

(* The first k members may be accepted, and what is then known of them.        *)
Sound(ms, k) ==
  /\ k <= MemberLimit /\ k + Bulk(ms, Upto(DOMAIN ms, k)) <= ExpandedLimit
  /\ Bulk(ms, Upto(Chosen(ms), k)) <= StoredLimit
  /\ \A i \in 1..k : ms[i].safe /\ ms[i].root = ms[1].root
  /\ \A i \in Upto(Entries(ms), k) : ms[i].path # ""
  /\ \A i, j \in Upto(Entries(ms), k) : ms[i].path = ms[j].path => i = j

Accounts(ms, k, s) ==
  /\ s.members = k /\ s.expanded = k + Bulk(ms, Upto(DOMAIN ms, k))
  /\ s.stored = Bulk(ms, Upto(Chosen(ms), k))
  /\ k = 0 => s.root = ""
  /\ k # 0 => s.root = ms[1].root
  /\ s.seen = {ms[i].path : i \in Upto(Entries(ms), k)}
  /\ s.scanned = Cardinality(Upto(Entries(ms), k))
  /\ s.skipped = s.scanned - Len(s.files)
  /\ Len(s.files) = Cardinality(Upto(Chosen(ms), k))
  /\ \A i \in Upto(Chosen(ms), k) : s.files[Cardinality(Upto(Chosen(ms), i))] = ms[i].path

Told(ms, k, s) ==
  /\ s.refused => s.files = << >>
  /\ ~s.refused <=> Sound(ms, k)
  /\ ~s.refused => Accounts(ms, k, s)

(* The size of one more member.                                               *)
LEMMA BulkUpto ==
  ASSUME NEW ms \in Seq(Members), NEW S \in SUBSET DOMAIN ms, NEW k \in 1..Len(ms)
  PROVE  /\ Bulk(ms, Upto(S, k)) \in Nat /\ Bulk(ms, Upto(S, k - 1)) \in Nat
         /\ ms[k] \in Members /\ ms[k].size \in Nat
         /\ k \in S => Bulk(ms, Upto(S, k)) = ms[k].size + Bulk(ms, Upto(S, k - 1))
         /\ k \notin S => Bulk(ms, Upto(S, k)) = Bulk(ms, Upto(S, k - 1))
  <1> DEFINE n == Len(ms)
  <1>1. n \in Nat /\ DOMAIN ms = 1..n
    BY LenProperties
  <1>2. S \in SUBSET (1..n)
    BY <1>1
  <1>3. ms[k] \in Members
    BY <1>1, ElementOfSeq
  <1>4. /\ k \notin S => Upto(S, k) = Upto(S, k - 1)
        /\ k \in S => k \in Upto(S, k) /\ Upto(S, k) \ {k} = Upto(S, k - 1)
    <2>1. n \in Nat /\ k \in 1..n
      BY <1>1
    <2> HIDE DEF n
    <2> QED
      BY ONLY <1>2, <2>1, UptoStep, SMTT(30)
  <1>5. Upto(S, k) \in SUBSET DOMAIN ms /\ Upto(S, k - 1) \in SUBSET DOMAIN ms
    BY DEF Upto
  <1>6. Bulk(ms, Upto(S, k)) \in Nat /\ Bulk(ms, Upto(S, k - 1)) \in Nat
    BY <1>5, BulkStep
  <1>7. k \in S => Bulk(ms, Upto(S, k)) = ms[k].size + Bulk(ms, Upto(S, k - 1))
    BY <1>4, <1>5, BulkStep
  <1> QED
    BY <1>3, <1>4, <1>6, <1>7, MemberIs

(* An archive whose beginning is refused is refused.                          *)
LEMMA SoundBefore ==
  ASSUME NEW ms \in Seq(Members), NEW k \in 1..Len(ms), Sound(ms, k)
  PROVE  Sound(ms, k - 1)
  <1> DEFINE D == DOMAIN ms
             C == Chosen(ms)
             E == Entries(ms)
  <1>1. D \in SUBSET D /\ C \in SUBSET D /\ E \in SUBSET D /\ k \in D
    BY LenProperties DEF Chosen, Entries
  <1>2. MemberLimit \in Nat /\ ExpandedLimit \in Nat /\ StoredLimit \in Nat /\ k \in Nat
    BY ArchiveBounds, LenProperties DEF ArchiveBounds
  <1>3. k <= MemberLimit /\ k + Bulk(ms, Upto(D, k)) <= ExpandedLimit /\ Bulk(ms, Upto(C, k)) <= StoredLimit
    BY DEF Sound
  <1>4. /\ Bulk(ms, Upto(D, k)) = ms[k].size + Bulk(ms, Upto(D, k - 1))
        /\ Bulk(ms, Upto(D, k - 1)) \in Nat /\ ms[k].size \in Nat
    BY <1>1, BulkUpto
  <1>5. /\ Bulk(ms, Upto(C, k)) = ms[k].size + Bulk(ms, Upto(C, k - 1))
           \/ Bulk(ms, Upto(C, k)) = Bulk(ms, Upto(C, k - 1))
        /\ Bulk(ms, Upto(C, k - 1)) \in Nat
    BY <1>1, BulkUpto, SMTT(30)
  <1>6. k - 1 <= MemberLimit /\ k - 1 + Bulk(ms, Upto(D, k - 1)) <= ExpandedLimit
    BY <1>2, <1>3, <1>4
  <1>7. Bulk(ms, Upto(C, k - 1)) <= StoredLimit
    BY <1>2, <1>3, <1>4, <1>5
  <1>8. 1..(k - 1) \subseteq 1..k
    BY <1>2
  <1>9. \A i \in 1..(k - 1) : ms[i].safe /\ ms[i].root = ms[1].root
    BY <1>8 DEF Sound
  <1>10. Upto(E, k - 1) \subseteq Upto(E, k)
    BY <1>8 DEF Upto
  <1> HIDE DEF D, C, E
  <1> QED
    BY <1>6, <1>7, <1>9, <1>10 DEF Sound, D, C, E

(* A member is refused exactly when the archive up to it is not sound.        *)
LEMMA SoundStep ==
  ASSUME NEW ms \in Seq(Members), NEW k \in 1..Len(ms), NEW s \in States,
         Sound(ms, k - 1), Accounts(ms, k - 1, s)
  PROVE  Sound(ms, k) <=> ~Refuses(s, ms[k])
  <1> DEFINE D == DOMAIN ms
             C == Chosen(ms)
             E == Entries(ms)
             m == ms[k]
             n == Len(ms)
  <1>1. n \in Nat /\ D = 1..n /\ k \in Nat /\ k # 0
    BY LenProperties
  <1>2. C \in SUBSET D /\ E \in SUBSET D /\ k \in D
    BY <1>1 DEF Chosen, Entries
  <1>3. (k \in C <=> Wanted(m)) /\ (k \in E <=> m.type # "dir")
    BY <1>2 DEF Chosen, Entries
  <1>4. m \in Members /\ m.size \in Nat /\ (Wanted(m) => m.type # "dir")
    BY <1>1, ElementOfSeq, MemberIs
  <1>5. MemberLimit \in Nat /\ ExpandedLimit \in Nat /\ StoredLimit \in Nat
    BY ArchiveBounds DEF ArchiveBounds
  <1>6. /\ Bulk(ms, Upto(D, k)) = m.size + Bulk(ms, Upto(D, k - 1))
        /\ Bulk(ms, Upto(D, k - 1)) \in Nat
    BY <1>2, BulkUpto
  <1>7. /\ k \in C => Bulk(ms, Upto(C, k)) = m.size + Bulk(ms, Upto(C, k - 1))
        /\ k \notin C => Bulk(ms, Upto(C, k)) = Bulk(ms, Upto(C, k - 1))
        /\ Bulk(ms, Upto(C, k - 1)) \in Nat
    BY <1>2, BulkUpto
  <1>8. s.members = k - 1 /\ s.expanded = k - 1 + Bulk(ms, Upto(D, k - 1))
        /\ s.stored = Bulk(ms, Upto(C, k - 1))
    BY DEF Accounts
  <1>9. /\ k \notin E => Upto(E, k) = Upto(E, k - 1)
        /\ k \in E => Upto(E, k) = Upto(E, k - 1) \cup {k}
    <2>1. E \in SUBSET (1..n) /\ k \in 1..n
      BY <1>1, <1>2
    <2> HIDE DEF n, E
    <2> QED
      BY <1>1, <2>1, UptoStep
  <1>10. k <= MemberLimit <=> ~(s.members + 1 > MemberLimit)
    BY <1>1, <1>5, <1>8
  <1>11. k + Bulk(ms, Upto(D, k)) <= ExpandedLimit <=> ~(s.expanded + 1 + m.size > ExpandedLimit)
    BY <1>1, <1>4, <1>5, <1>6, <1>8
  <1>12. Bulk(ms, Upto(C, k)) <= StoredLimit <=> ~(Wanted(m) /\ s.stored + m.size > StoredLimit)
    <2>1. CASE k \in C
      <3>1. Bulk(ms, Upto(C, k)) = s.stored + m.size /\ s.stored \in Nat
        BY <1>4, <1>7, <1>8, <2>1
      <3> QED
        BY <1>3, <1>4, <1>5, <2>1, <3>1
    <2>2. CASE k \notin C
      <3>1. Bulk(ms, Upto(C, k - 1)) <= StoredLimit
        BY DEF Sound
      <3> QED
        BY <1>3, <1>7, <2>2, <3>1
    <2> QED
      BY <2>1, <2>2
  <1>13. (\A i \in 1..k : ms[i].safe /\ ms[i].root = ms[1].root)
         <=> m.safe /\ ~(s.root # "" /\ m.root # s.root)
    <2>1. \A i \in 1..k : i \in 1..(k - 1) \/ i = k
      BY <1>1
    <2>2. 1..(k - 1) \subseteq 1..k /\ k \in 1..k
      BY <1>1
    <2>3. \A i \in 1..(k - 1) : ms[i].safe /\ ms[i].root = ms[1].root
      BY DEF Sound
    <2>4. (\A i \in 1..k : ms[i].safe /\ ms[i].root = ms[1].root) <=> m.safe /\ m.root = ms[1].root
      BY <2>1, <2>2, <2>3
    <2>5. m.root = ms[1].root <=> ~(s.root # "" /\ m.root # s.root)
      <3>1. CASE k = 1
        <4>1. k - 1 = 0
          BY <3>1
        <4>2. s.root = ""
          BY <4>1 DEF Accounts
        <4> QED
          BY <3>1, <4>2
      <3>2. CASE k # 1
        <4>1. k - 1 # 0 /\ 1 \in 1..n
          BY <1>1, <3>2
        <4>2. s.root = ms[1].root
          BY <4>1 DEF Accounts
        <4>3. ms[1] \in Members
          BY <1>1, <4>1, ElementOfSeq
        <4>4. s.root # ""
          BY <4>2, <4>3, MemberIs
        <4> QED
          BY <4>2, <4>4
      <3> QED
        BY <3>1, <3>2
    <2> QED
      BY <2>4, <2>5
  <1>14. /\ \A i \in Upto(E, k - 1) : ms[i].path # ""
         /\ \A i, j \in Upto(E, k - 1) : ms[i].path = ms[j].path => i = j
         /\ s.seen = {ms[i].path : i \in Upto(E, k - 1)}
    BY DEF Sound, Accounts
  <1> DEFINE Named == \A i \in Upto(E, k) : ms[i].path # ""
             Apart == \A i, j \in Upto(E, k) : ms[i].path = ms[j].path => i = j
  <1>15. Named /\ Apart <=> ~(m.type # "dir" /\ (m.path = "" \/ m.path \in s.seen))
    <2>1. CASE k \notin E
      BY <1>3, <1>9, <1>14, <2>1
    <2>2. CASE k \in E
      <3>1. Named <=> m.path # ""
        BY <1>9, <1>14, <2>2
      <3>2. k \notin Upto(E, k - 1)
        BY <1>1 DEF Upto
      <3>3. m.path \in s.seen <=> \E i \in Upto(E, k - 1) : ms[i].path = m.path
        BY <1>14
      <3>4. Apart <=> \A i \in Upto(E, k - 1) : ms[i].path # m.path
        <4>1. ASSUME Apart, NEW i \in Upto(E, k - 1) PROVE ms[i].path # m.path
          BY <1>9, <2>2, <3>2, <4>1
        <4>2. ASSUME \A i \in Upto(E, k - 1) : ms[i].path # m.path PROVE Apart
          BY <1>9, <1>14, <2>2, <4>2
        <4> QED
          BY <4>1, <4>2
      <3> HIDE DEF Named, Apart
      <3> QED
        BY <1>3, <2>2, <3>1, <3>3, <3>4
    <2> QED
      BY <2>1, <2>2
  <1>16. Sound(ms, k) <=> /\ k <= MemberLimit /\ k + Bulk(ms, Upto(D, k)) <= ExpandedLimit
                          /\ Bulk(ms, Upto(C, k)) <= StoredLimit
                          /\ \A i \in 1..k : ms[i].safe /\ ms[i].root = ms[1].root
                          /\ Named /\ Apart
    BY DEF Sound
  <1>17. Refuses(s, m) <=> \/ s.members + 1 > MemberLimit \/ s.expanded + 1 + m.size > ExpandedLimit
                           \/ ~m.safe
                           \/ s.root # "" /\ m.root # s.root
                           \/ m.type # "dir" /\ (m.path = "" \/ m.path \in s.seen)
                           \/ Wanted(m) /\ s.stored + m.size > StoredLimit
    BY <1>4 DEF Refuses, BadNext, BadPath
  <1> HIDE DEF D, C, E, m, n, Named, Apart
  <1> QED
    BY <1>10, <1>11, <1>12, <1>13, <1>15, <1>16, <1>17 DEF m

(* A member that is not refused is accounted for.                             *)
LEMMA AccountsStep ==
  ASSUME NEW ms \in Seq(Members), NEW k \in 1..Len(ms), NEW s \in States, ~s.refused,
         Accounts(ms, k - 1, s), NEW v, v = Visit(s, ms[k]), ~v.refused
  PROVE  Accounts(ms, k, v)
  <1> DEFINE D == DOMAIN ms
             C == Chosen(ms)
             E == Entries(ms)
             m == ms[k]
             n == Len(ms)
  <1>1. n \in Nat /\ D = 1..n /\ k \in Nat /\ k # 0 /\ k \in 1..n
    BY LenProperties
  <1>2. C \in SUBSET (1..n) /\ E \in SUBSET (1..n) /\ D \in SUBSET (1..n) /\ k \in D
    BY <1>1 DEF Chosen, Entries
  <1>3. (k \in C <=> Wanted(m)) /\ (k \in E <=> m.type # "dir")
    BY <1>2 DEF Chosen, Entries
  <1>4. m \in Members /\ m.size \in Nat /\ m.path \in Paths /\ (Wanted(m) => m.type # "dir")
    BY <1>1, ElementOfSeq, MemberIs
  <1>5. /\ v.members = s.members + 1 /\ v.expanded = s.expanded + 1 + m.size
        /\ v.root = (IF s.root = "" THEN m.root ELSE s.root)
        /\ m.type = "dir" => v.seen = s.seen /\ v.scanned = s.scanned /\ v.skipped = s.skipped
        /\ m.type # "dir" => v.seen = s.seen \cup {m.path} /\ v.scanned = s.scanned + 1
        /\ Wanted(m) => /\ v.skipped = s.skipped /\ v.stored = s.stored + m.size
                        /\ v.files = Append(s.files, m.path)
        /\ ~Wanted(m) => v.stored = s.stored /\ v.files = s.files
        /\ ~Wanted(m) /\ m.type # "dir" => v.skipped = s.skipped + 1
    <2>1. v = Visit(s, m)
      OBVIOUS
    <2> HIDE DEF m
    <2>2. Continues(s, m, v)
      BY <1>4, <2>1, VisitIs
    <2> QED
      BY <2>2 DEF Continues
  <1>6. s.files \in Seq(Paths) /\ s.scanned \in Nat /\ s.skipped \in Nat
    BY StateIs
  <1>7. /\ s.members = k - 1 /\ s.expanded = k - 1 + Bulk(ms, Upto(D, k - 1))
        /\ s.stored = Bulk(ms, Upto(C, k - 1))
        /\ k - 1 = 0 => s.root = ""
        /\ k - 1 # 0 => s.root = ms[1].root
        /\ s.seen = {ms[i].path : i \in Upto(E, k - 1)}
        /\ s.scanned = Cardinality(Upto(E, k - 1))
        /\ s.skipped = s.scanned - Len(s.files)
        /\ Len(s.files) = Cardinality(Upto(C, k - 1))
        /\ \A i \in Upto(C, k - 1) : s.files[Cardinality(Upto(C, i))] = ms[i].path
    BY DEF Accounts
  <1>8. /\ Bulk(ms, Upto(D, k)) = m.size + Bulk(ms, Upto(D, k - 1))
        /\ Bulk(ms, Upto(D, k - 1)) \in Nat
    BY <1>1, <1>2, BulkUpto
  <1>9. /\ k \in C => Bulk(ms, Upto(C, k)) = m.size + Bulk(ms, Upto(C, k - 1))
        /\ k \notin C => Bulk(ms, Upto(C, k)) = Bulk(ms, Upto(C, k - 1))
        /\ Bulk(ms, Upto(C, k - 1)) \in Nat
    BY <1>1, <1>2, BulkUpto
  <1>10. ASSUME NEW S \in SUBSET (1..n)
         PROVE  /\ Cardinality(Upto(S, k)) \in Nat /\ Cardinality(Upto(S, k - 1)) \in Nat
                /\ k \notin S => Upto(S, k) = Upto(S, k - 1)
                /\ k \in S => /\ k \in Upto(S, k) /\ Upto(S, k) = Upto(S, k - 1) \cup {k}
                              /\ Cardinality(Upto(S, k)) = Cardinality(Upto(S, k - 1)) + 1
    <2> HIDE DEF n
    <2> QED
      BY <1>1, UptoStep
  <1>11. v.members = k /\ v.expanded = k + Bulk(ms, Upto(D, k))
    <2>1. v.members = s.members + 1 /\ v.expanded = s.expanded + 1 + m.size
      BY <1>5
    <2>2. s.members = k - 1 /\ s.expanded = k - 1 + Bulk(ms, Upto(D, k - 1))
      BY <1>7
    <2> QED
      BY <1>1, <1>4, <1>8, <2>1, <2>2
  <1>12. v.stored = Bulk(ms, Upto(C, k))
    <2>1. Wanted(m) => v.stored = s.stored + m.size
      BY <1>5
    <2>2. ~Wanted(m) => v.stored = s.stored
      BY <1>5
    <2>3. s.stored = Bulk(ms, Upto(C, k - 1))
      BY <1>7
    <2> QED
      BY <1>3, <1>4, <1>9, <2>1, <2>2, <2>3
  <1>13. v.root = ms[1].root
    <2>1. CASE k = 1
      <3>1. k - 1 = 0
        BY <2>1
      <3>2. s.root = ""
        BY <1>7, <3>1
      <3> QED
        BY <1>5, <2>1, <3>2
    <2>2. CASE k # 1
      <3>1. k - 1 # 0 /\ 1 \in 1..n
        BY <1>1, <2>2
      <3>2. s.root = ms[1].root
        BY <1>7, <3>1
      <3>3. ms[1] \in Members
        BY <1>1, <3>1, ElementOfSeq
      <3>4. s.root # ""
        BY <3>2, <3>3, MemberIs
      <3> QED
        BY <1>5, <3>2, <3>4
    <2> QED
      BY <2>1, <2>2
  <1>14. v.seen = {ms[i].path : i \in Upto(E, k)}
    <2>1. CASE k \in E
      <3>1. v.seen = s.seen \cup {m.path}
        BY <1>3, <1>5, <2>1
      <3>2. Upto(E, k) = Upto(E, k - 1) \cup {k}
        BY <1>2, <1>10, <2>1
      <3> HIDE DEF E
      <3> QED
        BY <1>7, <3>1, <3>2
    <2>2. CASE k \notin E
      <3>1. v.seen = s.seen
        BY <1>3, <1>5, <2>2
      <3>2. Upto(E, k) = Upto(E, k - 1)
        BY <1>2, <1>10, <2>2
      <3> QED
        BY <1>7, <3>1, <3>2
    <2> QED
      BY <2>1, <2>2
  <1>15. v.scanned = Cardinality(Upto(E, k))
    <2>1. s.scanned = Cardinality(Upto(E, k - 1))
      BY <1>7
    <2>2. m.type = "dir" => v.scanned = s.scanned
      BY <1>5
    <2>3. m.type # "dir" => v.scanned = s.scanned + 1
      BY <1>5
    <2>4. /\ k \notin E => Cardinality(Upto(E, k)) = Cardinality(Upto(E, k - 1))
          /\ k \in E => Cardinality(Upto(E, k)) = Cardinality(Upto(E, k - 1)) + 1
      BY <1>2, <1>10
    <2> QED
      BY <1>3, <2>1, <2>2, <2>3, <2>4
  <1>16. /\ Wanted(m) => Len(v.files) = Len(s.files) + 1
         /\ ~Wanted(m) => Len(v.files) = Len(s.files)
         /\ Len(s.files) \in Nat
    <2>1. Wanted(m) => v.files = Append(s.files, m.path)
      BY <1>5
    <2>2. ~Wanted(m) => v.files = s.files
      BY <1>5
    <2> QED
      BY <1>4, <1>6, <2>1, <2>2, AppendProperties, LenProperties
  <1>17. v.skipped = v.scanned - Len(v.files)
    <2>1. s.skipped = s.scanned - Len(s.files)
      BY <1>7
    <2>2. CASE k \in C
      <3>1. v.scanned = s.scanned + 1 /\ v.skipped = s.skipped /\ Len(v.files) = Len(s.files) + 1
        BY <1>3, <1>4, <1>5, <1>16, <2>2
      <3> QED
        BY <1>6, <1>16, <2>1, <3>1
    <2>3. CASE k \notin C /\ k \in E
      <3>1. v.scanned = s.scanned + 1 /\ v.skipped = s.skipped + 1 /\ Len(v.files) = Len(s.files)
        BY <1>3, <1>5, <1>16, <2>3
      <3> QED
        BY <1>6, <1>16, <2>1, <3>1
    <2>4. CASE k \notin C /\ k \notin E
      <3>1. v.scanned = s.scanned /\ v.skipped = s.skipped /\ Len(v.files) = Len(s.files)
        BY <1>3, <1>5, <1>16, <2>4
      <3> QED
        BY <2>1, <3>1
    <2> QED
      BY <2>2, <2>3, <2>4
  <1>18. Len(v.files) = Cardinality(Upto(C, k))
    <2>1. Len(s.files) = Cardinality(Upto(C, k - 1))
      BY <1>7
    <2>2. /\ k \notin C => Cardinality(Upto(C, k)) = Cardinality(Upto(C, k - 1))
          /\ k \in C => Cardinality(Upto(C, k)) = Cardinality(Upto(C, k - 1)) + 1
      BY <1>2, <1>10
    <2> QED
      BY <1>3, <1>16, <2>1, <2>2
  <1>19. ASSUME NEW i \in Upto(C, k) PROVE v.files[Cardinality(Upto(C, i))] = ms[i].path
    <2>1. CASE k \notin C
      <3>1. v.files = s.files /\ Upto(C, k) = Upto(C, k - 1)
        BY <1>2, <1>3, <1>5, <1>10, <2>1
      <3> QED
        BY <1>7, <1>19, <3>1
    <2>2. CASE k \in C
      <3>1. v.files = Append(s.files, m.path)
        BY <1>3, <1>5, <2>2
      <3>2. /\ \A j \in 1..Len(s.files) : v.files[j] = s.files[j]
            /\ v.files[Len(s.files) + 1] = m.path
        BY <1>4, <1>6, <3>1, AppendProperties
      <3>3. Len(s.files) = Cardinality(Upto(C, k - 1))
        BY <1>7
      <3>4. CASE i = k
        <4>1. Cardinality(Upto(C, i)) = Len(s.files) + 1
          BY <1>2, <1>10, <2>2, <3>3, <3>4
        <4> QED
          BY <3>2, <3>4, <4>1
      <3>5. CASE i # k
        <4>1. i \in Upto(C, k - 1)
          BY <1>2, <1>10, <1>19, <2>2, <3>5
        <4>2. k - 1 \in 1..n
          BY <1>1, <4>1 DEF Upto
        <4>3. Cardinality(Upto(C, i)) \in 1..Cardinality(Upto(C, k - 1))
          <5> HIDE DEF n, C
          <5> QED
            BY <1>1, <1>2, <4>1, <4>2, UptoCount
        <4>4. s.files[Cardinality(Upto(C, i))] = ms[i].path
          BY <1>7, <4>1
        <4> QED
          BY <3>2, <3>3, <4>3, <4>4
      <3> QED
        BY <3>4, <3>5
    <2> QED
      BY <2>1, <2>2
  <1> HIDE DEF D, C, E
  <1> QED
    BY <1>1, <1>11, <1>12, <1>13, <1>14, <1>15, <1>17, <1>18, <1>19 DEF Accounts, D, C, E

(* Each round keeps what is known of the members so far.                      *)
LEMMA ToldStep ==
  ASSUME NEW ms \in Seq(Members), NEW k \in 1..Len(ms), NEW s \in States, Told(ms, k - 1, s),
         NEW v, v = Visit(s, ms[k])
  PROVE  Told(ms, k, v)
  <1> DEFINE m == ms[k]
  <1>1. m \in Members
    BY ElementOfSeq, LenProperties
  <1>2. v = Visit(s, m)
    OBVIOUS
  <1> HIDE DEF m
  <1>3. /\ s.refused => v = s
        /\ ~s.refused => /\ v.refused <=> Refuses(s, m)
                         /\ v.refused => v.files = << >>
    BY <1>1, <1>2, VisitIs
  <1>4. CASE s.refused
    <2>1. ~Sound(ms, k - 1) /\ s.files = << >>
      BY <1>4 DEF Told
    <2>2. ~Sound(ms, k)
      BY <2>1, SoundBefore
    <2> QED
      BY <1>3, <1>4, <2>1, <2>2 DEF Told
  <1>5. CASE ~s.refused
    <2>1. Sound(ms, k - 1) /\ Accounts(ms, k - 1, s)
      BY <1>5 DEF Told
    <2>2. Sound(ms, k) <=> ~Refuses(s, m)
      BY <2>1, SoundStep DEF m
    <2>3. ~v.refused => Accounts(ms, k, v)
      BY <1>5, <2>1, AccountsStep
    <2> QED
      BY <1>3, <1>5, <2>2, <2>3 DEF Told
  <1> QED
    BY <1>4, <1>5

(* Nothing is wrong with no members.                                          *)
LEMMA ToldFirst == ASSUME NEW ms \in Seq(Members) PROVE Told(ms, 0, Empty)
  <1>1. \A S : Upto(S, 0) = {}
    BY DEF Upto
  <1>2. {} \in SUBSET DOMAIN ms
    OBVIOUS
  <1>3. Bulk(ms, {}) = 0
    BY <1>2, BulkStep
  <1>4. Cardinality({}) = 0 /\ Len(<< >>) = 0
    BY FS_EmptySet
  <1>5. ExpandedLimit \in Nat /\ StoredLimit \in Nat /\ MemberLimit \in Nat
    BY ArchiveBounds DEF ArchiveBounds
  <1>6. Sound(ms, 0)
    <2>1. 0 <= MemberLimit /\ 0 + 0 <= ExpandedLimit /\ 0 <= StoredLimit /\ 1..0 = {}
      BY <1>5
    <2> QED
      BY <1>1, <1>3, <2>1 DEF Sound
  <1>7. /\ Empty.refused = FALSE /\ Empty.root = "" /\ Empty.seen = {} /\ Empty.scanned = 0
        /\ Empty.skipped = 0 /\ Empty.stored = 0 /\ Empty.members = 0 /\ Empty.expanded = 0
        /\ Empty.files = << >>
    BY DEF Empty
  <1>8. Accounts(ms, 0, Empty)
    <2>1. 0 = 0 + 0 /\ 0 = 0 - 0
      OBVIOUS
    <2> QED
      BY <1>1, <1>3, <1>4, <1>7, <2>1 DEF Accounts
  <1> QED
    BY <1>6, <1>7, <1>8 DEF Told

(* What the loop knows after the last member.                                 *)
LEMMA ScanTells ==
  ASSUME NEW ms \in Seq(Members), NEW n, n = Len(ms)
  PROVE  Scan(ms) \in States /\ Told(ms, n, Scan(ms))
  <1>1. PICK p : Visits(n, ms, p) /\ Scan(ms) = p[n]
    BY ScanIs
  <1>2. n \in Nat
    BY LenProperties
  <1>3. p \in [0..n -> States] /\ p[0] = Empty /\ \A k \in 1..n : p[k] = Visit(p[k - 1], ms[k])
    BY <1>1 DEF Visits
  <1> DEFINE A == {k \in 0..n : Told(ms, k, p[k])}
  <1>4. 0 \in A
    BY <1>2, <1>3, ToldFirst
  <1>5. ASSUME NEW k \in 0..(n - 1), k \in A PROVE k + 1 \in A
    <2>1. k + 1 \in 1..n /\ k + 1 \in 0..n /\ (k + 1) - 1 = k /\ k \in 0..n
      BY <1>2
    <2>2. p[k] \in States /\ Told(ms, k, p[k]) /\ p[k + 1] = Visit(p[k], ms[k + 1])
      BY <1>3, <1>5, <2>1
    <2> DEFINE j == k + 1
    <2>3. j \in 1..Len(ms) /\ Told(ms, j - 1, p[k]) /\ p[j] = Visit(p[k], ms[j])
      BY <2>1, <2>2
    <2> HIDE DEF j
    <2>4. Told(ms, j, p[j])
      BY <2>2, <2>3, ToldStep
    <2> QED
      BY <2>1, <2>4 DEF j
  <1>6. 0..n \subseteq A
    <2>1. \A k \in 0..(n - 1) : k \in A => k + 1 \in A
      BY <1>5
    <2> HIDE DEF A
    <2> QED
      BY <1>2, <1>4, <2>1, NumbersUpTo
  <1>7. n \in A /\ p[n] \in States
    BY <1>2, <1>3, <1>6
  <1> QED
    BY <1>1, <1>7

(* Reading (indexing/archive.py, read_archive) accepts exactly the archives that*)
(* are whole, safe, of one root and within every limit, for archives of any size.*)
THEOREM ArchivesAreRead == \A a \in Archives : ArchiveIsExactFor(a)
  <1> SUFFICES ASSUME NEW a \in Archives PROVE ArchiveIsExactFor(a)
    OBVIOUS
  <1> DEFINE ms == a.members
             n == Len(ms)
             end == Scan(ms)
             C == Chosen(ms)
             E == Entries(ms)
             D == DOMAIN ms
  <1>1. ms \in Seq(Members) /\ a.readable \in Nat /\ a.trailing \in Nat
    BY DEF Archives
  <1>2. n \in Nat /\ D = 1..n
    BY <1>1, LenProperties
  <1>3. C \in SUBSET (1..n) /\ E \in SUBSET (1..n) /\ D \in SUBSET (1..n)
    BY <1>2 DEF Chosen, Entries
  <1>4. end \in States /\ Told(ms, n, end)
    BY <1>1, ScanTells
  <1>5. Upto(C, n) = C /\ Upto(E, n) = E /\ Upto(D, n) = D
    <2>1. \A S \in SUBSET (1..n) : S \cap 1..n = S
      OBVIOUS
    <2> HIDE DEF n, C, E, D
    <2> QED
      BY <1>3, <2>1 DEF Upto
  <1>6. ExpandedLimit \in Nat /\ StoredLimit \in Nat /\ MemberLimit \in Nat
    BY ArchiveBounds DEF ArchiveBounds
  <1>7. Bulk(ms, D) \in Nat
    BY <1>1, BulkStep
  <1> DEFINE result == ReadArchive(a)
             over == \/ a.readable < n \/ end.expanded + a.trailing > ExpandedLimit
                     \/ end.files = << >>
  <1>8. result = IF over THEN Refuse(end) ELSE end
    BY DEF ReadArchive
  <1>9. Refuse(end).refused
    BY <1>4 DEF Refuse, States
  <1> HIDE DEF result, end
  <1>10. ~result.refused <=> ~over /\ ~end.refused
    BY <1>8, <1>9
  <1>11. ~result.refused => result = end
    BY <1>8, <1>9
  <1>12. end.refused => over
    BY <1>4 DEF Told
  <1>13. ~end.refused <=> Sound(ms, n)
    BY <1>4 DEF Told
  <1>14. ASSUME ~end.refused
         PROVE  /\ end.expanded = n + Bulk(ms, D)
                /\ end.scanned = Cardinality(E) /\ end.skipped = end.scanned - Len(end.files)
                /\ Len(end.files) = Cardinality(C)
                /\ \A i \in C : end.files[Cardinality(Upto(C, i))] = ms[i].path
    <2>1. Accounts(ms, n, end)
      BY <1>4, <1>14 DEF Told
    <2> HIDE DEF C, E, D, n
    <2> QED
      BY <1>5, <2>1 DEF Accounts, C, E, D
  <1>15. \A i \in C : Upto(C, i) = {j \in C : j <= i}
    BY <1>2, <1>3 DEF Upto
  <1>16. ASSUME ~end.refused PROVE end.files = << >> <=> C = {}
    <2>1. end.files \in Seq(Paths)
      BY <1>4, StateIs
    <2>2. IsFiniteSet(C)
      <3>1. IsFiniteSet(1..n)
        BY <1>2, FS_Interval
      <3> QED
        BY <1>3, <3>1, FS_Subset
    <2>3. Cardinality(C) = 0 <=> C = {}
      BY <2>2, FS_EmptySet
    <2>4. Len(end.files) = 0 <=> end.files = << >>
      BY <2>1, EmptySeq
    <2> QED
      BY <1>14, <1>16, <2>3, <2>4
  <1> DEFINE OneRoot == \A i, j \in D : ms[i].safe /\ ms[i].root = ms[j].root
             Proper == \A i, j \in E : ms[i].path # "" /\ (ms[i].path = ms[j].path => i = j)
  <1>17. (\A i \in 1..n : ms[i].safe /\ ms[i].root = ms[1].root) <=> OneRoot
    <2>1. \A i \in 1..n : 1 \in 1..n
      BY <1>2
    <2> QED
      BY <1>2, <2>1
  <1>18. Sound(ms, n) <=> /\ n <= MemberLimit /\ n + Bulk(ms, D) <= ExpandedLimit
                          /\ Bulk(ms, C) <= StoredLimit /\ OneRoot /\ Proper
    <2>1. Sound(ms, n) <=>
            /\ n <= MemberLimit /\ n + Bulk(ms, Upto(D, n)) <= ExpandedLimit
            /\ Bulk(ms, Upto(C, n)) <= StoredLimit
            /\ \A i \in 1..n : ms[i].safe /\ ms[i].root = ms[1].root
            /\ \A i \in Upto(E, n) : ms[i].path # ""
            /\ \A i, j \in Upto(E, n) : ms[i].path = ms[j].path => i = j
      BY DEF Sound
    <2>2. Proper <=> /\ \A i \in E : ms[i].path # ""
                     /\ \A i, j \in E : ms[i].path = ms[j].path => i = j
      OBVIOUS
    <2> HIDE DEF C, E, D, n, OneRoot, Proper
    <2> QED
      BY <1>5, <1>17, <2>1, <2>2
  <1>19. ~result.refused <=>
           /\ a.readable >= n /\ n <= MemberLimit /\ OneRoot /\ Proper
           /\ n + Bulk(ms, D) + a.trailing <= ExpandedLimit
           /\ Bulk(ms, C) <= StoredLimit /\ C # {}
    <2>1. CASE end.refused
      <3>1. ~(/\ n <= MemberLimit /\ n + Bulk(ms, D) <= ExpandedLimit
              /\ Bulk(ms, C) <= StoredLimit /\ OneRoot /\ Proper)
        BY <1>13, <1>18, <2>1
      <3>2. n + Bulk(ms, D) + a.trailing <= ExpandedLimit => n + Bulk(ms, D) <= ExpandedLimit
        BY <1>1, <1>2, <1>6, <1>7
      <3>3. result.refused
        BY <1>10, <2>1
      <3> HIDE DEF OneRoot, Proper, n, D, C
      <3> QED
        BY <3>1, <3>2, <3>3
    <2>2. CASE ~end.refused
      <3>1. /\ n <= MemberLimit /\ n + Bulk(ms, D) <= ExpandedLimit
            /\ Bulk(ms, C) <= StoredLimit /\ OneRoot /\ Proper
        BY <1>13, <1>18, <2>2
      <3>2. a.readable < n <=> ~(a.readable >= n)
        BY <1>1, <1>2
      <3>3. end.expanded + a.trailing > ExpandedLimit
            <=> ~(n + Bulk(ms, D) + a.trailing <= ExpandedLimit)
        <4>1. end.expanded = n + Bulk(ms, D)
          BY <1>14, <2>2
        <4> QED
          BY <1>1, <1>2, <1>6, <1>7, <4>1
      <3>4. end.files = << >> <=> C = {}
        BY <1>16, <2>2
      <3>5. ~result.refused <=> ~over
        BY <1>10, <2>2
      <3> HIDE DEF OneRoot, Proper, n, D, C
      <3> QED
        BY <3>1, <3>2, <3>3, <3>4, <3>5
    <2> QED
      BY <2>1, <2>2
  <1>20. ~result.refused =>
           /\ Len(result.files) = Cardinality(C)
           /\ \A i \in C : result.files[Cardinality({j \in C : j <= i})] = ms[i].path
           /\ result.scanned = Cardinality(E)
           /\ result.skipped = result.scanned - Len(result.files)
    BY <1>10, <1>11, <1>14, <1>15
  <1> HIDE DEF over
  <1> QED
    BY <1>19, <1>20 DEF ArchiveIsExactFor, result

-----------------------------------------------------------------------------
(* Chunking. While the file and its definitions stay, so does what is read off  *)
(* them.                                                                   *)
LEMMA FileStill ==
  ASSUME content' = content, symbols' = symbols
  PROVE  /\ File!Size' = File!Size
         /\ File!Starts' = File!Starts
         /\ \A i : File!Line(i)' = File!Line(i)
         /\ \A n : File!LineStart(n)' = File!LineStart(n)
         /\ \A n : File!Begin(n)' = File!Begin(n)
         /\ \A n : File!End(n)' = File!End(n)
         /\ \A b, e : File!Bytes(b, e)' = File!Bytes(b, e)
         /\ \A n : File!HasRegion(n)' = File!HasRegion(n)
         /\ \A i : File!Owner(i)' = File!Owner(i)
  <1>1. File!Size' = File!Size
    BY DEF File!Size
  <1>2. \A i : File!At(i)' = File!At(i)
    BY DEF File!At
  <1>3. \A i : File!LineOver(i)' = File!LineOver(i)
    BY <1>1, <1>2 DEF File!LineOver
  <1>4. File!Starts' = File!Starts
    BY <1>1, <1>3 DEF File!Starts
  <1>5. \A i : File!Line(i)' = File!Line(i)
    BY <1>4 DEF File!Line
  <1>6. \A n : File!LineStart(n)' = File!LineStart(n)
    BY <1>4, <1>5 DEF File!LineStart
  <1>7. \A n : File!Begin(n)' = File!Begin(n)
    BY <1>6 DEF File!Begin
  <1>8. \A n : File!End(n)' = File!End(n)
    BY <1>1, <1>4, <1>6 DEF File!End
  <1>9. \A b, e : File!Bytes(b, e)' = File!Bytes(b, e)
    BY DEF File!Bytes, File!At, File!Width, File!MapThenSumSet, File!MapThenFoldSet
  <1>10. \A n : File!Ancestors(n)' = File!Ancestors(n)
    BY DEF File!Ancestors
  <1>11. \A n : File!Nested(n)' = File!Nested(n)
    BY DEF File!Nested
  <1>12. \A n : File!HasRegion(n)' = File!HasRegion(n)
    BY <1>10, <1>11 DEF File!HasRegion
  <1>13. \A i : File!Owner(i)' = File!Owner(i)
    BY <1>5, <1>11 DEF File!Owner
  <1> QED
    BY <1>1, <1>4, <1>5, <1>6, <1>7, <1>8, <1>9, <1>12, <1>13

(* The instance counts as the library does.                                  *)
LEMMA FileCounts == \A S : File!Cardinality(S) = Cardinality(S)
  BY DEF File!Cardinality, Cardinality

(* Its greatest and least are those of the library.                          *)
LEMMA FileExtremes == \A S : File!Max(S) = Max(S) /\ File!Min(S) = Min(S)
  BY DEF File!Max, Max, File!Min, Min

(* The greatest of some numbers that have a bound.                           *)
LEMMA GreatestUpTo ==
  ASSUME NEW n \in Nat, NEW s, s \subseteq 0..n, s # {}
  PROVE  Max(s) \in s /\ \A y \in s : y <= Max(s)
  <1> DEFINE B == {n - y : y \in s}
  <1>0. \A y \in s : y \in Nat /\ n - y \in Nat
    OBVIOUS
  <1>1. B \subseteq Nat /\ B # {}
    BY <1>0
  <1>2. PICK b \in B : \A m \in B : b <= m
    <2> HIDE DEF B
    <2> QED
      BY <1>1, LeastNumber
  <1>3. PICK x \in s : b = n - x
    BY <1>2
  <1>4. \A y \in s : x >= y
    <2> SUFFICES ASSUME NEW y \in s PROVE x >= y
      OBVIOUS
    <2>1. n - x <= n - y
      BY <1>2, <1>3
    <2> QED
      BY <1>0, <2>1
  <1> QED
    BY <1>0, <1>4 DEF Max

(* The numbers from 0 to the length of the file at which a line begins.        *)
LEMMA StartsIs ==
  ASSUME content \in Seq(File!Characters)
  PROVE  /\ File!Size \in Nat /\ 0 \in File!Starts /\ File!Starts \subseteq 0..File!Size
         /\ \A i \in 1..File!Size : i \in File!Starts <=> File!LineOver(i)
         /\ IsFiniteSet(File!Starts) /\ Cardinality(File!Starts) \in Nat
  <1>1. File!Size \in Nat
    BY DEF File!Size
  <1>2. 0 \in File!Starts
    BY DEF File!Starts
  <1>3. File!Starts \subseteq 0..File!Size
    BY <1>1 DEF File!Starts
  <1>4. \A i \in 1..File!Size : i \in File!Starts <=> File!LineOver(i)
    BY <1>1 DEF File!Starts
  <1>5. IsFiniteSet(0..File!Size)
    BY <1>1, FS_Interval
  <1>6. IsFiniteSet(File!Starts)
    BY <1>3, <1>5, FS_Subset
  <1> QED
    BY <1>1, <1>2, <1>3, <1>4, <1>6, FS_CardinalityType

(* Lines are counted by their beginnings.                                   *)
LEMMA LineIs ==
  ASSUME content \in Seq(File!Characters)
  PROVE  /\ \A i \in Nat : File!Line(i) \in 1..Cardinality(File!Starts)
         /\ \A i, j \in Nat : i <= j => File!Line(i) <= File!Line(j)
         /\ \A i \in Nat : \A s \in File!Starts : i < s => File!Line(i) < File!Line(s)
  <1> DEFINE S == File!Starts
             Early(i) == {s \in S : s <= i}
  <1>1. S \subseteq Nat /\ 0 \in S /\ IsFiniteSet(S)
    BY StartsIs
  <1>2. ASSUME NEW i \in Nat
        PROVE  File!Line(i) = Cardinality(Early(i)) /\ IsFiniteSet(Early(i))
    <2>1. Early(i) \in SUBSET S
      OBVIOUS
    <2>2. IsFiniteSet(Early(i))
      BY <1>1, <2>1, FS_Subset
    <2> QED
      BY <2>2, FileCounts DEF File!Line
  <1>3. ASSUME NEW i \in Nat, NEW j \in Nat, i <= j PROVE File!Line(i) <= File!Line(j)
    <2>1. Early(i) \in SUBSET Early(j)
      <3> SUFFICES ASSUME NEW x \in S, x <= i PROVE x <= j
        OBVIOUS
      <3>1. x \in Nat
        BY <1>1
      <3> QED
        BY <1>3, <3>1
    <2> HIDE DEF Early
    <2> QED
      BY <1>2, <2>1, FS_Subset
  <1>4. ASSUME NEW i \in Nat PROVE File!Line(i) \in 1..Cardinality(S)
    <2>1. {0} \in SUBSET Early(i) /\ Early(i) \in SUBSET S
      BY <1>1
    <2>2. Cardinality(Early(i)) <= Cardinality(S)
      BY <1>1, <2>1, FS_Subset
    <2>3. Cardinality({0}) = 1
      BY FS_Singleton
    <2> HIDE DEF Early
    <2>4. 1 <= Cardinality(Early(i))
      BY <1>2, <2>1, <2>3, FS_Subset
    <2>5. Cardinality(Early(i)) \in Nat /\ Cardinality(S) \in Nat
      BY <1>1, <1>2, FS_CardinalityType
    <2>6. File!Line(i) = Cardinality(Early(i))
      BY <1>2
    <2> QED
      BY <2>2, <2>4, <2>5, <2>6
  <1>5. ASSUME NEW i \in Nat, NEW s \in S, i < s PROVE File!Line(i) < File!Line(s)
    <2>0. s \in Nat
      BY <1>1
    <2>1. Early(i) \cup {s} \in SUBSET Early(s) /\ s \notin Early(i) /\ s \in Nat
      <3>1. \A x \in S : x <= i => x <= s
        <4> SUFFICES ASSUME NEW x \in S, x <= i PROVE x <= s
          OBVIOUS
        <4>1. x \in Nat
          BY <1>1
        <4> QED
          BY <1>5, <2>0, <4>1
      <3>2. s <= s /\ ~(s <= i)
        BY <1>5, <2>0
      <3> QED
        BY <2>0, <3>1, <3>2
    <2> HIDE DEF Early
    <2>2. Cardinality(Early(i) \cup {s}) <= Cardinality(Early(s))
      BY <1>2, <2>1, FS_Subset
    <2>3. Cardinality(Early(i) \cup {s}) = Cardinality(Early(i)) + 1
      BY <1>2, <2>1, FS_AddElement
    <2>4. Cardinality(Early(i)) \in Nat /\ Cardinality(Early(s)) \in Nat
      BY <1>2, <2>1, FS_CardinalityType
    <2>5. File!Line(i) = Cardinality(Early(i)) /\ File!Line(s) = Cardinality(Early(s))
      BY <1>2, <2>1
    <2> QED
      BY <2>2, <2>3, <2>4, <2>5
  <1> QED
    BY <1>3, <1>4, <1>5

(* Every line has a beginning.                                              *)
LEMMA LineReached ==
  ASSUME content \in Seq(File!Characters)
  PROVE  \A n \in 1..Cardinality(File!Starts) : \E s \in File!Starts : File!Line(s) = n
  <1> DEFINE S == File!Starts
             m == Cardinality(S)
             f == [s \in S |-> File!Line(s)]
  <1>1. S \subseteq Nat /\ IsFiniteSet(S) /\ m \in Nat
    BY StartsIs
  <1>2. \A s \in S : File!Line(s) \in 1..m
    BY <1>1, LineIs
  <1>3. ASSUME NEW a \in S, NEW b \in S, File!Line(a) = File!Line(b) PROVE a = b
    <2>1. a \in Nat /\ b \in Nat /\ File!Line(a) \in Nat
      BY <1>1, <1>2
    <2>2. a < b => File!Line(a) < File!Line(b)
      BY <2>1, LineIs
    <2>3. b < a => File!Line(b) < File!Line(a)
      BY <2>1, LineIs
    <2> QED
      BY <1>3, <2>1, <2>2, <2>3
  <1>4. f \in Injection(S, 1..m)
    BY <1>2, <1>3 DEF Injection, IsInjective
  <1>5. IsFiniteSet(1..m)
    BY <1>1, FS_Interval
  <1>6. Cardinality(1..m) = m
    BY <1>1, FS_Interval
  <1>7. f \in Surjection(S, 1..m)
    <2> HIDE DEF f
    <2>1. Cardinality(S) = Cardinality(1..m)
      BY <1>6
    <2> HIDE DEF m, S
    <2> QED
      BY <1>4, <1>5, <2>1, FS_Injection
  <1> QED
    BY <1>7 DEF Surjection

(* A line has one beginning, and a character is in a line at or below it        *)
(* exactly if it is not before that.                                        *)
LEMMA LineStartIs ==
  ASSUME content \in Seq(File!Characters), NEW n \in 1..Cardinality(File!Starts)
  PROVE  /\ File!LineStart(n) \in File!Starts /\ File!LineStart(n) \in Nat
         /\ \A i \in Nat : n <= File!Line(i) <=> File!LineStart(n) <= i
  <1> DEFINE S == File!Starts
             m == Cardinality(S)
  <1>1. S \subseteq Nat /\ IsFiniteSet(S) /\ m \in Nat
    BY StartsIs
  <1>2. \E s \in S : File!Line(s) = n
    BY LineReached
  <1> DEFINE l == File!LineStart(n)
  <1>3. l \in S /\ File!Line(l) = n
    BY <1>2 DEF File!LineStart
  <1> HIDE DEF l
  <1>4. ASSUME NEW i \in Nat PROVE n <= File!Line(i) <=> l <= i
    <2>0. l \in Nat
      BY <1>1, <1>3
    <2>1. l \in Nat /\ File!Line(i) \in Nat
      <3>1. File!Line(i) \in 1..m
        BY LineIs
      <3> QED
        BY <1>1, <2>0, <3>1
    <2>2. l <= i => File!Line(l) <= File!Line(i)
      BY <2>1, LineIs
    <2>3. i < l => File!Line(i) < File!Line(l)
      BY <1>3, LineIs
    <2> QED
      BY <1>3, <2>1, <2>2, <2>3
  <1> QED
    BY <1>1, <1>3, <1>4 DEF l

-----------------------------------------------------------------------------
(* Definitions. What is known of the definitions of a file that was parsed: they *)
(* stand in the order of their first lines, each below a parent that stands      *)
(* before it and ends no earlier, and those of one parent after one another.    *)
Forest ==
  /\ symbols \in Seq(File!Definitions)
  /\ \A i \in 1..Len(symbols) :
       /\ symbols[i].first <= symbols[i].last /\ symbols[i].parent \in 0..(i - 1)
       /\ \A j \in 1..(i - 1) : symbols[j].first < symbols[i].first
       /\ symbols[i].parent # 0 => symbols[i].last <= symbols[symbols[i].parent].last
       /\ \A j \in 1..(i - 1) : symbols[j].parent = symbols[i].parent => symbols[j].last < symbols[i].first

(* The forests with one definition more.                                     *)
Grown(forests) ==
  UNION {{Append(f, d) : d \in {x \in File!Definitions : File!CanFollow(f, x)}} : f \in forests}

Grows(m, g) == g = [k \in 0..m |-> IF k = 0 THEN {<<>>} ELSE Grown(g[k - 1])]

(* The forests of every number of definitions up to m exist.                  *)
LEMMA GrownExists == ASSUME NEW n \in Nat PROVE \E g : Grows(n, g)
  <1> DEFINE A == {m \in Nat : \E g : Grows(m, g)}
  <1>1. 0 \in A
    <2> DEFINE g == [k \in 0..0 |-> {<<>>}]
    <2>1. g = [k \in 0..0 |-> IF k = 0 THEN {<<>>} ELSE Grown(g[k - 1])]
      OBVIOUS
    <2> HIDE DEF g
    <2>2. Grows(0, g)
      BY <2>1 DEF Grows
    <2> QED
      BY <2>2
  <1>2. ASSUME NEW m \in Nat, m \in A PROVE m + 1 \in A
    <2>1. PICK g : Grows(m, g)
      BY <1>2
    <2>2. g = [k \in 0..m |-> IF k = 0 THEN {<<>>} ELSE Grown(g[k - 1])]
      BY <2>1 DEF Grows
    <2> DEFINE f == [k \in 0..(m + 1) |-> IF k = m + 1 THEN Grown(g[m]) ELSE g[k]]
    <2>3. ASSUME NEW k \in 0..(m + 1)
          PROVE  f[k] = IF k = 0 THEN {<<>>} ELSE Grown(f[k - 1])
      <3>1. CASE k = m + 1
        <4>1. k # 0 /\ k - 1 = m /\ m \in 0..(m + 1) /\ m # m + 1
          BY <3>1
        <4>2. f[k - 1] = g[m]
          BY <4>1
        <4> QED
          BY <3>1, <4>1, <4>2
      <3>2. CASE k # m + 1 /\ k # 0
        <4>1. k \in 0..m /\ k - 1 \in 0..(m + 1) /\ k - 1 # m + 1
          BY <3>2
        <4>2. f[k] = g[k] /\ f[k - 1] = g[k - 1]
          BY <3>2, <4>1
        <4>3. g[k] = Grown(g[k - 1])
          BY <2>2, <3>2, <4>1
        <4> QED
          BY <3>2, <4>2, <4>3
      <3>3. CASE k = 0
        <4>1. 0 \in 0..m /\ 0 \in 0..(m + 1) /\ 0 # m + 1
          OBVIOUS
        <4>2. f[0] = g[0] /\ g[0] = {<<>>}
          BY <2>2, <4>1
        <4> QED
          BY <3>3, <4>2
      <3> QED
        BY <3>1, <3>2, <3>3
    <2>4. f = [k \in 0..(m + 1) |-> f[k]]
      OBVIOUS
    <2> HIDE DEF f
    <2>5. f = [k \in 0..(m + 1) |-> IF k = 0 THEN {<<>>} ELSE Grown(f[k - 1])]
      BY <2>3, <2>4
    <2>6. Grows(m + 1, f)
      BY <2>5 DEF Grows
    <2> QED
      BY <2>6
  <1> HIDE DEF A
  <1>3. Nat \subseteq A
    BY <1>1, <1>2, NumbersByInduction
  <1> QED
    BY <1>3 DEF A

(* Each definition could follow those before it.                             *)
Followed(f) ==
  /\ f \in Seq(File!Definitions)
  /\ \A i \in 1..Len(f) : File!CanFollow(SubSeq(f, 1, i - 1), f[i])

(* A definition that can follow those already parsed leaves a forest.         *)
LEMMA FollowedGrows ==
  ASSUME NEW f, Followed(f), NEW d \in File!Definitions, File!CanFollow(f, d)
  PROVE  Followed(Append(f, d))
  <1> DEFINE g == Append(f, d)
  <1>1. f \in Seq(File!Definitions) /\ Len(f) \in Nat
    BY DEF Followed
  <1>2. g \in Seq(File!Definitions) /\ Len(g) = Len(f) + 1 /\ g[Len(g)] = d
    BY <1>1
  <1>3. \A i \in 1..Len(f) : g[i] = f[i]
    BY <1>1
  <1> HIDE DEF g
  <1>4. ASSUME NEW i \in 1..Len(g) PROVE File!CanFollow(SubSeq(g, 1, i - 1), g[i])
    <2>1. SubSeq(g, 1, i - 1) = SubSeq(f, 1, i - 1)
      <3>1. SubSeq(g, 1, i - 1) = [k \in 1..(i - 1) |-> g[k]]
        BY <1>1, <1>2
      <3>2. SubSeq(f, 1, i - 1) = [k \in 1..(i - 1) |-> f[k]]
        BY <1>1, <1>2
      <3>3. \A k \in 1..(i - 1) : g[k] = f[k]
        BY <1>1, <1>2, <1>3
      <3> QED
        BY <3>1, <3>2, <3>3
    <2>2. CASE i = Len(g)
      <3>1. SubSeq(f, 1, i - 1) = f
        BY <1>1, <1>2, <2>2
      <3> QED
        BY <1>2, <2>1, <2>2, <3>1
    <2>3. CASE i # Len(g)
      <3>1. i \in 1..Len(f)
        BY <1>1, <1>2, <2>3
      <3> QED
        BY <1>3, <2>1, <3>1 DEF Followed
    <2> QED
      BY <2>2, <2>3
  <1> QED
    BY <1>2, <1>4 DEF Followed, g

(* What is parsed is followed definition by definition.                      *)
LEMMA ParsedIsFollowed ==
  ASSUME MaxSymbols \in Nat, symbols \in File!Parsed
  PROVE  Followed(symbols)
  <1>1. PICK h : Grows(MaxSymbols, h)
    BY GrownExists
  <1>2. \E g : /\ Grows(MaxSymbols, g)
               /\ symbols \in UNION {g[k] : k \in 0..MaxSymbols}
    BY <1>1 DEF File!Parsed, Grows, Grown
  <1>3. PICK g : Grows(MaxSymbols, g) /\ symbols \in UNION {g[k] : k \in 0..MaxSymbols}
    BY <1>2
  <1>4. g = [k \in 0..MaxSymbols |-> IF k = 0 THEN {<<>>} ELSE Grown(g[k - 1])]
    BY <1>3 DEF Grows
  <1> DEFINE A == {k \in Nat : k <= MaxSymbols => \A f \in g[k] : Followed(f)}
  <1>5. 0 \in A
    <2>1. g[0] = {<<>>}
      BY <1>4
    <2>2. Followed(<<>>)
      BY DEF Followed
    <2> QED
      BY <2>1, <2>2
  <1>6. ASSUME NEW k \in Nat, k \in A PROVE k + 1 \in A
    <2> SUFFICES ASSUME k + 1 <= MaxSymbols, NEW f \in g[k + 1] PROVE Followed(f)
      OBVIOUS
    <2>1. k + 1 \in 0..MaxSymbols /\ k + 1 # 0 /\ (k + 1) - 1 = k /\ k <= MaxSymbols
      OBVIOUS
    <2>2. g[k + 1] = Grown(g[k])
      BY <1>4, <2>1
    <2>3. PICK e \in g[k], d \in File!Definitions : File!CanFollow(e, d) /\ f = Append(e, d)
      BY <2>2 DEF Grown
    <2>4. Followed(e)
      BY <1>6, <2>1, <2>3
    <2> QED
      BY <2>3, <2>4, FollowedGrows
  <1> HIDE DEF A
  <1>7. Nat \subseteq A
    BY <1>5, <1>6, NumbersByInduction
  <1>8. PICK k \in 0..MaxSymbols : symbols \in g[k]
    BY <1>3
  <1>9. k \in Nat /\ k <= MaxSymbols
    BY <1>8
  <1> QED
    BY <1>7, <1>8, <1>9 DEF A

(* A line at which a definition may begin or end has a beginning in the file.   *)
LEMMA WrittenIs ==
  ASSUME content \in Seq(File!Characters), NEW n \in File!Written
  PROVE  n \in 1..Cardinality(File!Starts) /\ n \in Nat /\ File!LineStart(n) < File!Size
  <1>1. n \in 1..Cardinality(File!Starts) /\ File!LineStart(n) < File!Size
    BY FileCounts DEF File!Written
  <1> QED
    BY <1>1

(* What is parsed is a forest.                                              *)
LEMMA ParsedIsForest ==
  ASSUME MaxSymbols \in Nat, content \in Seq(File!Characters), symbols \in File!Parsed
  PROVE  Forest
  <1> DEFINE n == Len(symbols)
  <1>1. Followed(symbols)
    BY ParsedIsFollowed
  <1>2. symbols \in Seq(File!Definitions) /\ n \in Nat
    BY <1>1 DEF Followed
  <1>3. ASSUME NEW i \in 1..n
        PROVE  /\ symbols[i].first \in Nat /\ symbols[i].last \in Nat /\ symbols[i].parent \in 0..MaxSymbols
               /\ i \in Nat
    <2>1. symbols[i] \in File!Definitions
      BY <1>2
    <2>2. /\ symbols[i].first \in File!Written /\ symbols[i].last \in File!Written
          /\ symbols[i].parent \in 0..MaxSymbols
      BY <2>1 DEF File!Definitions
    <2> QED
      BY <2>2, WrittenIs
  <1>4. ASSUME NEW i \in 1..n
        PROVE  LET f == SubSeq(symbols, 1, i - 1) IN
               f = [k \in 1..(i - 1) |-> symbols[k]] /\ Len(f) = i - 1 /\ DOMAIN f = 1..(i - 1)
    BY <1>2
  <1>5. ASSUME NEW i \in 1..n
        PROVE  /\ symbols[i].first <= symbols[i].last /\ symbols[i].parent <= i - 1
               /\ i # 1 => symbols[i - 1].first < symbols[i].first
               /\ symbols[i].parent # 0 => symbols[i].last <= symbols[symbols[i].parent].last
               /\ \A j \in 1..(i - 1) : symbols[j].parent = symbols[i].parent => symbols[j].last < symbols[i].first
    <2> DEFINE f == SubSeq(symbols, 1, i - 1)
    <2>1. f = [k \in 1..(i - 1) |-> symbols[k]] /\ Len(f) = i - 1 /\ DOMAIN f = 1..(i - 1)
      BY <1>4
    <2> HIDE DEF f
    <2>2. File!CanFollow(f, symbols[i])
      BY <1>1 DEF Followed, f
    <2>3. /\ symbols[i].first <= symbols[i].last /\ symbols[i].parent <= Len(f)
          /\ f # <<>> => f[Len(f)].first < symbols[i].first
          /\ symbols[i].parent # 0 => symbols[i].last <= f[symbols[i].parent].last
          /\ \A j \in DOMAIN f : f[j].parent = symbols[i].parent => f[j].last < symbols[i].first
      BY <2>2 DEF File!CanFollow, File!Last
    <2>4. symbols[i].parent <= i - 1
      BY <2>1, <2>3
    <2>5. i # 1 => symbols[i - 1].first < symbols[i].first
      <3> SUFFICES ASSUME i # 1 PROVE symbols[i - 1].first < symbols[i].first
        OBVIOUS
      <3>1. i - 1 \in 1..(i - 1) /\ Len(f) # 0
        BY <2>1
      <3>2. f # <<>>
        BY <3>1
      <3>3. f[i - 1] = symbols[i - 1]
        BY <2>1, <3>1
      <3> QED
        BY <2>1, <2>3, <3>2, <3>3
    <2>6. symbols[i].parent # 0 => symbols[i].last <= symbols[symbols[i].parent].last
      <3> SUFFICES ASSUME symbols[i].parent # 0
                   PROVE  symbols[i].last <= symbols[symbols[i].parent].last
        OBVIOUS
      <3>1. symbols[i].parent \in 1..(i - 1)
        BY <1>3, <2>4
      <3>2. f[symbols[i].parent] = symbols[symbols[i].parent]
        BY <2>1, <3>1
      <3> QED
        BY <2>3, <3>2
    <2>7. \A j \in 1..(i - 1) : symbols[j].parent = symbols[i].parent => symbols[j].last < symbols[i].first
      <3> SUFFICES ASSUME NEW j \in 1..(i - 1), symbols[j].parent = symbols[i].parent
                   PROVE  symbols[j].last < symbols[i].first
        OBVIOUS
      <3>1. f[j] = symbols[j] /\ j \in DOMAIN f
        BY <2>1
      <3> QED
        BY <2>3, <3>1
    <2> QED
      BY <2>3, <2>4, <2>5, <2>6, <2>7
  <1>6. ASSUME NEW j \in 1..n
        PROVE  \A i \in 1..n : j < i => symbols[j].first < symbols[i].first
    <2> DEFINE A == {k \in Nat : k \in 1..n /\ j < k => symbols[j].first < symbols[k].first}
    <2>1. 0 \in A
      OBVIOUS
    <2>2. ASSUME NEW k \in Nat, k \in A PROVE k + 1 \in A
      <3> SUFFICES ASSUME k + 1 \in 1..n, j < k + 1
                   PROVE  symbols[j].first < symbols[k + 1].first
        OBVIOUS
      <3>1. k \in 1..n /\ j <= k /\ k + 1 # 1 /\ (k + 1) - 1 = k
        BY <1>2, <1>3
      <3>2. symbols[k].first < symbols[k + 1].first
        BY <1>5, <3>1
      <3>3. symbols[j].first \in Nat /\ symbols[k].first \in Nat /\ symbols[k + 1].first \in Nat
        BY <1>3, <3>1
      <3>4. CASE j = k
        BY <3>2, <3>4
      <3>5. CASE j # k
        <4>1. j < k
          BY <1>3, <3>1, <3>5
        <4>2. symbols[j].first < symbols[k].first
          BY <2>2, <3>1, <4>1
        <4> QED
          BY <3>2, <3>3, <4>2
      <3> QED
        BY <3>4, <3>5
    <2> HIDE DEF A
    <2>3. Nat \subseteq A
      BY <2>1, <2>2, NumbersByInduction
    <2>4. ASSUME NEW i \in 1..n, j < i PROVE symbols[j].first < symbols[i].first
      <3>1. i \in A
        BY <1>3, <2>3
      <3> QED
        BY <2>4, <3>1 DEF A
    <2> QED
      BY <2>4
  <1>7. ASSUME NEW i \in 1..n
        PROVE  \A j \in 1..(i - 1) : symbols[j].first < symbols[i].first
    <2> SUFFICES ASSUME NEW j \in 1..(i - 1) PROVE symbols[j].first < symbols[i].first
      OBVIOUS
    <2>1. j \in 1..n /\ j < i
      BY <1>2
    <2> QED
      BY <1>6, <2>1
  <1>8. ASSUME NEW i \in 1..n PROVE symbols[i].parent \in 0..(i - 1)
    BY <1>3, <1>5
  <1> QED
    BY <1>2, <1>5, <1>7, <1>8 DEF Forest

-----------------------------------------------------------------------------
(* Ancestors.                                                              *)
Climbs(m, g) == g = [k \in 0..m |-> IF k = 0 THEN {} ELSE {symbols[k].parent} \cup g[symbols[k].parent]]

(* The definitions around each of the first m definitions exist.              *)
LEMMA ClimbExists ==
  ASSUME Forest, NEW n \in 0..Len(symbols)
  PROVE  \E g : Climbs(n, g)
  <1> DEFINE A == {m \in Nat : m <= Len(symbols) => \E g : Climbs(m, g)}
  <1>0. Len(symbols) \in Nat /\ \A i \in 1..Len(symbols) : symbols[i].parent \in 0..(i - 1)
    BY DEF Forest
  <1>1. 0 \in A
    <2> DEFINE g == [k \in 0..0 |-> {}]
    <2>1. g = [k \in 0..0 |-> IF k = 0 THEN {} ELSE {symbols[k].parent} \cup g[symbols[k].parent]]
      OBVIOUS
    <2> HIDE DEF g
    <2>2. Climbs(0, g)
      BY <2>1 DEF Climbs
    <2> QED
      BY <2>2
  <1>2. ASSUME NEW m \in Nat, m \in A PROVE m + 1 \in A
    <2> SUFFICES ASSUME m + 1 <= Len(symbols) PROVE \E g : Climbs(m + 1, g)
      OBVIOUS
    <2>1. PICK g : Climbs(m, g)
      BY <1>2, <1>0
    <2>2. g = [k \in 0..m |-> IF k = 0 THEN {} ELSE {symbols[k].parent} \cup g[symbols[k].parent]]
      BY <2>1 DEF Climbs
    <2> DEFINE up == {symbols[m + 1].parent} \cup g[symbols[m + 1].parent]
               f == [k \in 0..(m + 1) |-> IF k = m + 1 THEN up ELSE g[k]]
    <2>3. ASSUME NEW k \in 0..(m + 1)
          PROVE  f[k] = IF k = 0 THEN {} ELSE {symbols[k].parent} \cup f[symbols[k].parent]
      <3>1. CASE k = m + 1
        <4>1. m + 1 \in 1..Len(symbols)
          BY <1>0
        <4>2. symbols[m + 1].parent \in 0..((m + 1) - 1)
          BY <1>0, <4>1
        <4>3. /\ k # 0 /\ symbols[k].parent \in 0..(m + 1) /\ symbols[k].parent # m + 1
          BY <3>1, <4>2
        <4>4. f[symbols[k].parent] = g[symbols[k].parent]
          BY <4>3
        <4> QED
          BY <3>1, <4>3, <4>4
      <3>2. CASE k # m + 1 /\ k # 0
        <4>1. k \in 1..Len(symbols) /\ k \in 0..m
          BY <1>0, <3>2
        <4>2. symbols[k].parent \in 0..(k - 1)
          BY <1>0, <4>1
        <4>3. symbols[k].parent \in 0..(m + 1) /\ symbols[k].parent # m + 1
          BY <4>1, <4>2
        <4>4. f[k] = g[k] /\ f[symbols[k].parent] = g[symbols[k].parent]
          BY <3>2, <4>3
        <4>5. g[k] = {symbols[k].parent} \cup g[symbols[k].parent]
          BY <2>2, <3>2, <4>1
        <4> QED
          BY <3>2, <4>4, <4>5
      <3>3. CASE k = 0
        <4>1. 0 \in 0..m /\ 0 \in 0..(m + 1) /\ 0 # m + 1
          OBVIOUS
        <4>2. f[0] = g[0] /\ g[0] = {}
          BY <2>2, <4>1
        <4> QED
          BY <3>3, <4>2
      <3> QED
        BY <3>1, <3>2, <3>3
    <2>4. f = [k \in 0..(m + 1) |-> f[k]]
      OBVIOUS
    <2> HIDE DEF f
    <2>5. Climbs(m + 1, f)
      BY <2>3, <2>4 DEF Climbs
    <2> QED
      BY <2>5
  <1> HIDE DEF A
  <1>3. Nat \subseteq A
    BY <1>1, <1>2, NumbersByInduction
  <1>4. n \in Nat /\ n <= Len(symbols)
    BY <1>0
  <1> QED
    BY <1>3, <1>4 DEF A

(* The definitions around one are its parent and those around that.           *)
LEMMA AncestorsIs ==
  ASSUME Forest, NEW i \in 1..Len(symbols)
  PROVE  /\ symbols[i].parent = 0 => File!Ancestors(i) = {}
         /\ symbols[i].parent # 0 =>
              File!Ancestors(i) = {symbols[i].parent} \cup File!Ancestors(symbols[i].parent)
  <1> DEFINE n == Len(symbols)
  <1>0. n \in Nat /\ n \in 0..n /\ \A k \in 1..n : symbols[k].parent \in 0..(k - 1)
    BY DEF Forest
  <1>1. PICK h : Climbs(n, h)
    BY <1>0, ClimbExists
  <1>2. \E g : Climbs(n, g) /\ \A k : File!Ancestors(k) = g[k] \ {0}
    BY <1>1 DEF File!Ancestors, Climbs
  <1>3. PICK g : Climbs(n, g) /\ \A k : File!Ancestors(k) = g[k] \ {0}
    BY <1>2
  <1>4. g = [k \in 0..n |-> IF k = 0 THEN {} ELSE {symbols[k].parent} \cup g[symbols[k].parent]]
    BY <1>3 DEF Climbs
  <1>5. i \in 0..n /\ i # 0 /\ 0 \in 0..n
    BY <1>0
  <1>6. g[i] = {symbols[i].parent} \cup g[symbols[i].parent] /\ g[0] = {}
    BY <1>4, <1>5
  <1> QED
    BY <1>3, <1>6

(* A definition's ancestors begin before it, end no earlier, and have           *)
(* definitions in them; what is around an ancestor is an ancestor.            *)
Around(a, i) ==
  /\ a \in 1..(i - 1) /\ symbols[a].first < symbols[i].first /\ symbols[i].last <= symbols[a].last
  /\ \E j \in 1..Len(symbols) : symbols[j].parent = a

(* What is around a definition holds all its lines and comes before it.       *)
LEMMA AncestorsAround ==
  ASSUME content \in Seq(File!Characters), Forest
  PROVE  \A i \in 1..Len(symbols) : \A a \in File!Ancestors(i) : Around(a, i)
  <1> DEFINE n == Len(symbols)
             A == {m \in Nat : \A i \in 1..n : i <= m => \A a \in File!Ancestors(i) : Around(a, i)}
  <1>0. n \in Nat /\ \A i \in 1..n : i \in Nat /\ symbols[i].parent \in 0..(i - 1)
    BY DEF Forest
  <1>1. ASSUME NEW i \in 1..n PROVE symbols[i].first \in Nat /\ symbols[i].last \in Nat
    <2>1. symbols[i] \in File!Definitions
      BY DEF Forest
    <2>2. symbols[i].first \in File!Written /\ symbols[i].last \in File!Written
      BY <2>1 DEF File!Definitions
    <2> QED
      BY <2>2, WrittenIs
  <1>2. 0 \in A
    OBVIOUS
  <1>3. ASSUME NEW m \in Nat, m \in A PROVE m + 1 \in A
    <2> SUFFICES ASSUME NEW i \in 1..n, i <= m + 1, NEW a \in File!Ancestors(i) PROVE Around(a, i)
      OBVIOUS
    <2> DEFINE p == symbols[i].parent
    <2>1. p # 0 /\ (a = p \/ a \in File!Ancestors(p))
      BY AncestorsIs
    <2>2. p \in 1..(i - 1) /\ p \in 1..n /\ p <= m
      BY <1>0, <2>1
    <2>3. symbols[p].first < symbols[i].first /\ symbols[i].last <= symbols[p].last
      BY <2>1, <2>2 DEF Forest
    <2>4. Around(p, i)
      BY <2>2, <2>3 DEF Around
    <2>5. CASE a \in File!Ancestors(p)
      <3>1. Around(a, p)
        BY <1>3, <2>2, <2>5
      <3>2. a \in 1..(p - 1) /\ a \in 1..n /\ a \in 1..(i - 1)
        BY <1>0, <2>2, <3>1 DEF Around
      <3>3. /\ symbols[a].first < symbols[p].first /\ symbols[p].last <= symbols[a].last
            /\ \E j \in 1..Len(symbols) : symbols[j].parent = a
        BY <3>1 DEF Around
      <3>4. /\ symbols[a].first \in Nat /\ symbols[p].first \in Nat /\ symbols[i].first \in Nat
            /\ symbols[a].last \in Nat /\ symbols[p].last \in Nat /\ symbols[i].last \in Nat
        BY <1>1, <2>2, <3>2
      <3>5. symbols[a].first < symbols[i].first /\ symbols[i].last <= symbols[a].last
        BY <2>3, <3>3, <3>4
      <3> QED
        BY <3>2, <3>3, <3>5 DEF Around
    <2> QED
      BY <2>1, <2>4, <2>5
  <1> HIDE DEF A
  <1>4. Nat \subseteq A
    BY <1>2, <1>3, NumbersByInduction
  <1>5. n \in A
    BY <1>0, <1>4
  <1> QED
    BY <1>0, <1>5 DEF A

(* Of two definitions the later one lies in the earlier one or below it.       *)
LEMMA Laminar ==
  ASSUME content \in Seq(File!Characters), Forest
  PROVE  \A i \in 1..Len(symbols) : \A j \in 1..(i - 1) :
           j \in File!Ancestors(i) \/ symbols[j].last < symbols[i].first
  <1> DEFINE n == Len(symbols)
             Apart(j, i) == j \in File!Ancestors(i) \/ symbols[j].last < symbols[i].first
             A == {m \in Nat : \A i \in 1..n : i <= m => \A j \in 1..(i - 1) : Apart(j, i)}
  <1>0. n \in Nat /\ \A i \in 1..n : i \in Nat /\ symbols[i].parent \in 0..(i - 1)
    BY DEF Forest
  <1>1. ASSUME NEW i \in 1..n
        PROVE  symbols[i].first \in Nat /\ symbols[i].last \in Nat /\ symbols[i].first <= symbols[i].last
    <2>1. symbols[i] \in File!Definitions
      BY DEF Forest
    <2>2. symbols[i].first \in File!Written /\ symbols[i].last \in File!Written
      BY <2>1 DEF File!Definitions
    <2>3. symbols[i].first <= symbols[i].last
      BY DEF Forest
    <2> QED
      BY <2>2, <2>3, WrittenIs
  <1>2. 0 \in A
    OBVIOUS
  <1>3. ASSUME NEW m \in Nat, m \in A PROVE m + 1 \in A
    <2> SUFFICES ASSUME NEW i \in 1..n, i <= m + 1 PROVE \A j \in 1..(i - 1) : Apart(j, i)
      OBVIOUS
    <2> DEFINE p == symbols[i].parent
               B == {k \in Nat : \A j \in 1..(i - 1) : j <= k => Apart(j, i)}
    <2>1. p \in 0..(i - 1) /\ i \in Nat
      BY <1>0
    <2>2. ASSUME NEW j \in 1..(i - 1), NEW k \in Nat, k \in B, j = k + 1 PROVE Apart(j, i)
      <3> DEFINE q == symbols[j].parent
      <3>0. j \in 1..n /\ j < i /\ j <= m /\ q \in 0..(j - 1) /\ j \in Nat
        BY <1>0, <2>1
      <3>1. CASE p = j
        BY <3>0, <3>1, AncestorsIs
      <3>2. CASE p > j
        <4>1. p \in 1..n /\ p <= m /\ j \in 1..(p - 1) /\ p # 0
          BY <1>0, <2>1, <3>0, <3>2
        <4>2. Apart(j, p)
          BY <1>3, <4>1
        <4>3. CASE j \in File!Ancestors(p)
          BY <4>1, <4>3, AncestorsIs
        <4>4. CASE symbols[j].last < symbols[p].first
          <5>1. symbols[p].first < symbols[i].first
            BY <2>1, <4>1 DEF Forest
          <5>2. symbols[j].last \in Nat /\ symbols[p].first \in Nat /\ symbols[i].first \in Nat
            BY <1>1, <3>0, <4>1
          <5> QED
            BY <4>4, <5>1, <5>2
        <4> QED
          BY <4>2, <4>3, <4>4
      <3>3. CASE p < j
        <4>1. CASE q = p
          <5>1. symbols[j].last < symbols[i].first
            BY <4>1 DEF Forest
          <5> QED
            BY <5>1
        <4>2. CASE q > p
          <5>1. q \in 1..n /\ q \in 1..(i - 1) /\ q <= k
            BY <1>0, <2>1, <2>2, <3>0, <4>2
          <5>2. Apart(q, i)
            BY <2>2, <5>1
          <5>3. q \notin File!Ancestors(i)
            <6> SUFFICES ASSUME q \in File!Ancestors(i) PROVE FALSE
              OBVIOUS
            <6>1. p # 0 /\ (q = p \/ q \in File!Ancestors(p))
              BY AncestorsIs
            <6>2. q \in File!Ancestors(p) /\ p \in 1..n
              BY <1>0, <2>1, <4>2, <5>1, <6>1
            <6>3. q \in 1..(p - 1)
              BY <6>2, AncestorsAround DEF Around
            <6> QED
              BY <2>1, <4>2, <6>3
          <5>4. symbols[q].last < symbols[i].first
            BY <5>2, <5>3
          <5>5. symbols[j].last <= symbols[q].last
            <6>1. q # 0
              BY <5>1
            <6> QED
              BY <3>0, <6>1 DEF Forest
          <5>6. symbols[j].last \in Nat /\ symbols[q].last \in Nat /\ symbols[i].first \in Nat
            BY <1>1, <3>0, <5>1
          <5> QED
            BY <5>4, <5>5, <5>6
        <4>3. CASE q < p
          <5>1. p # 0 /\ p \in 1..(j - 1) /\ p \in 1..n
            BY <1>0, <2>1, <3>0, <3>3, <4>3
          <5>2. Apart(p, j)
            BY <1>3, <3>0, <5>1
          <5>3. p \notin File!Ancestors(j)
            <6> SUFFICES ASSUME p \in File!Ancestors(j) PROVE FALSE
              OBVIOUS
            <6>1. q # 0 /\ (p = q \/ p \in File!Ancestors(q))
              BY <3>0, AncestorsIs
            <6>2. p \in File!Ancestors(q) /\ q \in 1..n
              BY <1>0, <3>0, <4>3, <5>1, <6>1
            <6>3. p \in 1..(q - 1)
              BY <6>2, AncestorsAround DEF Around
            <6> QED
              BY <3>0, <4>3, <6>3
          <5>4. symbols[p].last < symbols[j].first
            BY <5>2, <5>3
          <5>5. symbols[i].last <= symbols[p].last
            BY <5>1 DEF Forest
          <5>6. symbols[j].first < symbols[i].first
            BY DEF Forest
          <5>7. /\ symbols[p].last \in Nat /\ symbols[j].first \in Nat /\ symbols[i].last \in Nat
                /\ symbols[i].first \in Nat /\ symbols[i].first <= symbols[i].last
            BY <1>1, <3>0, <5>1
          <5> QED
            BY <5>4, <5>5, <5>6, <5>7
        <4> QED
          BY <2>1, <3>0, <4>1, <4>2, <4>3
      <3> QED
        BY <2>1, <3>0, <3>1, <3>2, <3>3
    <2>3. 0 \in B
      OBVIOUS
    <2>4. ASSUME NEW k \in Nat, k \in B PROVE k + 1 \in B
      <3> SUFFICES ASSUME NEW j \in 1..(i - 1), j <= k + 1 PROVE Apart(j, i)
        OBVIOUS
      <3> HIDE DEF Apart
      <3>1. CASE j = k + 1
        <4> HIDE DEF B
        <4> QED
          BY <2>2, <2>4, <3>1
      <3>2. CASE j # k + 1
        <4>1. j <= k
          BY <2>1, <3>2
        <4> QED
          BY <2>4, <4>1
      <3> QED
        BY <3>1, <3>2
    <2> HIDE DEF B
    <2>5. Nat \subseteq B
      BY <2>3, <2>4, NumbersByInduction
    <2>6. i \in B
      BY <2>1, <2>5
    <2> HIDE DEF Apart
    <2> QED
      BY <2>1, <2>6 DEF B
  <1> HIDE DEF A
  <1>4. Nat \subseteq A
    BY <1>2, <1>3, NumbersByInduction
  <1>5. n \in A
    BY <1>0, <1>4
  <1> QED
    BY <1>0, <1>5 DEF A

-----------------------------------------------------------------------------
(* Regions. What a definition holds of the file: it begins and ends with lines, *)
(* is not empty, and has the characters of its lines.                        *)
LEMMA RegionSpan ==
  ASSUME content \in Seq(File!Characters), Forest, NEW s \in 1..Len(symbols)
  PROVE  /\ File!Begin(s) \in File!Starts /\ File!Begin(s) \in Nat /\ File!End(s) \in Nat
         /\ File!Begin(s) < File!End(s) /\ File!End(s) <= File!Size
         /\ File!End(s) \in File!Starts \cup {File!Size}
         /\ symbols[s].first \in Nat /\ symbols[s].last \in Nat
         /\ File!Line(File!Begin(s)) = symbols[s].first
         /\ File!Line(File!End(s) - 1) = symbols[s].last
         /\ \A i \in 0..(File!Size - 1) :
              File!Line(i) \in symbols[s].first..symbols[s].last <=> File!Begin(s) <= i /\ i < File!End(s)
  <1> DEFINE m == Cardinality(File!Starts)
             first == symbols[s].first
             last == symbols[s].last
             b == File!Begin(s)
             e == File!End(s)
             N == File!Size
  <1>1. /\ N \in Nat /\ File!Starts \subseteq 0..N /\ m \in Nat
    BY StartsIs
  <1>2. /\ first \in 1..m /\ last \in 1..m /\ first \in Nat /\ last \in Nat /\ first <= last
        /\ File!LineStart(last) < N
    <2>1. symbols[s] \in File!Definitions /\ first <= last
      BY DEF Forest
    <2>2. symbols[s].first \in File!Written /\ symbols[s].last \in File!Written
      BY <2>1 DEF File!Definitions
    <2> QED
      BY <2>1, <2>2, WrittenIs
  <1>3. b \in File!Starts /\ b \in Nat /\ \A i \in Nat : first <= File!Line(i) <=> b <= i
    BY <1>2, LineStartIs DEF File!Begin
  <1>4. File!LineStart(last) \in Nat /\ \A i \in Nat : last <= File!Line(i) <=> File!LineStart(last) <= i
    BY <1>2, LineStartIs
  <1>5. ASSUME NEW i \in Nat PROVE File!Line(i) \in Nat /\ File!Line(i) <= m
    <2>1. File!Line(i) \in 1..m
      BY LineIs
    <2> QED
      BY <1>1, <2>1
  <1>6. /\ e \in Nat /\ e <= N /\ e \in File!Starts \cup {N}
        /\ \A i \in 0..(N - 1) : File!Line(i) <= last <=> i < e
        /\ File!LineStart(last) < e
    <2>1. CASE last < m
      <3>1. last + 1 \in 1..m
        BY <1>1, <1>2, <2>1
      <3>2. e = File!LineStart(last + 1)
        BY <2>1, FileCounts DEF File!End
      <3>3. e \in File!Starts /\ e \in Nat /\ \A i \in Nat : last + 1 <= File!Line(i) <=> e <= i
        BY <3>1, <3>2, LineStartIs
      <3>4. e <= N
        BY <1>1, <3>3
      <3>5. ASSUME NEW i \in 0..(N - 1) PROVE File!Line(i) <= last <=> i < e
        <4>0. i \in Nat
          BY <1>1
        <4>1. i \in Nat /\ File!Line(i) \in Nat /\ last \in Nat
          BY <1>2, <1>5, <4>0
        <4>2. last + 1 <= File!Line(i) <=> e <= i
          BY <3>3, <4>1
        <4> HIDE DEF last, e
        <4> QED
          BY <3>3, <4>1, <4>2
      <3>6. File!LineStart(last) < e
        <4>1. File!Line(e) >= last + 1
          BY <3>3
        <4>2. File!Line(e) \in Nat
          BY <1>5, <3>3
        <4>3. File!LineStart(last) <= e
          BY <1>2, <1>4, <3>3, <4>1, <4>2
        <4>4. File!LineStart(last) # e
          <5>1. ~(last + 1 <= File!Line(File!LineStart(last)))
            <6> DEFINE l == File!LineStart(last)
            <6>1. l \in Nat /\ l \in File!Starts
              BY <1>2, LineStartIs
            <6>2. l < N
              BY <1>2
            <6> SUFFICES ASSUME last + 1 <= File!Line(l) PROVE FALSE
              OBVIOUS
            <6>3. \A k \in 1..m : \E t \in File!Starts : File!Line(t) = k
              BY LineReached
            <6>4. PICK t \in File!Starts : File!Line(t) = last
              BY <1>2, <6>3
            <6>5. t \in Nat
              BY <1>1, <6>4
            <6>6. last <= File!Line(t)
              BY <1>2, <6>4
            <6>7. l <= t
              BY <1>4, <6>5, <6>6
            <6>8. File!Line(l) <= File!Line(t)
              BY <6>1, <6>5, <6>7, LineIs
            <6>9. File!Line(l) \in Nat
              BY <1>5, <6>1
            <6> HIDE DEF l, last
            <6> QED
              BY <1>2, <6>4, <6>8, <6>9
          <5> QED
            BY <4>1, <5>1
        <4> QED
          BY <1>4, <3>3, <4>3, <4>4
      <3> QED
        BY <3>3, <3>4, <3>5, <3>6
    <2>2. CASE ~(last < m)
      <3>1. e = N
        BY <2>2, FileCounts DEF File!End
      <3>2. last = m
        BY <1>1, <1>2, <2>2
      <3>3. \A i \in 0..(N - 1) : File!Line(i) <= last /\ i < e
        BY <1>1, <1>5, <3>1, <3>2
      <3> QED
        BY <1>1, <1>2, <3>1, <3>3
    <2> QED
      BY <2>1, <2>2
  <1>7. ASSUME NEW i \in 0..(N - 1)
        PROVE  File!Line(i) \in first..last <=> b <= i /\ i < e
    <2>0. i \in Nat
      BY <1>1
    <2>1. i \in Nat /\ File!Line(i) \in Nat
      BY <1>5, <2>0
    <2>2. first <= File!Line(i) <=> b <= i
      BY <1>3, <2>1
    <2>3. File!Line(i) <= last <=> i < e
      BY <1>6
    <2> HIDE DEF first, last, b, e
    <2> QED
      BY <1>2, <2>1, <2>2, <2>3
  <1>8. b <= File!LineStart(last) /\ b < e
    <2>0. File!LineStart(last) \in Nat /\ File!LineStart(last) <= File!LineStart(last)
      BY <1>4
    <2>1. File!Line(File!LineStart(last)) \in Nat /\ last <= File!Line(File!LineStart(last))
      BY <1>4, <1>5, <2>0, Zenon
    <2>2. first <= File!Line(File!LineStart(last))
      BY <1>2, <2>1
    <2>3. b <= File!LineStart(last)
      BY <1>3, <1>4, <2>2
    <2> QED
      BY <1>3, <1>4, <1>6, <2>3
  <1>9. File!Line(b) = first
    <2>1. PICK t \in File!Starts : File!Line(t) = first
      BY <1>2, LineReached
    <2>2. t \in Nat
      BY <1>1, <2>1
    <2>3. b <= t
      BY <1>2, <1>3, <2>1, <2>2
    <2>4. File!Line(b) <= File!Line(t)
      BY <1>3, <2>2, <2>3, LineIs
    <2>0. b \in Nat /\ b <= b
      BY <1>3
    <2>5. first <= File!Line(b) /\ File!Line(b) \in Nat
      BY <1>3, <1>5, <2>0, Zenon
    <2> HIDE DEF b, first
    <2> QED
      BY <1>2, <2>1, <2>4, <2>5
  <1>10. File!Line(e - 1) = last
    <2>1. e - 1 \in 0..(N - 1) /\ e - 1 \in Nat /\ e - 1 < e /\ File!LineStart(last) <= e - 1
      BY <1>1, <1>3, <1>4, <1>6, <1>8
    <2>2. File!Line(e - 1) <= last
      BY <1>6, <2>1
    <2>3. last <= File!Line(e - 1)
      BY <1>4, <2>1
    <2>4. File!Line(e - 1) \in Nat
      BY <1>5, <2>1
    <2> HIDE DEF e, last
    <2> QED
      BY <1>2, <2>2, <2>3, <2>4
  <1> QED
    BY <1>2, <1>3, <1>6, <1>7, <1>8, <1>9, <1>10

(* Regions lie after one another.                                           *)
LEMMA RegionsApart ==
  ASSUME content \in Seq(File!Characters), Forest,
         NEW s \in File!Regions, NEW t \in File!Regions, s < t
  PROVE  File!End(s) <= File!Begin(t)
  <1>0. s \in 1..Len(symbols) /\ t \in 1..Len(symbols) /\ File!HasRegion(s) /\ File!HasRegion(t)
    BY DEF File!Regions, Forest
  <1>1. s \in 1..(t - 1)
    BY <1>0 DEF Forest
  <1>2. s \notin File!Ancestors(t)
    <2> SUFFICES ASSUME s \in File!Ancestors(t) PROVE FALSE
      OBVIOUS
    <2>1. symbols[s].kind # "def"
      BY <1>0 DEF File!HasRegion
    <2>2. Around(s, t)
      BY <1>0, AncestorsAround
    <2>3. File!Nested(s)
      BY <2>2 DEF Around, File!Nested, Forest
    <2>4. symbols[s] \in File!Definitions
      BY <1>0 DEF Forest
    <2>5. symbols[s].kind = "class"
      BY <2>1, <2>4 DEF File!Definitions
    <2> QED
      BY <1>0, <2>3, <2>5 DEF File!HasRegion
  <1>3. symbols[s].last < symbols[t].first
    BY <1>0, <1>1, <1>2, Laminar
  <1> DEFINE b == File!Begin(t)
             e == File!End(s)
  <1>4. b \in Nat /\ e \in Nat /\ b < File!Size /\ File!Size \in Nat
    <2>1. b \in Nat /\ b < File!End(t) /\ File!End(t) <= File!Size /\ File!End(t) \in Nat
      BY <1>0, RegionSpan
    <2>2. e \in Nat /\ File!Size \in Nat
      BY <1>0, RegionSpan, StartsIs
    <2> HIDE DEF b, e
    <2> QED
      BY <2>1, <2>2
  <1>5. File!Line(b) = symbols[t].first /\ symbols[t].first \in Nat
    BY <1>0, RegionSpan
  <1>6. \A i \in 0..(File!Size - 1) :
          File!Line(i) \in symbols[s].first..symbols[s].last <=> File!Begin(s) <= i /\ i < e
    BY <1>0, RegionSpan
  <1>7. symbols[s].first \in Nat /\ symbols[s].last \in Nat
    BY <1>0, RegionSpan
  <1>8. b \in 0..(File!Size - 1) /\ ~(File!Line(b) \in symbols[s].first..symbols[s].last)
    BY <1>3, <1>4, <1>5, <1>7
  <1>9. ~(File!Begin(s) <= b /\ b < e)
    BY <1>6, <1>8
  <1>10. File!Begin(s) <= b
    <2>1. File!Line(File!Begin(s)) = symbols[s].first /\ File!Begin(s) \in Nat
      BY <1>0, RegionSpan
    <2>2. symbols[s].first < symbols[t].first
      BY <1>0, <1>1 DEF Forest
    <2>3. b <= File!Begin(s) => File!Line(b) <= File!Line(File!Begin(s))
      BY <1>4, <2>1, LineIs
    <2>4. ~(File!Line(b) <= File!Line(File!Begin(s)))
      BY <1>5, <1>7, <2>1, <2>2
    <2> HIDE DEF b
    <2> QED
      BY <1>4, <2>1, <2>3, <2>4
  <1> HIDE DEF b, e
  <1>11. e <= b
    BY <1>4, <1>9, <1>10
  <1> QED
    BY <1>11 DEF b, e

(* The definitions whose lines hold a character.                              *)
Holders(i) == {s \in 1..Len(symbols) : File!Line(i) \in symbols[s].first..symbols[s].last}

(* Of two of them the earlier one is around the later one.                    *)
LEMMA HoldersNest ==
  ASSUME content \in Seq(File!Characters), Forest, NEW i \in 0..(File!Size - 1),
         NEW s \in Holders(i), NEW t \in Holders(i), s < t
  PROVE  s \in File!Ancestors(t)
  <1>1. s \in 1..Len(symbols) /\ t \in 1..Len(symbols) /\ s \in 1..(t - 1)
    BY DEF Holders, Forest
  <1>2. s \in File!Ancestors(t) \/ symbols[s].last < symbols[t].first
    BY <1>1, Laminar
  <1>3. /\ File!Line(i) \in symbols[s].first..symbols[s].last
        /\ File!Line(i) \in symbols[t].first..symbols[t].last
    BY DEF Holders
  <1>4. symbols[s].last \in Nat /\ symbols[t].first \in Nat /\ symbols[s].first \in Nat
        /\ symbols[t].last \in Nat
    BY <1>1, RegionSpan
  <1> QED
    BY <1>2, <1>3, <1>4

(* What is around a holder is a holder.                                      *)
LEMMA HoldersUp ==
  ASSUME content \in Seq(File!Characters), Forest, NEW i \in 0..(File!Size - 1),
         NEW t \in Holders(i), NEW s \in File!Ancestors(t)
  PROVE  s \in Holders(i) /\ s < t /\ File!Nested(s)
  <1>1. t \in 1..Len(symbols) /\ File!Line(i) \in symbols[t].first..symbols[t].last
    BY DEF Holders
  <1>2. Around(s, t)
    BY <1>1, AncestorsAround
  <1>3. s \in 1..(t - 1) /\ s \in 1..Len(symbols) /\ s < t
    BY <1>1, <1>2 DEF Around, Forest
  <1>4. symbols[s].first < symbols[t].first /\ symbols[t].last <= symbols[s].last
    BY <1>2 DEF Around
  <1>5. symbols[s].last \in Nat /\ symbols[t].first \in Nat /\ symbols[s].first \in Nat
        /\ symbols[t].last \in Nat
    BY <1>1, <1>3, RegionSpan
  <1>6. File!Line(i) \in symbols[s].first..symbols[s].last
    BY <1>1, <1>4, <1>5
  <1>7. File!Nested(s)
    BY <1>2 DEF Around, File!Nested, Forest
  <1> QED
    BY <1>3, <1>6, <1>7 DEF Holders

(* The one among the holders that has a region, if there is one, owns the        *)
(* character, and only a region owns it.                                      *)
LEMMA OwnerIs ==
  ASSUME content \in Seq(File!Characters), Forest, NEW i \in 0..(File!Size - 1)
  PROVE  /\ \A s \in Holders(i) : File!HasRegion(s) => File!Owner(i) = s
         /\ File!Owner(i) # 0 => File!Owner(i) \in Holders(i) /\ File!HasRegion(File!Owner(i))
  <1> DEFINE H == Holders(i)
             D == {s \in H : symbols[s].kind = "def"}
  <1>0. H \subseteq 1..Len(symbols) /\ Len(symbols) \in Nat /\ H \subseteq 0..Len(symbols) /\ H \subseteq Nat
    BY DEF Holders, Forest
  <1>1. \A s \in H : symbols[s].kind = "class" \/ symbols[s].kind = "def"
    <2> SUFFICES ASSUME NEW s \in H PROVE symbols[s].kind = "class" \/ symbols[s].kind = "def"
      OBVIOUS
    <2>1. symbols[s] \in File!Definitions
      BY <1>0 DEF Forest
    <2> QED
      BY <2>1 DEF File!Definitions
  <1>2. File!Owner(i) = IF D # {} THEN Min(D)
                        ELSE IF H # {} /\ ~File!Nested(Max(H)) THEN Max(H) ELSE 0
    <2>1. H = {s \in DOMAIN symbols : File!Line(i) \in symbols[s].first..symbols[s].last}
      BY DEF Holders, Forest
    <2> QED
      BY <2>1, FileExtremes DEF File!Owner
  <1>3. D # {} => Min(D) \in D /\ \A y \in D : Min(D) <= y
    <2>1. D \in SUBSET Nat
      BY <1>0
    <2> HIDE DEF D
    <2> QED
      BY <2>1, Least
  <1>4. H # {} => Max(H) \in H /\ \A y \in H : y <= Max(H)
    <2> HIDE DEF H
    <2> QED
      BY <1>0, GreatestUpTo
  <1>5. \A s \in H, t \in H : s < t => s \in File!Ancestors(t)
    BY HoldersNest
  <1>6. \A t \in H : \A s \in File!Ancestors(t) : s \in H /\ s < t /\ File!Nested(s)
    BY HoldersUp
  <1>7. \A s \in H : s \in Nat
    BY <1>0
  <1>8. ASSUME NEW s \in H, File!HasRegion(s) PROVE File!Owner(i) = s
    <2>1. /\ \A a \in File!Ancestors(s) : symbols[a].kind # "def"
          /\ ~(symbols[s].kind = "class" /\ File!Nested(s))
      BY <1>8 DEF File!HasRegion
    <2>2. CASE D # {}
      <3> DEFINE d == Min(D)
      <3>1. d \in H /\ symbols[d].kind = "def" /\ \A y \in D : d <= y
        BY <1>3, <2>2
      <3> HIDE DEF d
      <3>2. ~(d < s)
        BY <1>5, <2>1, <3>1
      <3>3. ~(s < d)
        <4> SUFFICES ASSUME s < d PROVE FALSE
          OBVIOUS
        <4>1. s \in File!Ancestors(d)
          BY <1>5, <3>1
        <4>2. File!Nested(s)
          BY <1>6, <3>1, <4>1
        <4>3. symbols[s].kind = "def"
          BY <1>1, <2>1, <4>2
        <4>4. d <= s
          BY <3>1, <4>3
        <4>5. d \in Nat /\ s \in Nat
          BY <1>7, <3>1
        <4> QED
          BY <4>4, <4>5
      <3>4. d = s
        <4>1. d \in Nat /\ s \in Nat
          BY <1>7, <3>1
        <4> QED
          BY <3>2, <3>3, <4>1
      <3> QED
        BY <1>2, <2>2, <3>4 DEF d
    <2>3. CASE D = {}
      <3> DEFINE m == Max(H)
      <3>1. m \in H /\ s <= m
        BY <1>4
      <3> HIDE DEF m
      <3>2. ~(s < m)
        <4> SUFFICES ASSUME s < m PROVE FALSE
          OBVIOUS
        <4>1. s \in File!Ancestors(m)
          BY <1>5, <3>1
        <4>2. File!Nested(s)
          BY <1>6, <3>1, <4>1
        <4>3. symbols[s].kind = "def"
          BY <1>1, <2>1, <4>2
        <4> QED
          BY <2>3, <4>3
      <3>3. m = s
        <4>1. m \in Nat /\ s \in Nat
          BY <1>7, <3>1
        <4> QED
          BY <3>1, <3>2, <4>1
      <3>4. symbols[s].kind = "class"
        BY <1>1, <2>3
      <3>5. ~File!Nested(m)
        BY <2>1, <3>3, <3>4
      <3> QED
        BY <1>2, <2>3, <3>3, <3>5 DEF m
    <2> QED
      BY <2>2, <2>3
  <1>9. ASSUME File!Owner(i) # 0
        PROVE  File!Owner(i) \in H /\ File!HasRegion(File!Owner(i))
    <2>1. CASE D # {}
      <3> DEFINE d == Min(D)
      <3>1. d \in H /\ symbols[d].kind = "def" /\ \A y \in D : d <= y
        BY <1>3, <2>1
      <3>2. File!Owner(i) = d
        BY <1>2, <2>1
      <3> HIDE DEF d
      <3>3. \A a \in File!Ancestors(d) : symbols[a].kind # "def"
        <4> SUFFICES ASSUME NEW a \in File!Ancestors(d), symbols[a].kind = "def" PROVE FALSE
          OBVIOUS
        <4>1. a \in H /\ a < d
          BY <1>6, <3>1
        <4>2. d <= a
          BY <3>1, <4>1
        <4>3. a \in Nat /\ d \in Nat
          BY <1>7, <3>1, <4>1
        <4> QED
          BY <4>1, <4>2, <4>3
      <3>4. File!HasRegion(d)
        BY <3>1, <3>3 DEF File!HasRegion
      <3> QED
        BY <3>1, <3>2, <3>4
    <2>2. CASE D = {}
      <3> DEFINE m == Max(H)
      <3>1. H # {} /\ ~File!Nested(m) /\ File!Owner(i) = m
        BY <1>2, <1>9, <2>2
      <3>2. m \in H
        BY <1>4, <3>1
      <3> HIDE DEF m
      <3>3. \A a \in File!Ancestors(m) : symbols[a].kind # "def"
        BY <1>6, <2>2, <3>2
      <3>4. File!HasRegion(m)
        BY <3>1, <3>3 DEF File!HasRegion
      <3> QED
        BY <3>1, <3>2, <3>4
    <2> QED
      BY <2>1, <2>2
  <1> QED
    BY <1>8, <1>9

(* A character is owned by the region it lies in.                             *)
LEMMA OwnerRegion ==
  ASSUME content \in Seq(File!Characters), Forest, NEW i \in 0..(File!Size - 1)
  PROVE  /\ \A s \in File!Regions : File!Begin(s) <= i /\ i < File!End(s) => File!Owner(i) = s
         /\ File!Owner(i) # 0 =>
              LET s == File!Owner(i) IN s \in File!Regions /\ File!Begin(s) <= i /\ i < File!End(s)
  <1>1. \A s \in 1..Len(symbols) : s \in Holders(i) <=> File!Begin(s) <= i /\ i < File!End(s)
    BY RegionSpan DEF Holders
  <1>2. \A s : s \in File!Regions <=> s \in 1..Len(symbols) /\ File!HasRegion(s)
    BY DEF File!Regions, Forest
  <1>3. Holders(i) \subseteq 1..Len(symbols)
    BY DEF Holders
  <1> QED
    BY <1>1, <1>2, <1>3, OwnerIs

-----------------------------------------------------------------------------
(* Cuts. The bytes of some characters are a sum of their widths.               *)
Widths == [i \in 0..(File!Size - 1) |-> File!Width(File!At(i))]

WidthSums(S, g) ==
  g = [s \in SUBSET S |-> IF s = {} THEN 0 ELSE File!Width(File!At(One(s))) + g[s \ {One(s)}]]

(* Two sums of the same numbers are the same.                                *)
LEMMA SumsAgree ==
  ASSUME NEW S, IsFiniteSet(S), NEW f, \A x \in S : f[x] \in Nat, NEW g, NEW h,
         Sums(S, f, g), Sums(S, f, h)
  PROVE  g[S] = h[S]
  <1>1. S \in SUBSET S
    OBVIOUS
  <1>2. \A s \in SUBSET S : g[s] = h[s]
    BY <1>1, SumUnique
  <1> QED
    BY <1>1, <1>2

(* The bytes of some characters are a sum of widths, each of one to four.       *)
LEMMA BytesAre ==
  ASSUME content \in Seq(File!Characters), NEW b \in Nat, NEW e \in Nat, e <= File!Size
  PROVE  /\ File!Bytes(b, e) = Tokens(b..(e - 1), Widths)
         /\ b..(e - 1) \subseteq 0..(File!Size - 1)
         /\ \A i \in 0..(File!Size - 1) : Widths[i] \in 1..4
         /\ IsFiniteSet(0..(File!Size - 1))
  <1> DEFINE S == b..(e - 1)
             N == File!Size
  <1>0. N \in Nat
    BY StartsIs
  <1>1. S \subseteq 0..(N - 1)
    BY <1>0
  <1>2. \A i \in 0..(N - 1) : Widths[i] \in 1..4 /\ Widths[i] = File!Width(File!At(i)) /\ Widths[i] \in Nat
    BY DEF Widths, File!Width
  <1>3. IsFiniteSet(0..(N - 1))
    BY <1>0, FS_Interval
  <1>4. IsFiniteSet(S)
    BY <1>1, <1>3, FS_Subset
  <1>5. \A x \in S : Widths[x] \in Nat /\ Widths[x] = File!Width(File!At(x))
    BY <1>1, <1>2
  <1>6. \A g : Sums(S, Widths, g) <=> WidthSums(S, g)
    <2> SUFFICES ASSUME NEW g PROVE Sums(S, Widths, g) <=> WidthSums(S, g)
      OBVIOUS
    <2>1. \A s \in SUBSET S : s # {} => One(s) \in S
      BY DEF One
    <2>2. [s \in SUBSET S |-> IF s = {} THEN 0 ELSE File!Width(File!At(One(s))) + g[s \ {One(s)}]]
          = [s \in SUBSET S |-> IF s = {} THEN 0 ELSE Widths[One(s)] + g[s \ {One(s)}]]
      BY <1>5, <2>1
    <2> QED
      BY <2>2 DEF Sums, WidthSums
  <1>7. \E g : Sums(S, Widths, g)
    BY <1>4, <1>5, SumExists, Zenon
  <1>8. \E g : WidthSums(S, g) /\ File!Bytes(b, e) = g[S]
    <2>1. \E g : WidthSums(S, g)
      BY <1>6, <1>7
    <2> QED
      BY <2>1 DEF WidthSums, One, File!Bytes, File!MapThenSumSet, File!MapThenFoldSet
  <1>9. \E g : Sums(S, Widths, g) /\ Tokens(S, Widths) = g[S]
    BY <1>7 DEF Sums, One, Tokens, MapThenSumSet, MapThenFoldSet
  <1>10. PICK g : Sums(S, Widths, g) /\ File!Bytes(b, e) = g[S]
    BY <1>6, <1>8
  <1>11. PICK h : Sums(S, Widths, h) /\ Tokens(S, Widths) = h[S]
    BY <1>9
  <1>12. \A x \in S : Widths[x] \in Nat
    BY <1>5
  <1>13. g[S] = h[S]
    <2> HIDE DEF S
    <2> QED
      BY <1>4, <1>10, <1>11, <1>12, SumsAgree
  <1> QED
    BY <1>1, <1>2, <1>3, <1>10, <1>11, <1>13

(* One character fits, and fewer characters are not more bytes.               *)
LEMMA BytesGrow ==
  ASSUME content \in Seq(File!Characters), NEW b \in Nat, NEW e \in Nat, e <= File!Size
  PROVE  /\ File!Bytes(b, e) \in Nat
         /\ \A i \in Nat : i <= e => File!Bytes(b, i) <= File!Bytes(b, e)
         /\ e = b + 1 => File!Bytes(b, e) <= 4
         /\ File!Bytes(b, b) = 0
  <1> DEFINE N == File!Size
             T == 0..(N - 1)
  <1>0. N \in Nat
    BY StartsIs
  <1>1. File!Bytes(b, e) = Tokens(b..(e - 1), Widths) /\ b..(e - 1) \in SUBSET T
    BY BytesAre
  <1>2. IsFiniteSet(T) /\ \A i \in T : Widths[i] \in 1..4 /\ Widths[i] \in Nat
    BY BytesAre
  <1>3. IsFiniteSet(b..(e - 1)) /\ \A i \in b..(e - 1) : Widths[i] \in Nat
    BY <1>1, <1>2, FS_Subset
  <1>4. File!Bytes(b, e) \in Nat
    <2> HIDE DEF T
    <2> QED
      BY <1>1, <1>2, TokensIs
  <1>5. ASSUME NEW i \in Nat, i <= e PROVE File!Bytes(b, i) <= File!Bytes(b, e)
    <2>1. i <= N
      BY <1>0, <1>5
    <2>2. File!Bytes(b, i) = Tokens(b..(i - 1), Widths)
      BY <2>1, BytesAre
    <2>3. b..(i - 1) \in SUBSET (b..(e - 1))
      BY <1>5
    <2> DEFINE P == b..(i - 1)
               Q == b..(e - 1)
    <2> HIDE DEF P, Q
    <2>4. IsFiniteSet(Q) /\ P \in SUBSET Q /\ \A x \in Q : Widths[x] \in Nat
      BY <1>3, <2>3 DEF P, Q
    <2>5. Tokens(P, Widths) <= Tokens(Q, Widths)
      BY <2>4, TokensGrow
    <2> QED
      BY <1>1, <2>2, <2>5 DEF P, Q
  <1>6. Tokens({}, Widths) = 0
    <2> HIDE DEF T
    <2> QED
      BY <1>2, TokensIs
  <1>7. ASSUME e = b + 1 PROVE File!Bytes(b, e) <= 4
    <2>1. b..(e - 1) = {b} /\ b \in T
      BY <1>0, <1>7
    <2>2. {b} \in SUBSET T /\ b \in {b} /\ {b} \ {b} = {}
      BY <2>1
    <2>3. Widths[b] \in 1..4
      BY <1>2, <2>1
    <2> HIDE DEF T
    <2>4. Tokens({b}, Widths) = Widths[b] + Tokens({b} \ {b}, Widths)
      BY <1>2, <2>2, TokensStep
    <2>5. Tokens({b} \ {b}, Widths) = 0
      BY <1>6, <2>2
    <2>6. File!Bytes(b, e) = Tokens({b}, Widths)
      BY <1>1, <2>1
    <2> QED
      BY <2>3, <2>4, <2>5, <2>6
  <1>8. File!Bytes(b, b) = 0
    <2>1. CASE b <= N
      <3>1. File!Bytes(b, b) = Tokens(b..(b - 1), Widths)
        BY <2>1, BytesAre
      <3>2. b..(b - 1) = {}
        OBVIOUS
      <3> QED
        BY <1>6, <3>1, <3>2
    <2>2. CASE ~(b <= N)
      <3>1. 0 <= N /\ 0 \in Nat
        BY <1>0
      <3>2. \E g : WidthSums({}, g)
        <4>1. IsFiniteSet({}) /\ \A x \in {} : Widths[x] \in Nat
          BY FS_EmptySet
        <4>2. PICK g : Sums({}, Widths, g)
          BY <4>1, SumExists, Zenon
        <4>3. [s \in SUBSET {} |-> IF s = {} THEN 0 ELSE File!Width(File!At(One(s))) + g[s \ {One(s)}]]
              = [s \in SUBSET {} |-> IF s = {} THEN 0 ELSE Widths[One(s)] + g[s \ {One(s)}]]
          OBVIOUS
        <4> QED
          BY <4>2, <4>3 DEF Sums, WidthSums
      <3>3. b..(b - 1) = {}
        OBVIOUS
      <3>4. \E g : WidthSums({}, g) /\ File!Bytes(b, b) = g[{}]
        BY <3>2, <3>3 DEF WidthSums, One, File!Bytes, File!MapThenSumSet, File!MapThenFoldSet
      <3> QED
        BY <3>4 DEF WidthSums
    <2> QED
      BY <2>1, <2>2
  <1> QED
    BY <1>4, <1>5, <1>7, <1>8

(* Where a cut of b..e may end.                                              *)
LEMMA StopIs ==
  ASSUME MaxBytes \in Nat, MaxBytes >= 4, content \in Seq(File!Characters),
         NEW b \in Nat, NEW e \in Nat, b < e, e <= File!Size
  PROVE  LET t == File!Stop(b, e) IN
         /\ t \in Nat /\ b < t /\ t <= e /\ File!Bytes(b, t) <= MaxBytes
         /\ File!Bytes(b, e) <= MaxBytes => t = e
         /\ t = e \/ t \in File!Starts \/ (b + 1)..t \cap File!Starts = {}
  <1> DEFINE N == File!Size
             F == {i \in b..e : File!Bytes(b, i) <= MaxBytes}
             fit == Max(F)
             K == {i \in (b + 1)..fit : File!Break(i, e)}
             t == File!Stop(b, e)
  <1>0. N \in Nat
    BY StartsIs
  <1>1. b + 1 \in F
    <2>1. b + 1 \in Nat /\ b + 1 <= N /\ b + 1 \in b..e
      BY <1>0
    <2>2. File!Bytes(b, b + 1) <= 4 /\ File!Bytes(b, b + 1) \in Nat
      BY <2>1, BytesGrow
    <2> QED
      BY <2>1, <2>2
  <1>2. fit \in F /\ \A y \in F : y <= fit
    <2>1. F \subseteq 0..e /\ F # {}
      BY <1>1
    <2> HIDE DEF F
    <2> QED
      BY <2>1, GreatestUpTo
  <1>3. fit \in Nat /\ b + 1 <= fit /\ fit <= e /\ File!Bytes(b, fit) <= MaxBytes
    <2>1. fit \in b..e /\ File!Bytes(b, fit) <= MaxBytes
      BY <1>2
    <2>2. b + 1 <= fit
      BY <1>1, <1>2
    <2> HIDE DEF fit
    <2> QED
      BY <2>1, <2>2
  <1>4. t = IF fit < e /\ K # {} THEN Max(K) ELSE fit
    BY FileExtremes DEF File!Stop
  <1>5. K # {} => Max(K) \in K
    <2>1. K \subseteq 0..e
      <3> HIDE DEF fit
      <3>1. \A i \in (b + 1)..fit : i \in 0..e
        BY <1>3
      <3> QED
        BY <3>1
    <2> HIDE DEF K
    <2> QED
      BY <2>1, GreatestUpTo
  <1>6. ASSUME File!Bytes(b, e) <= MaxBytes PROVE t = e
    <2>1. e \in F
      BY <1>6
    <2>2. fit = e
      BY <1>2, <1>3, <2>1
    <2> HIDE DEF fit, K, t
    <2> QED
      BY <1>4, <2>2
  <1>7. \A i \in (b + 1)..(e - 1) : File!Break(i, e) <=> i \in File!Starts
    <2> SUFFICES ASSUME NEW i \in (b + 1)..(e - 1) PROVE File!Break(i, e) <=> i \in File!Starts
      OBVIOUS
    <2>1. i \in 1..N /\ i > 0 /\ i # e /\ i # N
      BY <1>0
    <2>2. i \in File!Starts <=> File!LineOver(i)
      BY <2>1, StartsIs
    <2> QED
      BY <2>1, <2>2 DEF File!LineOver, File!Break
  <1> HIDE DEF fit
  <1>8. CASE fit < e /\ K # {}
    <2>1. t \in K
      BY <1>4, <1>5, <1>8
    <2>2. t \in (b + 1)..fit /\ File!Break(t, e)
      BY <2>1
    <2> HIDE DEF t, K, F
    <2>3. t \in Nat /\ b < t /\ t <= fit /\ t \in (b + 1)..(e - 1)
      BY <1>3, <1>8, <2>2
    <2>4. t \in File!Starts
      BY <1>7, <2>2, <2>3
    <2>5. fit <= N
      BY <1>0, <1>3
    <2>6. File!Bytes(b, t) <= File!Bytes(b, fit) /\ File!Bytes(b, fit) \in Nat
      BY <1>3, <2>3, <2>5, BytesGrow
    <2>7. File!Bytes(b, t) \in Nat
      <3>1. t <= N
        BY <1>0, <2>3, <2>5, <1>3
      <3> QED
        BY <2>3, <3>1, BytesGrow
    <2>8. File!Bytes(b, t) <= MaxBytes
      BY <1>3, <2>6, <2>7
    <2>9. t <= e
      BY <1>3, <2>3
    <2> QED
      BY <1>6, <2>3, <2>4, <2>8, <2>9 DEF t
  <1>9. CASE ~(fit < e /\ K # {})
    <2>1. t = fit
      BY <1>4, <1>9
    <2>2. t = e \/ (b + 1)..t \cap File!Starts = {}
      <3> SUFFICES ASSUME fit # e PROVE (b + 1)..fit \cap File!Starts = {}
        BY <2>1
      <3>1. fit < e
        BY <1>3
      <3>2. K = {}
        BY <1>9, <3>1
      <3>3. \A i \in (b + 1)..fit : ~File!Break(i, e)
        BY <3>2
      <3>4. \A i \in (b + 1)..fit : i \in (b + 1)..(e - 1)
        BY <1>3, <3>1
      <3> QED
        BY <1>7, <3>3, <3>4
    <2>3. b < fit
      BY <1>3
    <2> HIDE DEF t, K, F
    <2> QED
      BY <1>3, <1>6, <2>1, <2>2, <2>3 DEF t
  <1> QED
    BY <1>8, <1>9

-----------------------------------------------------------------------------
(* The invariant of cutting a file.                                         *)
Slices == [begin : Nat, end : Nat, symbol : Nat, first : Nat, last : Nat]

(* A chunk that fits, ends with a line if it can, lies in one region or in none *)
(* and has the lines of its first and last characters.                       *)
Sliced(c) ==
  /\ c \in Slices /\ c.begin < c.end /\ c.end <= File!Size
  /\ File!Bytes(c.begin, c.end) <= MaxBytes
  /\ c.end \in File!Starts \cup {File!Size} \/ (c.begin + 1)..c.end \cap File!Starts = {}
  /\ \A i \in c.begin..(c.end - 1) : File!Owner(i) = c.symbol
  /\ File!Line(c.begin) = c.first /\ File!Line(c.end - 1) = c.last

(* The chunks so far lie end to end from the beginning of the file to an end.   *)
Chained(cs, end) ==
  /\ \A k \in 1..Len(cs) : cs[k].begin = IF k = 1 THEN 0 ELSE cs[k - 1].end
  /\ end = IF Len(cs) = 0 THEN 0 ELSE cs[Len(cs)].end

(* One of the chunks is all of a definition.                                 *)
Piece(cs, s) ==
  \E k \in 1..Len(cs) :
    cs[k].symbol = s /\ cs[k].first = symbols[s].first /\ cs[k].last = symbols[s].last

(* The span is all of a definition.                                         *)
Whole(sp, s) == sp.begin = File!Begin(s) /\ sp.end = File!End(s) /\ sp.symbol = s

(* All of the definition, if it fits, is in one chunk.                        *)
Intact(cs, sp, s) ==
  File!Bytes(File!Begin(s), File!End(s)) <= MaxBytes => Piece(cs, s) \/ Whole(sp, s)

(* The span begins where the chunks end; up to its end every region has been     *)
(* opened, and one that fits is a chunk or is all of the span.               *)
SpanIs(sp, at) ==
  /\ sp \in [begin : Nat, end : Nat, symbol : Nat]
  /\ sp.begin <= sp.end /\ sp.end = at /\ at <= File!Size /\ at \in File!Starts \cup {File!Size}
  /\ \A i \in sp.begin..(sp.end - 1) : File!Owner(i) = sp.symbol

AheadIs(left, at) ==
  /\ left \subseteq File!Regions
  /\ \A s \in left : at <= File!Begin(s)
  /\ \A s \in File!Regions \ left : File!End(s) <= at

FileInv ==
  /\ content \in Seq(File!Characters) /\ Forest
  /\ SpanIs(span, cursor) /\ AheadIs(ahead, cursor)
  /\ chunks \in Seq(Slices) /\ Chained(chunks, span.begin)
  /\ \A k \in 1..Len(chunks) : Sliced(chunks[k])
  /\ \A s \in File!Regions \ ahead : Intact(chunks, span, s)

(* A file and its definitions stay, and so does what is said about them.       *)
LEMMA FileStays ==
  ASSUME content' = content, symbols' = symbols
  PROVE  /\ Forest' <=> Forest
         /\ \A c : Sliced(c)' <=> Sliced(c)
         /\ \A cs, s : Piece(cs, s)' <=> Piece(cs, s)
         /\ \A sp, s : Whole(sp, s)' <=> Whole(sp, s)
         /\ \A cs, sp, s : Intact(cs, sp, s)' <=> Intact(cs, sp, s)
         /\ \A sp, at : SpanIs(sp, at)' <=> SpanIs(sp, at)
         /\ \A left, at : AheadIs(left, at)' <=> AheadIs(left, at)
         /\ File!Regions' = File!Regions
  <1>1. Forest' <=> Forest
    <2>1. File!Definitions' = File!Definitions
      <3>1. File!Written' = File!Written
        <4>1. File!Cardinality(File!Starts)' = File!Cardinality(File!Starts)
          BY FileStill
        <4>2. \A i : File!At(i)' = File!At(i)
          BY DEF File!At
        <4> QED
          BY <4>1, <4>2, FileStill DEF File!Written
      <3> QED
        BY <3>1 DEF File!Definitions
    <2> QED
      BY <2>1 DEF Forest
  <1>2. \A c : Sliced(c)' <=> Sliced(c)
    BY FileStill DEF Sliced
  <1>3. \A cs, s : Piece(cs, s)' <=> Piece(cs, s)
    BY DEF Piece
  <1>4. \A sp, s : Whole(sp, s)' <=> Whole(sp, s)
    BY FileStill DEF Whole
  <1>5. \A cs, sp, s : Intact(cs, sp, s)' <=> Intact(cs, sp, s)
    BY <1>3, <1>4, FileStill DEF Intact
  <1>6. \A sp, at : SpanIs(sp, at)' <=> SpanIs(sp, at)
    BY FileStill DEF SpanIs
  <1>7. File!Regions' = File!Regions
    BY FileStill DEF File!Regions
  <1>8. \A left, at : AheadIs(left, at)' <=> AheadIs(left, at)
    BY <1>7, FileStill DEF AheadIs
  <1> QED
    BY <1>1, <1>2, <1>3, <1>4, <1>5, <1>6, <1>7, <1>8

(* A step of another part keeps the invariant.                               *)
LEMMA FileStutters ==
  ASSUME FileInv, UNCHANGED fileVars
  PROVE  FileInv'
  <1>1. content' = content /\ symbols' = symbols /\ ahead' = ahead /\ cursor' = cursor
        /\ span' = span /\ chunks' = chunks
    BY DEF fileVars
  <1> QED
    BY <1>1, FileStays DEF FileInv

(* It holds of every file before its first span.                             *)
LEMMA FileBegins ==
  ASSUME File!ChunkingBounds, File!Init
  PROVE  FileInv
  <1>1. content \in Seq(File!Characters)
    <2>1. PICK m \in 0..MaxLength : content \in [1..m -> File!Characters]
      BY DEF File!Init, File!SeqOf
    <2>2. m \in Nat
      BY <2>1 DEF File!ChunkingBounds
    <2> QED
      BY <2>1, <2>2
  <1>2. Forest
    BY <1>1, ParsedIsForest DEF File!Init, File!ChunkingBounds
  <1>3. /\ ahead = File!Regions /\ cursor = 0 /\ chunks = <<>>
        /\ span = [begin |-> 0, end |-> 0, symbol |-> 0]
    BY DEF File!Init
  <1>4. File!Size \in Nat /\ 0 \in File!Starts
    BY <1>1, StartsIs
  <1>5. SpanIs(span, cursor)
    BY <1>3, <1>4 DEF SpanIs
  <1>6. AheadIs(ahead, cursor)
    <2>1. \A s \in File!Regions : File!Begin(s) \in Nat
      BY <1>1, <1>2, RegionSpan DEF File!Regions, Forest
    <2> QED
      BY <1>3, <2>1 DEF AheadIs
  <1>7. chunks \in Seq(Slices) /\ Len(chunks) = 0
    BY <1>3
  <1>8. Chained(chunks, span.begin)
    BY <1>3, <1>7 DEF Chained
  <1> QED
    BY <1>1, <1>2, <1>3, <1>5, <1>6, <1>7, <1>8 DEF FileInv

(* What is ahead is still ahead.                                            *)
LEMMA AheadStays ==
  ASSUME FileInv
  PROVE  /\ File!Ahead = ahead /\ ahead \subseteq 1..Len(symbols) /\ ahead \subseteq Nat
         /\ ahead # {} => /\ File!Nearest \in ahead
                          /\ \A t \in ahead : t # File!Nearest =>
                               /\ File!Nearest < t
                               /\ File!End(File!Nearest) <= File!Begin(t)
                               /\ File!Begin(File!Nearest) <= File!Begin(t)
  <1>1. content \in Seq(File!Characters) /\ Forest /\ ahead \subseteq File!Regions
    BY DEF FileInv, AheadIs
  <1>2. ahead \subseteq 1..Len(symbols)
    BY <1>1 DEF File!Regions, Forest
  <1>3. \A s \in ahead : File!Begin(s) \in Nat /\ File!Begin(s) < File!End(s) /\ File!End(s) \in Nat
    BY <1>1, <1>2, RegionSpan
  <1>4. cursor \in Nat
    BY DEF FileInv, SpanIs
  <1>5. File!Ahead = ahead
    BY <1>3, <1>4 DEF FileInv, AheadIs, File!Ahead
  <1>6. ahead \subseteq Nat
    BY <1>1, <1>2 DEF Forest
  <1>7. ASSUME ahead # {}
        PROVE  /\ File!Nearest \in ahead
               /\ \A t \in ahead : t # File!Nearest =>
                    /\ File!Nearest < t
                    /\ File!End(File!Nearest) <= File!Begin(t)
                    /\ File!Begin(File!Nearest) <= File!Begin(t)
    <2> DEFINE m == File!Nearest
    <2>1. m = Min(ahead)
      BY <1>5, FileExtremes DEF File!Nearest
    <2>2. m \in ahead /\ \A y \in ahead : m <= y
      BY <1>6, <1>7, <2>1, Least
    <2> HIDE DEF m
    <2>3. ASSUME NEW t \in ahead, t # m
          PROVE  m < t /\ File!End(m) <= File!Begin(t) /\ File!Begin(m) <= File!Begin(t)
      <3>1. m < t
        BY <1>6, <2>2, <2>3
      <3>2. File!End(m) <= File!Begin(t)
        BY <1>1, <2>2, <3>1, RegionsApart
      <3>3. File!Begin(m) < File!End(m) /\ File!Begin(m) \in Nat /\ File!End(m) \in Nat /\ File!Begin(t) \in Nat
        BY <1>3, <2>2
      <3> QED
        BY <3>1, <3>2, <3>3
    <2> QED
      BY <2>2, <2>3 DEF m
  <1> QED
    BY <1>2, <1>5, <1>6, <1>7

(* When a span is opened the one before it has been cut, so a definition that     *)
(* was all of it is a chunk.                                               *)
LEMMA OpenedPieces ==
  ASSUME FileInv, File!SpanCut, NEW s \in File!Regions \ ahead,
         File!Bytes(File!Begin(s), File!End(s)) <= MaxBytes
  PROVE  Piece(chunks, s)
  <1>1. Piece(chunks, s) \/ Whole(span, s)
    BY DEF FileInv, Intact
  <1>2. ~Whole(span, s)
    <2>1. s \in 1..Len(symbols)
      BY DEF FileInv, File!Regions, Forest
    <2>2. File!Begin(s) < File!End(s) /\ File!Begin(s) \in Nat
      BY <2>1, RegionSpan DEF FileInv
    <2>3. span.begin = span.end
      BY DEF File!SpanCut
    <2> QED
      BY <2>2, <2>3 DEF Whole
  <1> QED
    BY <1>1, <1>2

(* Opening a gap keeps it: no region begins before the gap ends.               *)
LEMMA GapOpens ==
  ASSUME FileInv, File!OpenGap
  PROVE  FileInv'
  <1> DEFINE e == IF File!Ahead = {} THEN File!Size ELSE File!Begin(File!Nearest)
             N == File!Size
  <1>1. /\ File!SpanCut /\ cursor < e /\ span' = [begin |-> cursor, end |-> e, symbol |-> 0]
        /\ cursor' = e /\ content' = content /\ symbols' = symbols /\ chunks' = chunks
        /\ ahead' = File!Ahead
    BY DEF File!OpenGap, File!Open
  <1>2. /\ content \in Seq(File!Characters) /\ Forest
        /\ N \in Nat /\ cursor \in Nat /\ span.begin = cursor
    <2>1. content \in Seq(File!Characters) /\ Forest
      BY DEF FileInv
    <2>2. N \in Nat
      BY <2>1, StartsIs
    <2>3. cursor \in Nat /\ span.begin = cursor
      BY <1>1 DEF FileInv, SpanIs, File!SpanCut
    <2> QED
      BY <2>1, <2>2, <2>3
  <1>3. ahead' = ahead /\ ahead \subseteq 1..Len(symbols) /\ File!Ahead = ahead
    BY <1>1, AheadStays
  <1>4. e \in Nat /\ e <= N /\ e \in File!Starts \cup {N}
    <2>1. CASE ahead = {}
      BY <1>2, <1>3, <2>1
    <2>2. CASE ahead # {}
      <3> DEFINE m == File!Nearest
      <3>1. m \in 1..Len(symbols) /\ e = File!Begin(m)
        BY <1>3, <2>2, AheadStays
      <3> HIDE DEF m, e
      <3>2. /\ File!Begin(m) \in File!Starts /\ File!Begin(m) \in Nat /\ File!End(m) \in Nat
            /\ File!Begin(m) < File!End(m) /\ File!End(m) <= N
        BY <1>2, <3>1, RegionSpan
      <3> QED
        BY <1>2, <3>1, <3>2
    <2> QED
      BY <2>1, <2>2
  <1>5. \A s \in ahead : e <= File!Begin(s)
    <2> SUFFICES ASSUME NEW s \in ahead PROVE e <= File!Begin(s)
      OBVIOUS
    <2>1. e = File!Begin(File!Nearest)
      BY <1>3
    <2>2. e <= e
      BY <1>4
    <2> HIDE DEF e
    <2> QED
      BY <2>1, <2>2, AheadStays
  <1> HIDE DEF e
  <1>6. SpanIs(span', cursor')
    <2>1. span' \in [begin : Nat, end : Nat, symbol : Nat] /\ span'.begin = cursor /\ span'.end = e
          /\ span'.symbol = 0
      BY <1>1, <1>2, <1>4
    <2>2. ASSUME NEW i \in cursor..(e - 1) PROVE File!Owner(i) = 0
      <3> SUFFICES ASSUME File!Owner(i) # 0 PROVE FALSE
        OBVIOUS
      <3> DEFINE s == File!Owner(i)
      <3>1. i \in 0..(N - 1) /\ i \in Nat /\ cursor <= i /\ i < e
        BY <1>2, <1>4
      <3>2. s \in File!Regions /\ File!Begin(s) <= i /\ i < File!End(s)
        BY <1>2, <3>1, OwnerRegion
      <3> HIDE DEF s
      <3>3. s \in 1..Len(symbols)
        BY <1>2, <3>2 DEF File!Regions, Forest
      <3>4. File!Begin(s) \in Nat /\ File!End(s) \in Nat
        BY <1>2, <3>3, RegionSpan
      <3>5. CASE s \in ahead
        BY <1>4, <1>5, <3>1, <3>2, <3>4, <3>5
      <3>6. CASE s \notin ahead
        <4>1. File!End(s) <= cursor
          BY <3>2, <3>6 DEF FileInv, AheadIs
        <4> QED
          BY <1>2, <3>1, <3>2, <3>4, <4>1
      <3> QED
        BY <3>5, <3>6
    <2> QED
      BY <1>1, <1>2, <1>4, <2>1, <2>2 DEF SpanIs
  <1>7. AheadIs(ahead', cursor')
    <2>1. \A s \in File!Regions \ ahead : File!End(s) <= e
      <3> SUFFICES ASSUME NEW s \in File!Regions \ ahead PROVE File!End(s) <= e
        OBVIOUS
      <3>1. File!End(s) <= cursor
        BY DEF FileInv, AheadIs
      <3>2. s \in 1..Len(symbols)
        BY <1>2 DEF File!Regions, Forest
      <3>3. File!End(s) \in Nat
        BY <1>2, <3>2, RegionSpan
      <3> QED
        BY <1>1, <1>2, <1>4, <3>1, <3>3
    <2>2. ahead \subseteq File!Regions
      BY DEF FileInv, AheadIs
    <2> QED
      BY <1>1, <1>3, <1>5, <2>1, <2>2 DEF AheadIs
  <1>8. chunks' \in Seq(Slices) /\ Chained(chunks', span'.begin)
    <2>1. span'.begin = span.begin
      BY <1>1, <1>2
    <2> QED
      BY <1>1, <2>1 DEF FileInv
  <1>9. \A k \in 1..Len(chunks') : Sliced(chunks'[k])
    BY <1>1 DEF FileInv
  <1>10. \A s \in File!Regions \ ahead' : Intact(chunks', span', s)
    BY <1>1, <1>3, OpenedPieces DEF Intact
  <1> QED
    BY <1>1, <1>2, <1>6, <1>7, <1>8, <1>9, <1>10, FileStays DEF FileInv

(* Opening a region keeps it: the ones ahead begin where this one ends or later. *)
LEMMA RegionOpens ==
  ASSUME FileInv, File!OpenRegion
  PROVE  FileInv'
  <1> DEFINE m == File!Nearest
             e == File!End(m)
             N == File!Size
  <1>1. /\ File!SpanCut /\ File!Ahead # {} /\ File!Begin(m) = cursor
        /\ span' = [begin |-> cursor, end |-> e, symbol |-> m]
        /\ cursor' = e /\ content' = content /\ symbols' = symbols /\ chunks' = chunks
        /\ ahead' = File!Ahead \ {m}
    BY DEF File!OpenRegion, File!Open
  <1>2. /\ content \in Seq(File!Characters) /\ Forest
        /\ N \in Nat /\ cursor \in Nat /\ span.begin = cursor
    <2>1. content \in Seq(File!Characters) /\ Forest
      BY DEF FileInv
    <2>2. N \in Nat
      BY <2>1, StartsIs
    <2>3. cursor \in Nat /\ span.begin = cursor
      BY <1>1 DEF FileInv, SpanIs, File!SpanCut
    <2> QED
      BY <2>1, <2>2, <2>3
  <1>3. /\ ahead' = ahead \ {m} /\ m \in ahead /\ m \in 1..Len(symbols) /\ m \in Nat
        /\ \A t \in ahead : t # m => e <= File!Begin(t)
    BY <1>1, AheadStays
  <1>4. m \in File!Regions /\ ahead \subseteq File!Regions
    BY <1>3 DEF FileInv, AheadIs
  <1>5. /\ e \in Nat /\ e <= N /\ e \in File!Starts \cup {N} /\ cursor < e
    <2>1. File!End(m) \in Nat /\ File!End(m) <= N /\ File!End(m) \in File!Starts \cup {N}
      BY <1>2, <1>3, RegionSpan
    <2>2. File!Begin(m) < File!End(m)
      BY <1>2, <1>3, RegionSpan
    <2> QED
      BY <1>1, <2>1, <2>2
  <1> HIDE DEF m, e
  <1>6. SpanIs(span', cursor')
    <2>1. span' \in [begin : Nat, end : Nat, symbol : Nat] /\ span'.begin = cursor /\ span'.end = e
          /\ span'.symbol = m
      BY <1>1, <1>2, <1>3, <1>5
    <2>2. ASSUME NEW i \in cursor..(e - 1) PROVE File!Owner(i) = m
      <3>1. i \in 0..(N - 1) /\ cursor <= i /\ i < e
        BY <1>2, <1>5
      <3>2. File!Begin(m) <= i /\ i < File!End(m)
        BY <1>1, <3>1 DEF e
      <3> QED
        BY <1>2, <1>4, <3>1, <3>2, OwnerRegion
    <2> QED
      BY <1>1, <1>2, <1>5, <2>1, <2>2 DEF SpanIs
  <1>7. AheadIs(ahead', cursor')
    <2>1. \A s \in File!Regions \ ahead' : File!End(s) <= e
      <3> SUFFICES ASSUME NEW s \in File!Regions \ ahead' PROVE File!End(s) <= e
        OBVIOUS
      <3>1. CASE s = m
        <4>1. e <= e /\ File!End(s) = e
          BY <1>5, <3>1 DEF e
        <4> QED
          BY <4>1
      <3>2. CASE s # m
        <4>1. s \in File!Regions \ ahead
          BY <1>3, <3>2
        <4>2. File!End(s) <= cursor
          BY <4>1 DEF FileInv, AheadIs
        <4>3. s \in 1..Len(symbols)
          BY <1>2 DEF File!Regions, Forest
        <4>4. File!End(s) \in Nat
          BY <1>2, <4>3, RegionSpan
        <4> QED
          BY <1>2, <1>5, <4>2, <4>4
      <3> QED
        BY <3>1, <3>2
    <2>2. ahead' \subseteq File!Regions
      BY <1>3, <1>4
    <2>3. \A t \in ahead' : e <= File!Begin(t)
      BY <1>3
    <2> QED
      BY <1>1, <2>1, <2>2, <2>3 DEF AheadIs
  <1>8. chunks' \in Seq(Slices) /\ Chained(chunks', span'.begin)
    <2>1. span'.begin = span.begin
      BY <1>1, <1>2
    <2> QED
      BY <1>1, <2>1 DEF FileInv
  <1>9. \A k \in 1..Len(chunks') : Sliced(chunks'[k])
    BY <1>1 DEF FileInv
  <1>10. ASSUME NEW s \in File!Regions \ ahead' PROVE Intact(chunks', span', s)
    <2>1. CASE s = m
      <3>1. Whole(span', m)
        BY <1>1 DEF Whole, e
      <3> QED
        BY <2>1, <3>1 DEF Intact
    <2>2. CASE s # m
      <3>1. s \in File!Regions \ ahead
        BY <1>3, <2>2
      <3> QED
        BY <1>1, <3>1, OpenedPieces DEF Intact
    <2> QED
      BY <2>1, <2>2
  <1> QED
    BY <1>1, <1>2, <1>6, <1>7, <1>8, <1>9, <1>10, FileStays DEF FileInv

(* A chunk that is cut is as it should be.                                   *)
LEMMA SliceIsCut ==
  ASSUME File!ChunkingBounds, FileInv, ~File!SpanCut
  PROVE  LET t == File!Stop(span.begin, span.end)
             c == [begin |-> span.begin, end |-> t, symbol |-> span.symbol,
                   first |-> File!Line(span.begin), last |-> File!Line(t - 1)]
         IN  /\ Sliced(c) /\ t \in Nat /\ span.begin < t /\ t <= span.end
             /\ File!Bytes(span.begin, span.end) <= MaxBytes => t = span.end
  <1> DEFINE b == span.begin
             e == span.end
             t == File!Stop(b, e)
             c == [begin |-> b, end |-> t, symbol |-> span.symbol,
                   first |-> File!Line(b), last |-> File!Line(t - 1)]
             N == File!Size
  <1>1. /\ content \in Seq(File!Characters) /\ Forest
        /\ b \in Nat /\ e \in Nat /\ span.symbol \in Nat /\ b < e /\ e <= N
        /\ e \in File!Starts \cup {N}
        /\ \A i \in b..(e - 1) : File!Owner(i) = span.symbol
    <2>1. b \in Nat /\ e \in Nat /\ span.symbol \in Nat /\ b <= e /\ e = cursor
      BY DEF FileInv, SpanIs
    <2>2. b # e
      BY DEF File!SpanCut
    <2>3. /\ content \in Seq(File!Characters) /\ Forest /\ cursor <= N
          /\ cursor \in File!Starts \cup {N}
          /\ \A i \in b..(e - 1) : File!Owner(i) = span.symbol
      BY DEF FileInv, SpanIs
    <2> HIDE DEF b, e
    <2> QED
      BY <2>1, <2>2, <2>3
  <1>2. MaxBytes \in Nat /\ MaxBytes >= 4 /\ N \in Nat
    BY <1>1, StartsIs DEF File!ChunkingBounds
  <1> HIDE DEF b, e
  <1>3. /\ t \in Nat /\ b < t /\ t <= e /\ File!Bytes(b, t) <= MaxBytes
        /\ File!Bytes(b, e) <= MaxBytes => t = e
        /\ t = e \/ t \in File!Starts \/ (b + 1)..t \cap File!Starts = {}
    BY <1>1, <1>2, StopIs
  <1> HIDE DEF t
  <1>4. t - 1 \in Nat
    BY <1>1, <1>3
  <1>5. File!Line(b) \in Nat /\ File!Line(t - 1) \in Nat
    <2>1. Cardinality(File!Starts) \in Nat
      BY <1>1, StartsIs
    <2>2. File!Line(b) \in 1..Cardinality(File!Starts) /\ File!Line(t - 1) \in 1..Cardinality(File!Starts)
      BY <1>1, <1>4, LineIs
    <2> QED
      BY <2>1, <2>2
  <1>6. c \in Slices /\ c.begin = b /\ c.end = t /\ c.symbol = span.symbol
        /\ c.first = File!Line(b) /\ c.last = File!Line(t - 1)
    BY <1>1, <1>3, <1>5 DEF Slices
  <1> HIDE DEF c
  <1>7. t <= N /\ \A i \in b..(t - 1) : i \in b..(e - 1)
    BY <1>1, <1>2, <1>3
  <1>8. t \in File!Starts \cup {N} \/ (b + 1)..t \cap File!Starts = {}
    BY <1>1, <1>3
  <1>9. Sliced(c)
    BY <1>1, <1>3, <1>6, <1>7, <1>8 DEF Sliced
  <1> QED
    BY <1>3, <1>9 DEF c, t, b, e

(* Cutting a chunk keeps it: what fits from the beginning of the span.          *)
LEMMA SpanIsCut ==
  ASSUME File!ChunkingBounds, FileInv, File!Cut
  PROVE  FileInv'
  <1> DEFINE b == span.begin
             e == span.end
             t == File!Stop(b, e)
             c == [begin |-> b, end |-> t, symbol |-> span.symbol,
                   first |-> File!Line(b), last |-> File!Line(t - 1)]
             N == File!Size
  <1>1. /\ ~File!SpanCut /\ chunks' = Append(chunks, c) /\ span' = [span EXCEPT !.begin = t]
        /\ cursor' = cursor /\ content' = content /\ symbols' = symbols /\ ahead' = ahead
    BY DEF File!Cut
  <1>2. /\ Sliced(c) /\ t \in Nat /\ b < t /\ t <= e
        /\ File!Bytes(b, e) <= MaxBytes => t = e
    BY <1>1, SliceIsCut
  <1>3. /\ content \in Seq(File!Characters) /\ Forest
        /\ b \in Nat /\ e \in Nat /\ span.symbol \in Nat
        /\ span \in [begin : Nat, end : Nat, symbol : Nat]
        /\ \A i \in b..(e - 1) : File!Owner(i) = span.symbol
    BY DEF FileInv, SpanIs
  <1>4. chunks \in Seq(Slices) /\ Chained(chunks, b)
    BY DEF FileInv
  <1> DEFINE n == Len(chunks)
  <1>5. c \in Slices /\ c.begin = b /\ c.end = t /\ c.symbol = span.symbol
        /\ c.first = File!Line(b) /\ c.last = File!Line(t - 1)
    BY <1>2 DEF Sliced
  <1>6. span'.begin = t /\ span'.end = e /\ span'.symbol = span.symbol
        /\ span' \in [begin : Nat, end : Nat, symbol : Nat]
    BY <1>1, <1>2, <1>3
  <1> HIDE DEF b, e, t, c
  <1>7. /\ chunks' \in Seq(Slices) /\ n \in Nat /\ Len(chunks') = n + 1 /\ chunks'[n + 1] = c
        /\ \A k \in 1..n : chunks'[k] = chunks[k]
    BY <1>1, <1>4, <1>5
  <1> HIDE DEF n
  <1>8. SpanIs(span', cursor')
    <2>1. \A i \in t..(e - 1) : i \in b..(e - 1)
      BY <1>2, <1>3
    <2>2. e = cursor /\ cursor <= N /\ cursor \in File!Starts \cup {N}
      BY DEF FileInv, SpanIs, e
    <2> QED
      BY <1>1, <1>2, <1>3, <1>6, <2>1, <2>2 DEF SpanIs
  <1>9. AheadIs(ahead', cursor')
    BY <1>1 DEF FileInv
  <1>10. Chained(chunks', span'.begin)
    <2>1. ASSUME NEW k \in 1..(n + 1)
          PROVE  chunks'[k].begin = IF k = 1 THEN 0 ELSE chunks'[k - 1].end
      <3>1. CASE k \in 1..n
        <4>1. chunks[k].begin = IF k = 1 THEN 0 ELSE chunks[k - 1].end
          BY <1>4, <3>1 DEF Chained, n
        <4>2. k # 1 => k - 1 \in 1..n
          BY <1>7, <3>1
        <4> QED
          BY <1>7, <3>1, <4>1, <4>2
      <3>2. CASE k = n + 1
        <4>1. b = IF n = 0 THEN 0 ELSE chunks[n].end
          BY <1>4 DEF Chained, n
        <4>2. CASE n = 0
          BY <1>5, <1>7, <3>2, <4>1, <4>2
        <4>3. CASE n # 0
          <5>1. n \in 1..n /\ k - 1 = n /\ k # 1
            BY <1>7, <3>2, <4>3
          <5> QED
            BY <1>5, <1>7, <3>2, <4>1, <4>3, <5>1
        <4> QED
          BY <4>2, <4>3
      <3>3. k \in 1..n \/ k = n + 1
        BY <1>7
      <3> QED
        BY <3>1, <3>2, <3>3
    <2>2. n + 1 # 0
      BY <1>7
    <2>3. t = chunks'[n + 1].end
      BY <1>5, <1>7
    <2> QED
      BY <1>6, <1>7, <2>1, <2>2, <2>3 DEF Chained
  <1>11. ASSUME NEW k \in 1..(n + 1) PROVE Sliced(chunks'[k])
    <2>1. k \in 1..n \/ k = n + 1
      BY <1>7
    <2>2. \A j \in 1..n : Sliced(chunks[j])
      BY DEF FileInv, n
    <2> QED
      BY <1>2, <1>7, <2>1, <2>2
  <1>12. ASSUME NEW s \in File!Regions \ ahead PROVE Intact(chunks', span', s)
    <2> SUFFICES ASSUME File!Bytes(File!Begin(s), File!End(s)) <= MaxBytes
                 PROVE  Piece(chunks', s)
      BY DEF Intact
    <2>1. Piece(chunks, s) \/ Whole(span, s)
      BY DEF FileInv, Intact
    <2>2. CASE Piece(chunks, s)
      <3>1. PICK k \in 1..n : /\ chunks[k].symbol = s /\ chunks[k].first = symbols[s].first
                              /\ chunks[k].last = symbols[s].last
        BY <2>2 DEF Piece, n
      <3>2. k \in 1..Len(chunks') /\ chunks'[k] = chunks[k]
        BY <1>7
      <3> QED
        BY <3>1, <3>2 DEF Piece
    <2>3. CASE Whole(span, s)
      <3>1. b = File!Begin(s) /\ e = File!End(s) /\ span.symbol = s
        BY <2>3 DEF Whole, b, e
      <3>2. t = e
        BY <1>2, <3>1
      <3>3. s \in 1..Len(symbols)
        BY <1>3 DEF File!Regions, Forest
      <3>4. /\ File!Line(File!Begin(s)) = symbols[s].first
            /\ File!Line(File!End(s) - 1) = symbols[s].last
        BY <1>3, <3>3, RegionSpan
      <3>5. c.symbol = s /\ c.first = symbols[s].first /\ c.last = symbols[s].last
        BY <1>5, <3>1, <3>2, <3>4
      <3>6. n + 1 \in 1..Len(chunks') /\ chunks'[n + 1] = c
        BY <1>7
      <3> QED
        BY <3>5, <3>6 DEF Piece
    <2> QED
      BY <2>1, <2>2, <2>3
  <1>13. \A k \in 1..Len(chunks') : Sliced(chunks'[k])
    BY <1>7, <1>11
  <1> QED
    BY <1>1, <1>3, <1>7, <1>8, <1>9, <1>10, <1>12, <1>13, FileStays DEF FileInv

(* The characters of a definition that owns any are those of its region.        *)
LEMMA OwnIs ==
  ASSUME content \in Seq(File!Characters), Forest, NEW s \in 1..Len(symbols),
         {i \in 0..(File!Size - 1) : File!Owner(i) = s} # {}
  PROVE  LET own == {i \in 0..(File!Size - 1) : File!Owner(i) = s} IN
         s \in File!Regions /\ File!Min(own) = File!Begin(s) /\ File!Max(own) + 1 = File!End(s)
  <1> DEFINE own == {i \in 0..(File!Size - 1) : File!Owner(i) = s}
             b == File!Begin(s)
             e == File!End(s)
             N == File!Size
  <1>0. s # 0 /\ N \in Nat
    BY StartsIs DEF Forest
  <1>1. s \in File!Regions
    BY <1>0, OwnerRegion
  <1>2. b \in Nat /\ e \in Nat /\ b < e /\ e <= N
    BY RegionSpan
  <1>3. ASSUME NEW i \in 0..(N - 1) PROVE File!Owner(i) = s <=> b <= i /\ i < e
    BY <1>0, <1>1, OwnerRegion
  <1> HIDE DEF b, e
  <1>4. own \subseteq 0..N /\ own \subseteq Nat /\ own # {}
    BY <1>0
  <1>5. b \in own /\ e - 1 \in own /\ \A i \in own : b <= i /\ i <= e - 1
    <2>1. b \in 0..(N - 1) /\ e - 1 \in 0..(N - 1) /\ b <= b /\ b <= e - 1 /\ e - 1 < e
      BY <1>0, <1>2
    <2>2. \A i \in own : i \in 0..(N - 1) /\ b <= i /\ i < e
      BY <1>3
    <2>3. \A i \in own : b <= i /\ i <= e - 1
      <3> HIDE DEF own
      <3> QED
        BY <1>2, <2>2
    <2> QED
      BY <1>2, <1>3, <2>1, <2>3
  <1> HIDE DEF own
  <1>6. Min(own) \in own /\ \A y \in own : Min(own) <= y
    BY <1>4, Least
  <1>7. Max(own) \in own /\ \A y \in own : y <= Max(own)
    BY <1>0, <1>4, GreatestUpTo
  <1>8. Min(own) = b
    <2>1. Min(own) \in Nat /\ b <= Min(own) /\ Min(own) <= b
      BY <1>4, <1>5, <1>6
    <2> QED
      BY <1>2, <2>1
  <1>9. Max(own) + 1 = e
    <2>1. Max(own) \in Nat /\ e - 1 <= Max(own) /\ Max(own) <= e - 1
      BY <1>4, <1>5, <1>7
    <2> QED
      BY <1>2, <2>1
  <1> QED
    BY <1>1, <1>8, <1>9, FileExtremes DEF own, b, e

(* The invariant says all that is claimed of the chunks.                      *)
LEMMA FileIsExact ==
  ASSUME FileInv
  PROVE  File!ChunksAreExact
  <1> DEFINE n == Len(chunks)
             N == File!Size
  <1>1. /\ content \in Seq(File!Characters) /\ Forest /\ chunks \in Seq(Slices) /\ n \in Nat
        /\ Chained(chunks, span.begin) /\ DOMAIN chunks = 1..n
    BY DEF FileInv
  <1>2. span.begin \in Nat /\ span.begin <= cursor /\ span.end = cursor
    BY DEF FileInv, SpanIs
  <1>3. \A k \in 1..n : Sliced(chunks[k])
    BY DEF FileInv
  <1>4. File!Reached = span.begin
    <2>1. span.begin = IF n = 0 THEN 0 ELSE chunks[n].end
      BY <1>1 DEF Chained
    <2>2. chunks = <<>> <=> n = 0
      BY <1>1
    <2> QED
      BY <2>1, <2>2 DEF File!Reached, File!Last
  <1>5. File!Partition
    <2>1. File!Finished => File!Reached = N
      BY <1>4, <1>2 DEF File!Finished, File!SpanCut
    <2>2. ASSUME NEW k \in DOMAIN chunks
          PROVE  LET c == chunks[k] IN
                 /\ c.begin = (IF k = 1 THEN 0 ELSE chunks[k - 1].end)
                 /\ c.begin < c.end /\ File!Bytes(c.begin, c.end) <= MaxBytes
                 /\ c.end \in File!Starts \cup {N} \/ (c.begin + 1)..c.end \cap File!Starts = {}
      <3>1. k \in 1..n
        BY <1>1, <2>2
      <3>2. chunks[k].begin = (IF k = 1 THEN 0 ELSE chunks[k - 1].end)
        BY <1>1, <3>1 DEF Chained
      <3>3. Sliced(chunks[k])
        BY <1>3, <3>1
      <3> QED
        BY <3>2, <3>3 DEF Sliced
    <2> QED
      BY <1>2, <1>4, <2>1, <2>2 DEF File!Partition
  <1>6. ASSUME NEW k \in DOMAIN chunks
        PROVE  LET c == chunks[k] IN
               /\ \A i \in c.begin..(c.end - 1) : File!Owner(i) = c.symbol /\ File!Line(i) \in c.first..c.last
               /\ File!Line(c.begin) = c.first /\ File!Line(c.end - 1) = c.last
    <2> DEFINE c == chunks[k]
    <2>1. Sliced(c)
      BY <1>1, <1>3
    <2> HIDE DEF c
    <2>2. /\ c.begin \in Nat /\ c.end \in Nat /\ c.begin < c.end /\ c.first \in Nat /\ c.last \in Nat
          /\ File!Line(c.begin) = c.first /\ File!Line(c.end - 1) = c.last
          /\ \A i \in c.begin..(c.end - 1) : File!Owner(i) = c.symbol
      BY <2>1 DEF Sliced, Slices
    <2>3. ASSUME NEW i \in c.begin..(c.end - 1) PROVE File!Line(i) \in c.first..c.last
      <3>1. i \in Nat /\ c.end - 1 \in Nat /\ c.begin <= i /\ i <= c.end - 1
        BY <2>2
      <3>2. File!Line(c.begin) <= File!Line(i) /\ File!Line(i) <= File!Line(c.end - 1)
        BY <1>1, <2>2, <3>1, LineIs
      <3>3. File!Line(i) \in 1..Cardinality(File!Starts) /\ Cardinality(File!Starts) \in Nat
        BY <1>1, <3>1, LineIs, StartsIs
      <3> QED
        BY <2>2, <3>2, <3>3
    <2> QED
      BY <2>2, <2>3 DEF c
  <1>7. ASSUME File!Finished, NEW s \in DOMAIN symbols
        PROVE  LET own == {i \in 0..(N - 1) : File!Owner(i) = s} IN
               own # {} /\ File!Bytes(File!Min(own), File!Max(own) + 1) <= MaxBytes =>
                 \E k \in DOMAIN chunks :
                   /\ chunks[k].symbol = s
                   /\ chunks[k].first = symbols[s].first /\ chunks[k].last = symbols[s].last
    <2> DEFINE own == {i \in 0..(N - 1) : File!Owner(i) = s}
    <2> SUFFICES ASSUME own # {}, File!Bytes(File!Min(own), File!Max(own) + 1) <= MaxBytes
                 PROVE  Piece(chunks, s)
      BY <1>1 DEF Piece
    <2>1. s \in 1..Len(symbols)
      BY <1>1 DEF Forest
    <2>2. s \in File!Regions /\ File!Min(own) = File!Begin(s) /\ File!Max(own) + 1 = File!End(s)
      BY <1>1, <2>1, OwnIs
    <2> HIDE DEF own
    <2>3. File!Bytes(File!Begin(s), File!End(s)) <= MaxBytes
      BY <2>2
    <2>4. File!SpanCut /\ ahead = {}
      BY <1>7, AheadStays DEF File!Finished
    <2> QED
      BY <2>2, <2>3, <2>4, OpenedPieces
  <1>8. File!Named
    BY <1>6, <1>7 DEF File!Named
  <1> QED
    BY <1>5, <1>8 DEF File!ChunksAreExact

-----------------------------------------------------------------------------
(* The provider's stream. The deltas among some events, and which one of them  *)
(* an event is.                                                             *)
DeltasOf(h) == {i \in DOMAIN h : h[i].type = "delta"}
PlaceOf(h, i) == Cardinality({j \in DeltasOf(h) : j <= i})

Tells(t, h) ==
  /\ Len(t) = Cardinality(DeltasOf(h))
  /\ \A i \in DeltasOf(h) : t[PlaceOf(h, i)] = h[i].piece

(* Every piece has its delta.                                               *)
Onto(h) == \A k \in 1..Cardinality(DeltasOf(h)) : \E i \in DeltasOf(h) : PlaceOf(h, i) = k

(* An instance counts as this module does.                                   *)
LEMMA StreamCounts == \A S : Stream!Cardinality(S) = Cardinality(S)
  BY DEF Stream!Cardinality, Cardinality

LEMMA StreamOperators ==
  /\ Stream!Deltas = DeltasOf(heard) /\ \A i : Stream!Place(i) = PlaceOf(heard, i)
  /\ \A t : Stream!Joins(t) <=> Tells(t, heard)
  <1>1. Stream!Deltas = DeltasOf(heard)
    BY DEF Stream!Deltas, DeltasOf
  <1>2. \A i : Stream!Place(i) = PlaceOf(heard, i)
    <2> SUFFICES ASSUME NEW i PROVE Stream!Place(i) = PlaceOf(heard, i)
      OBVIOUS
    <2>1. {j \in Stream!Deltas : j <= i} = {j \in DeltasOf(heard) : j <= i}
      BY <1>1
    <2>2. Stream!Place(i) = Cardinality({j \in Stream!Deltas : j <= i})
      BY StreamCounts DEF Stream!Place
    <2> QED
      BY <2>1, <2>2 DEF PlaceOf
  <1>3. \A t : Stream!Joins(t) <=> Tells(t, heard)
    <2> SUFFICES ASSUME NEW t PROVE Stream!Joins(t) <=> Tells(t, heard)
      OBVIOUS
    <2>1. Stream!Joins(t) <=> /\ Len(t) = Cardinality(Stream!Deltas)
                              /\ \A i \in Stream!Deltas : t[Stream!Place(i)] = heard[i].piece
      BY StreamCounts DEF Stream!Joins
    <2> QED
      BY <1>1, <1>2, <2>1 DEF Tells
  <1> QED
    BY <1>1, <1>2, <1>3

LEMMA DeltasFinite ==
  ASSUME NEW S, NEW h \in Seq(S)
  PROVE  /\ DeltasOf(h) \subseteq 1..Len(h) /\ Len(h) \in Nat /\ DOMAIN h = 1..Len(h)
         /\ IsFiniteSet(DeltasOf(h)) /\ Cardinality(DeltasOf(h)) \in Nat
         /\ \A i \in DeltasOf(h) : PlaceOf(h, i) \in 1..Cardinality(DeltasOf(h))
  <1>1. Len(h) \in Nat /\ DOMAIN h = 1..Len(h)
    BY LenProperties
  <1>2. DeltasOf(h) \subseteq 1..Len(h)
    BY <1>1 DEF DeltasOf
  <1>3. IsFiniteSet(DeltasOf(h)) /\ Cardinality(DeltasOf(h)) \in Nat
    <2>1. IsFiniteSet(1..Len(h))
      BY <1>1, FS_Interval
    <2>2. IsFiniteSet(DeltasOf(h))
      BY <1>2, <2>1, FS_Subset
    <2> QED
      BY <2>2, FS_CardinalityType
  <1>4. ASSUME NEW i \in DeltasOf(h) PROVE PlaceOf(h, i) \in 1..Cardinality(DeltasOf(h))
    <2> DEFINE A == {j \in DeltasOf(h) : j <= i}
    <2>1. i \in A
      BY <1>1, <1>2
    <2>2. A \subseteq DeltasOf(h)
      OBVIOUS
    <2> HIDE DEF A
    <2>3. IsFiniteSet(A) /\ Cardinality(A) <= Cardinality(DeltasOf(h)) /\ Cardinality(A) \in Nat
      BY <1>3, <2>2, FS_Subset, FS_CardinalityType
    <2>4. Cardinality(A) # 0
      BY <2>1, <2>3, FS_EmptySet
    <2> QED
      BY <1>3, <2>3, <2>4 DEF PlaceOf, A
  <1> QED
    BY <1>1, <1>2, <1>3, <1>4

(* An event that is heard moves none before it.                              *)
LEMMA PlaceKept ==
  ASSUME NEW S, NEW h \in Seq(S), NEW e \in S, NEW i \in DeltasOf(h)
  PROVE  PlaceOf(Append(h, e), i) = PlaceOf(h, i) /\ Append(h, e)[i] = h[i]
  <1> DEFINE g == Append(h, e)
  <1>1. /\ Len(h) \in Nat /\ DOMAIN h = 1..Len(h) /\ DOMAIN g = 1..(Len(h) + 1)
        /\ \A j \in 1..Len(h) : g[j] = h[j]
    BY LenProperties, AppendProperties
  <1> HIDE DEF g
  <1>2. i \in 1..Len(h) /\ g[i] = h[i]
    BY <1>1 DEF DeltasOf
  <1>3. {j \in DeltasOf(g) : j <= i} = {j \in DeltasOf(h) : j <= i}
    <2>1. \A j \in DOMAIN g : j <= i => j \in DOMAIN h /\ g[j] = h[j]
      BY <1>1, <1>2
    <2>2. \A j \in DOMAIN h : j \in DOMAIN g /\ g[j] = h[j]
      BY <1>1
    <2> QED
      BY <2>1, <2>2 DEF DeltasOf
  <1> QED
    BY <1>2, <1>3 DEF PlaceOf, g

(* An event that is no delta moves none.                                     *)
LEMMA OtherHeard ==
  ASSUME NEW S, NEW h \in Seq(S), NEW e \in S, e.type # "delta"
  PROVE  /\ DeltasOf(Append(h, e)) = DeltasOf(h)
         /\ \A t : Tells(t, Append(h, e)) <=> Tells(t, h)
         /\ Onto(h) => Onto(Append(h, e))
  <1> DEFINE g == Append(h, e)
  <1>1. /\ Len(h) \in Nat /\ DOMAIN h = 1..Len(h) /\ DOMAIN g = 1..(Len(h) + 1)
        /\ (\A i \in 1..Len(h) : g[i] = h[i]) /\ g[Len(h) + 1] = e
    BY LenProperties, AppendProperties
  <1> HIDE DEF g
  <1>2. DeltasOf(g) = DeltasOf(h)
    BY <1>1 DEF DeltasOf
  <1>3. \A i : PlaceOf(g, i) = PlaceOf(h, i)
    BY <1>2 DEF PlaceOf
  <1>4. \A i \in DeltasOf(h) : g[i] = h[i]
    BY <1>1 DEF DeltasOf
  <1> QED
    BY <1>2, <1>3, <1>4 DEF Tells, Onto, g

(* A delta that is heard comes last.                                         *)
LEMMA DeltaHeard ==
  ASSUME NEW S, NEW h \in Seq(S), NEW e \in S, e.type = "delta"
  PROVE  /\ DeltasOf(Append(h, e)) = DeltasOf(h) \cup {Len(h) + 1} /\ Append(h, e)[Len(h) + 1] = e
         /\ PlaceOf(Append(h, e), Len(h) + 1) = Cardinality(DeltasOf(h)) + 1
         /\ Cardinality(DeltasOf(Append(h, e))) = Cardinality(DeltasOf(h)) + 1
         /\ Onto(h) => Onto(Append(h, e))
  <1> DEFINE g == Append(h, e)
             n == Len(h) + 1
  <1>1. /\ Len(h) \in Nat /\ DOMAIN h = 1..Len(h) /\ DOMAIN g = 1..n
        /\ (\A i \in 1..Len(h) : g[i] = h[i]) /\ g[n] = e
    BY LenProperties, AppendProperties
  <1> HIDE DEF g
  <1>2. DeltasOf(h) \subseteq 1..Len(h) /\ IsFiniteSet(DeltasOf(h)) /\ Cardinality(DeltasOf(h)) \in Nat
    BY DeltasFinite
  <1>3. DeltasOf(g) = DeltasOf(h) \cup {n} /\ n \notin DeltasOf(h)
    <2>1. 1..n = 1..Len(h) \cup {n} /\ n \notin 1..Len(h)
      BY <1>1
    <2> QED
      BY <1>1, <2>1 DEF DeltasOf
  <1>4. \A i \in DeltasOf(h) : PlaceOf(g, i) = PlaceOf(h, i)
    BY PlaceKept DEF g
  <1>5. Cardinality(DeltasOf(g)) = Cardinality(DeltasOf(h)) + 1
    BY <1>2, <1>3, FS_AddElement
  <1>6. PlaceOf(g, n) = Cardinality(DeltasOf(h)) + 1
    <2>1. \A j \in DeltasOf(g) : j <= n
      BY <1>1, <1>2, <1>3
    <2>2. {j \in DeltasOf(g) : j <= n} = DeltasOf(g)
      BY <2>1
    <2> QED
      BY <1>5, <2>2 DEF PlaceOf
  <1>7. Onto(h) => Onto(g)
    <2> SUFFICES ASSUME Onto(h), NEW k \in 1..(Cardinality(DeltasOf(h)) + 1)
                 PROVE  \E i \in DeltasOf(g) : PlaceOf(g, i) = k
      BY <1>5 DEF Onto
    <2>1. CASE k = Cardinality(DeltasOf(h)) + 1
      BY <1>3, <1>6, <2>1
    <2>2. CASE k \in 1..Cardinality(DeltasOf(h))
      BY <1>3, <1>4, <2>2 DEF Onto
    <2> QED
      BY <1>2, <2>1, <2>2
  <1> QED
    BY <1>1, <1>3, <1>4, <1>5, <1>6, <1>7 DEF g

(* The deltas tell one text.                                                *)
LEMMA OneText ==
  ASSUME NEW S, NEW h \in Seq(S), Onto(h), NEW R, NEW t \in Seq(R), NEW u \in Seq(R),
         Tells(t, h), Tells(u, h)
  PROVE  t = u
  <1>1. Len(t) = Len(u) /\ Len(t) = Cardinality(DeltasOf(h))
    BY DEF Tells
  <1>2. \A k \in 1..Len(t) : t[k] = u[k]
    BY <1>1 DEF Onto, Tells
  <1> QED
    BY <1>1, <1>2, SeqEqual

(* A text with one more piece.                                               *)
LEMMA TextGrows ==
  ASSUME NEW S, NEW h \in Seq(S), NEW e \in S, e.type = "delta",
         NEW R, NEW t \in Seq(R), e.piece \in R, Tells(t, h)
  PROVE  Tells(Append(t, e.piece), Append(h, e))
  <1> DEFINE g == Append(h, e)
             u == Append(t, e.piece)
             n == Len(h) + 1
  <1>1. /\ DeltasOf(g) = DeltasOf(h) \cup {n} /\ g[n] = e
        /\ \A i \in DeltasOf(h) : PlaceOf(g, i) = PlaceOf(h, i)
        /\ \A i \in DeltasOf(h) : g[i] = h[i]
        /\ PlaceOf(g, n) = Cardinality(DeltasOf(h)) + 1
        /\ Cardinality(DeltasOf(g)) = Cardinality(DeltasOf(h)) + 1
    <2>1. DeltasOf(Append(h, e)) = DeltasOf(h) \cup {Len(h) + 1}
      BY DeltaHeard
    <2>2. Append(h, e)[Len(h) + 1] = e
      BY DeltaHeard
    <2>3. \A i \in DeltasOf(h) : PlaceOf(Append(h, e), i) = PlaceOf(h, i)
      BY PlaceKept
    <2>4. \A i \in DeltasOf(h) : Append(h, e)[i] = h[i]
      BY PlaceKept
    <2>5. PlaceOf(Append(h, e), Len(h) + 1) = Cardinality(DeltasOf(h)) + 1
      BY DeltaHeard
    <2>6. Cardinality(DeltasOf(Append(h, e))) = Cardinality(DeltasOf(h)) + 1
      BY DeltaHeard
    <2> QED
      BY <2>1, <2>2, <2>3, <2>4, <2>5, <2>6
  <1>2. /\ Len(u) = Len(t) + 1 /\ Len(t) \in Nat
        /\ (\A i \in 1..Len(t) : u[i] = t[i]) /\ u[Len(t) + 1] = e.piece
    BY AppendProperties, LenProperties
  <1>3. Len(t) = Cardinality(DeltasOf(h)) /\ \A i \in DeltasOf(h) : t[PlaceOf(h, i)] = h[i].piece
    BY DEF Tells
  <1>4. \A i \in DeltasOf(h) : PlaceOf(h, i) \in 1..Cardinality(DeltasOf(h))
    BY DeltasFinite
  <1> HIDE DEF g, u
  <1>5. \A i \in DeltasOf(g) : u[PlaceOf(g, i)] = g[i].piece
    BY <1>1, <1>2, <1>3, <1>4
  <1> QED
    BY <1>1, <1>2, <1>3, <1>5 DEF Tells, g, u

(* What may be heard.                                                        *)
Events ==
  [type : {"metadata"}, late : BOOLEAN]
  \cup [type : {"delta"}, item : Stream!Items, piece : Pieces, late : BOOLEAN]
  \cup [type : {"completed"}, response : Stream!Responses, late : BOOLEAN]
  \cup [type : {"failed"}, response : Stream!Responses]
  \cup [type : {"error"}]

(* While a stream is read, all of it is in order and its deltas are the text.   *)
Streaming ==
  outcome = "open" /\ transport = "streamed" =>
    /\ \A i \in DOMAIN heard : heard[i].type \in {"metadata", "delta"} /\ ~heard[i].late
    /\ Len(heard) <= EventLimit
    /\ Tells(text, heard) /\ Onto(heard)
    /\ \A i \in DeltasOf(heard) : heard[i].item = identity
    /\ identity = "none" <=> DeltasOf(heard) = {}

StreamTyped ==
  /\ transport \in {"streamed", "buffered"} /\ heard \in Seq(Events) /\ text \in Seq(Pieces)
  /\ identity \in Stream!Items \cup {"none"}
  /\ outcome \in {"open", "answer", "refusal", "failed", "stopped"}
  /\ transport = "buffered" => heard = << >>

StreamInvariant ==
  StreamTyped /\ Streaming /\ Stream!AcceptedIffWhole /\ Stream!UsageSurvives

(* What Whole and the usage look at, of the events alone.                     *)
InOrderOf(h) == \A i \in DOMAIN h : h[i].type \in {"failed", "error"} \/ ~h[i].late
TextOf(h, r) ==
  r.shape = "refusal"
  \/ \E item \in Stream!Items :
       DeltasOf(h) # {} /\ (\A i \in DeltasOf(h) : h[i].item = item) /\ Tells(r.texts[item], h)

LEMMA WholeIs ==
  Stream!Whole <=>
    /\ heard # << >> /\ heard[Len(heard)].type = "completed" /\ InOrderOf(heard)
    /\ Len(heard) <= EventLimit /\ Stream!Valid(heard[Len(heard)].response)
    /\ TextOf(heard, heard[Len(heard)].response)
  BY StreamOperators DEF Stream!Whole, Stream!Last, Stream!InOrder, InOrderOf, TextOf

LEMMA WholeNext ==
  Stream!Whole' <=>
    /\ heard' # << >> /\ heard'[Len(heard')].type = "completed" /\ InOrderOf(heard')
    /\ Len(heard') <= EventLimit /\ Stream!Valid(heard'[Len(heard')].response)
    /\ TextOf(heard', heard'[Len(heard')].response)
  <1> DEFINE A == Stream!Whole <=>
                    /\ heard # << >> /\ heard[Len(heard)].type = "completed" /\ InOrderOf(heard)
                    /\ Len(heard) <= EventLimit /\ Stream!Valid(heard[Len(heard)].response)
                    /\ TextOf(heard, heard[Len(heard)].response)
  <1>1. A
    BY WholeIs
  <1> HIDE DEF A
  <1>2. A'
    BY <1>1, PTL
  <1> QED
    BY <1>2 DEF A

(* A stream that fails without a final response.                              *)
LEMMA Unfinished ==
  ASSUME StreamTyped', outcome' \in {"open", "failed", "stopped"}, Streaming',
         heard' # << >> => heard'[Len(heard')].type \notin {"completed", "failed"}
  PROVE  StreamInvariant'
  <1>1. ~Stream!Whole'
    BY WholeNext
  <1>2. Stream!AcceptedIffWhole'
    BY <1>1 DEF Stream!AcceptedIffWhole
  <1>3. Stream!UsageSurvives'
    BY DEF Stream!UsageSurvives, Stream!Last
  <1> QED
    BY <1>2, <1>3 DEF StreamInvariant

(* One more event.                                                          *)
LEMMA EventHeard ==
  ASSUME NEW S, NEW h \in Seq(S), NEW e \in S
  PROVE  /\ Append(h, e) \in Seq(S) /\ Append(h, e) # << >> /\ Len(Append(h, e)) = Len(h) + 1
         /\ Append(h, e)[Len(h) + 1] = e /\ Len(h) \in Nat /\ DOMAIN h = 1..Len(h)
         /\ DOMAIN Append(h, e) = 1..(Len(h) + 1)
         /\ \A i \in 1..Len(h) : Append(h, e)[i] = h[i]
  BY AppendProperties, LenProperties

(* Only deltas and metadata have been heard while the stream is read.          *)
LEMMA Unheard ==
  ASSUME StreamInvariant, outcome = "open"
  PROVE  heard # << >> => heard[Len(heard)].type \notin {"completed", "failed"}
  <1> SUFFICES ASSUME heard # << >> PROVE heard[Len(heard)].type \notin {"completed", "failed"}
    OBVIOUS
  <1>1. transport = "streamed"
    BY DEF StreamInvariant, StreamTyped
  <1>2. Len(heard) \in DOMAIN heard
    BY LenProperties, EmptySeq DEF StreamInvariant, StreamTyped
  <1> QED
    BY <1>1, <1>2 DEF StreamInvariant, Streaming

LEMMA MetadataStep ==
  ASSUME StreamInvariant, NEW late \in BOOLEAN, Stream!Metadata(late) PROVE StreamInvariant'
  <1> DEFINE e == [type |-> "metadata", late |-> late]
  <1>1. /\ outcome = "open" /\ transport = "streamed" /\ heard' = Append(heard, e)
        /\ transport' = transport /\ identity' = identity /\ text' = text
    BY DEF Stream!Metadata, Stream!Hear, Stream!Reading
  <1>2. e \in Events /\ e.type = "metadata" /\ e.late = late
    BY DEF Events
  <1> HIDE DEF e
  <1>3. heard \in Seq(Events)
    BY DEF StreamInvariant, StreamTyped
  <1>4. /\ heard' \in Seq(Events) /\ heard' # << >> /\ Len(heard') = Len(heard) + 1
        /\ heard'[Len(heard) + 1] = e /\ Len(heard) \in Nat /\ DOMAIN heard = 1..Len(heard)
        /\ DOMAIN heard' = 1..(Len(heard) + 1) /\ \A i \in 1..Len(heard) : heard'[i] = heard[i]
    BY <1>1, <1>2, <1>3, EventHeard
  <1>5. outcome' = "failed" \/ (outcome' = "open" /\ ~Stream!TooMany /\ ~late)
    BY <1>1 DEF Stream!Metadata, Stream!End
  <1>6. StreamTyped'
    BY <1>1, <1>4, <1>5 DEF StreamInvariant, StreamTyped
  <1>7. Streaming'
    <2> SUFFICES ASSUME outcome' = "open" PROVE Streaming'
      BY DEF Streaming
    <2>1. ~(Len(heard) >= EventLimit) /\ ~late
      BY <1>5 DEF Stream!TooMany
    <2>2. EventLimit \in Nat
      BY InstanceBounds DEF Stream!StreamBounds
    <2>3. /\ \A i \in DOMAIN heard : heard[i].type \in {"metadata", "delta"} /\ ~heard[i].late
          /\ Tells(text, heard) /\ Onto(heard)
          /\ \A i \in DeltasOf(heard) : heard[i].item = identity
          /\ identity = "none" <=> DeltasOf(heard) = {}
      BY <1>1 DEF StreamInvariant, Streaming
    <2>4. DeltasOf(heard') = DeltasOf(heard) /\ Tells(text', heard') /\ Onto(heard')
      BY <1>1, <1>2, <1>3, <2>3, OtherHeard
    <2>5. \A i \in DOMAIN heard' : heard'[i].type \in {"metadata", "delta"} /\ ~heard'[i].late
      BY <1>2, <1>4, <2>1, <2>3
    <2>6. \A i \in DeltasOf(heard') : heard'[i].item = identity'
      BY <1>1, <1>4, <2>3, <2>4 DEF DeltasOf
    <2>7. Len(heard') <= EventLimit
      BY <1>4, <2>1, <2>2
    <2> QED
      BY <1>1, <2>3, <2>4, <2>5, <2>6, <2>7 DEF Streaming
  <1> QED
    BY <1>2, <1>4, <1>5, <1>6, <1>7, Unfinished

LEMMA TextDeltaStep ==
  ASSUME StreamInvariant, NEW item \in Stream!Items, NEW piece \in Pieces, NEW late \in BOOLEAN,
         Stream!TextDelta(item, piece, late)
  PROVE  StreamInvariant'
  <1> DEFINE e == [type |-> "delta", item |-> item, piece |-> piece, late |-> late]
  <1>1. /\ outcome = "open" /\ transport = "streamed" /\ heard' = Append(heard, e)
        /\ transport' = transport
    BY DEF Stream!TextDelta, Stream!Hear, Stream!Reading
  <1>2. e \in Events /\ e.type = "delta" /\ e.late = late /\ e.item = item /\ e.piece = piece
    BY DEF Events
  <1> HIDE DEF e
  <1>3. heard \in Seq(Events) /\ text \in Seq(Pieces)
    BY DEF StreamInvariant, StreamTyped
  <1>4. /\ heard' \in Seq(Events) /\ heard' # << >> /\ Len(heard') = Len(heard) + 1
        /\ heard'[Len(heard) + 1] = e /\ Len(heard) \in Nat /\ DOMAIN heard = 1..Len(heard)
        /\ DOMAIN heard' = 1..(Len(heard) + 1) /\ \A i \in 1..Len(heard) : heard'[i] = heard[i]
    BY <1>1, <1>2, <1>3, EventHeard
  <1>5. \/ outcome' = "failed" /\ identity' = identity /\ text' = text
        \/ /\ ~Stream!TooMany /\ ~late /\ Stream!Follows(item) /\ outcome' \in {"open", "failed", "stopped"}
           /\ identity' = item /\ text' = Append(text, piece)
    BY <1>1, Zenon DEF Stream!TextDelta, Stream!End, Stream!Preview
  <1>6. StreamTyped'
    <2>1. text' \in Seq(Pieces)
      BY <1>3, <1>5, AppendProperties
    <2> QED
      BY <1>1, <1>4, <1>5, <2>1 DEF StreamInvariant, StreamTyped
  <1>7. Streaming'
    <2> SUFFICES ASSUME outcome' = "open" PROVE Streaming'
      BY DEF Streaming
    <2>0. /\ ~Stream!TooMany /\ ~late /\ Stream!Follows(item) /\ identity' = item
          /\ text' = Append(text, piece)
      BY <1>5
    <2>1. ~(Len(heard) >= EventLimit) /\ identity \in {"none", item}
      BY <2>0 DEF Stream!TooMany, Stream!Follows
    <2>2. EventLimit \in Nat /\ item # "none"
      BY InstanceBounds DEF Stream!StreamBounds, Stream!Items
    <2>3. /\ \A i \in DOMAIN heard : heard[i].type \in {"metadata", "delta"} /\ ~heard[i].late
          /\ Tells(text, heard) /\ Onto(heard)
          /\ \A i \in DeltasOf(heard) : heard[i].item = identity
          /\ identity = "none" <=> DeltasOf(heard) = {}
      BY <1>1 DEF StreamInvariant, Streaming
    <2>4. DeltasOf(heard') = DeltasOf(heard) \cup {Len(heard) + 1}
      BY <1>1, <1>2, <1>3, DeltaHeard
    <2>5. Onto(heard')
      BY <1>1, <1>2, <1>3, <2>3, DeltaHeard
    <2>6. Tells(text', heard')
      <3>1. Tells(Append(text, e.piece), Append(heard, e))
        BY <1>2, <1>3, <2>3, TextGrows
      <3> QED
        BY <3>1, <1>1, <1>2, <2>0
    <2>7. \A i \in DOMAIN heard' : heard'[i].type \in {"metadata", "delta"} /\ ~heard'[i].late
      BY <1>2, <1>4, <2>0, <2>3
    <2>8. \A i \in DeltasOf(heard) : heard'[i].item = item
      BY <1>4, <2>1, <2>3 DEF DeltasOf
    <2>9. \A i \in DeltasOf(heard') : heard'[i].item = identity'
      BY <1>2, <1>4, <2>0, <2>4, <2>8
    <2>10. Len(heard') <= EventLimit
      BY <1>4, <2>1, <2>2
    <2>11. identity' # "none" /\ DeltasOf(heard') # {}
      BY <2>0, <2>2, <2>4
    <2> QED
      BY <1>1, <2>5, <2>6, <2>7, <2>9, <2>10, <2>11 DEF Streaming
  <1>8. outcome' \in {"open", "failed", "stopped"}
    BY <1>5
  <1> QED
    BY <1>2, <1>4, <1>6, <1>7, <1>8, Unfinished

(* A final response that is no completed one.                                 *)
LEMMA FailedStep ==
  ASSUME StreamInvariant, NEW r \in Stream!Responses, Stream!Failed(r) PROVE StreamInvariant'
  <1> DEFINE e == [type |-> "failed", response |-> r]
  <1>1. /\ outcome = "open" /\ transport = "streamed" /\ heard' = Append(heard, e)
        /\ transport' = transport /\ identity' = identity /\ text' = text /\ outcome' = "failed"
        /\ usage' = (~Stream!TooMany /\ Stream!Paid(r) /\ ~Stream!Valid(r))
    BY DEF Stream!Failed, Stream!Hear, Stream!Reading, Stream!End
  <1>2. e \in Events /\ e.type = "failed" /\ e.response = r
    BY DEF Events
  <1> HIDE DEF e
  <1>3. heard \in Seq(Events)
    BY DEF StreamInvariant, StreamTyped
  <1>4. /\ heard' \in Seq(Events) /\ heard' # << >> /\ Len(heard') = Len(heard) + 1
        /\ heard'[Len(heard) + 1] = e /\ Len(heard) \in Nat
    BY <1>1, <1>2, <1>3, EventHeard
  <1>5. StreamTyped' /\ Streaming'
    BY <1>1, <1>4 DEF StreamInvariant, StreamTyped, Streaming
  <1>6. ~Stream!Whole'
    BY <1>2, <1>4, WholeNext
  <1>7. Stream!AcceptedIffWhole'
    BY <1>1, <1>6 DEF Stream!AcceptedIffWhole
  <1>8. Stream!UsageSurvives'
    <2>1. Stream!Last(heard') = e
      BY <1>4 DEF Stream!Last
    <2>2. Len(heard') <= EventLimit => ~Stream!TooMany
      BY <1>4, InstanceBounds DEF Stream!TooMany, Stream!StreamBounds
    <2> QED
      BY <1>1, <1>2, <2>1, <2>2 DEF Stream!UsageSurvives, Stream!Paid
  <1> QED
    BY <1>5, <1>7, <1>8 DEF StreamInvariant

LEMMA FailedBareStep == ASSUME StreamInvariant, Stream!FailedBare PROVE StreamInvariant'
  <1> DEFINE e == [type |-> "error"]
  <1>1. /\ outcome = "open" /\ transport = "streamed" /\ heard' = Append(heard, e)
        /\ transport' = transport /\ identity' = identity /\ text' = text /\ outcome' = "failed"
    BY DEF Stream!FailedBare, Stream!Hear, Stream!Reading, Stream!End
  <1>2. e \in Events /\ e.type = "error"
    BY DEF Events
  <1> HIDE DEF e
  <1>3. heard \in Seq(Events)
    BY DEF StreamInvariant, StreamTyped
  <1>4. /\ heard' \in Seq(Events) /\ heard' # << >> /\ Len(heard') = Len(heard) + 1
        /\ heard'[Len(heard) + 1] = e /\ Len(heard) \in Nat
    BY <1>1, <1>2, <1>3, EventHeard
  <1>5. StreamTyped' /\ Streaming'
    BY <1>1, <1>4 DEF StreamInvariant, StreamTyped, Streaming
  <1> QED
    BY <1>1, <1>2, <1>4, <1>5, Unfinished

LEMMA BreakStep == ASSUME StreamInvariant, Stream!Break PROVE StreamInvariant'
  <1>1. /\ outcome = "open" /\ heard' = heard /\ transport' = transport /\ identity' = identity
        /\ text' = text /\ outcome' = "failed"
    BY DEF Stream!Break, Stream!End
  <1>2. StreamTyped' /\ Streaming'
    BY <1>1 DEF StreamInvariant, StreamTyped, Streaming
  <1> QED
    BY <1>1, <1>2, Unheard, Unfinished

LEMMA LoseRunStep == ASSUME StreamInvariant, Stream!LoseRun PROVE StreamInvariant'
  <1>1. /\ outcome = "open" /\ heard' = heard /\ transport' = transport /\ identity' = identity
        /\ text' = text /\ outcome' = outcome
    BY DEF Stream!LoseRun
  <1>2. StreamTyped' /\ Streaming'
    BY <1>1 DEF StreamInvariant, StreamTyped, Streaming
  <1> QED
    BY <1>1, <1>2, Unheard, Unfinished

LEMMA StreamKept == ASSUME StreamInvariant, UNCHANGED streamVars PROVE StreamInvariant'
  <1>1. /\ heard' = heard /\ transport' = transport /\ identity' = identity /\ text' = text
        /\ drafted' = drafted /\ held' = held /\ outcome' = outcome /\ usage' = usage
    BY DEF streamVars
  <1>2. StreamTyped' /\ Streaming'
    BY <1>1 DEF StreamInvariant, StreamTyped, Streaming
  <1>3. Stream!Whole' <=> Stream!Whole
    BY <1>1, WholeIs, WholeNext
  <1>4. Stream!AcceptedIffWhole' /\ Stream!UsageSurvives'
    BY <1>1, <1>3 DEF StreamInvariant, Stream!AcceptedIffWhole, Stream!UsageSurvives
  <1> QED
    BY <1>2, <1>4 DEF StreamInvariant

LEMMA ResponseTyped ==
  ASSUME NEW r \in Stream!Responses
  PROVE  /\ r.shape \in {"answer", "refusal", "malformed"} /\ r.trusted \in BOOLEAN
         /\ \A item \in Stream!Items : r.texts[item] \in Seq(Pieces)
  <1>1. << >> \in Stream!Texts /\ \A t \in Stream!Texts : t \in Seq(Pieces)
    <2>1. TextLimit \in Nat
      BY InstanceBounds DEF Stream!StreamBounds
    <2>2. \A m \in 0..TextLimit : \A t \in [1..m -> Pieces] : t \in Seq(Pieces)
      BY <2>1, IsASeq
    <2>3. << >> \in [1..0 -> Pieces] /\ 0 \in 0..TextLimit
      BY <2>1, EmptySeq
    <2> QED
      BY <2>2, <2>3 DEF Stream!Texts, Stream!SeqOf
  <1>2. /\ r.shape \in {"answer", "refusal", "malformed"} /\ r.trusted \in BOOLEAN
        /\ r.texts \in [Stream!Items -> Stream!Texts] \/ r.texts \in {[i \in Stream!Items |-> << >>]}
    BY DEF Stream!Responses
  <1> QED
    BY <1>1, <1>2

(* A response confirms the text that was streamed exactly when it is the one    *)
(* that the deltas tell.                                                     *)
LEMMA ConfirmsIs ==
  ASSUME StreamInvariant, outcome = "open", transport = "streamed", NEW r \in Stream!Responses
  PROVE  Stream!Confirms(r) <=>
           \E item \in Stream!Items :
             /\ DeltasOf(heard) # {} /\ \A i \in DeltasOf(heard) : heard[i].item = item
             /\ Tells(r.texts[item], heard)
  <1>1. /\ heard \in Seq(Events) /\ text \in Seq(Pieces) /\ identity \in Stream!Items \cup {"none"}
        /\ Tells(text, heard) /\ Onto(heard)
        /\ \A i \in DeltasOf(heard) : heard[i].item = identity
        /\ identity = "none" <=> DeltasOf(heard) = {}
    BY DEF StreamInvariant, StreamTyped, Streaming
  <1>2. \A item \in Stream!Items : r.texts[item] \in Seq(Pieces)
    BY ResponseTyped
  <1>3. ASSUME Stream!Confirms(r)
        PROVE  \E item \in Stream!Items :
                 /\ DeltasOf(heard) # {} /\ \A i \in DeltasOf(heard) : heard[i].item = item
                 /\ Tells(r.texts[item], heard)
    BY <1>1, <1>3 DEF Stream!Confirms
  <1>4. ASSUME NEW item \in Stream!Items, DeltasOf(heard) # {},
               \A i \in DeltasOf(heard) : heard[i].item = item, Tells(r.texts[item], heard)
        PROVE  Stream!Confirms(r)
    <2>1. identity = item /\ identity # "none"
      BY <1>1, <1>4
    <2>2. r.texts[item] = text
      BY <1>1, <1>2, <1>4, OneText
    <2> QED
      BY <2>1, <2>2 DEF Stream!Confirms
  <1> QED
    BY <1>3, <1>4

LEMMA CompletedStep ==
  ASSUME StreamInvariant, NEW r \in Stream!Responses, NEW late \in BOOLEAN, Stream!Completed(r, late)
  PROVE  StreamInvariant'
  <1> DEFINE e == [type |-> "completed", response |-> r, late |-> late]
             accepted == /\ ~Stream!TooMany /\ ~late
                         /\ Stream!Valid(r) /\ (r.shape = "refusal" \/ Stream!Confirms(r))
  <1>1. /\ outcome = "open" /\ transport = "streamed" /\ heard' = Append(heard, e)
        /\ transport' = transport /\ identity' = identity /\ text' = text
    BY DEF Stream!Completed, Stream!Hear, Stream!Reading
  <1>2. e \in Events /\ e.type = "completed" /\ e.response = r /\ e.late = late
    BY DEF Events
  <1> HIDE DEF e
  <1>3. heard \in Seq(Events) /\ EventLimit \in Nat
    BY InstanceBounds DEF StreamInvariant, StreamTyped, Stream!StreamBounds
  <1>4. /\ heard' \in Seq(Events) /\ heard' # << >> /\ Len(heard') = Len(heard) + 1
        /\ heard'[Len(heard) + 1] = e /\ Len(heard) \in Nat /\ DOMAIN heard = 1..Len(heard)
        /\ DOMAIN heard' = 1..(Len(heard) + 1) /\ \A i \in 1..Len(heard) : heard'[i] = heard[i]
    BY <1>1, <1>2, <1>3, EventHeard
  <1>5. /\ r.shape \in {"answer", "refusal", "malformed"} /\ r.trusted \in BOOLEAN
    BY ResponseTyped
  <1>6. /\ outcome' = IF accepted THEN r.shape ELSE "failed"
        /\ usage' = (~Stream!TooMany /\ ~late /\ Stream!Paid(r))
    <2>1. CASE Stream!TooMany \/ late
      <3>1. outcome' = "failed" /\ usage' = FALSE
        BY <2>1 DEF Stream!Completed, Stream!End
      <3> QED
        BY <2>1, <3>1
    <2>2. CASE ~(Stream!TooMany \/ late)
      <3>1. /\ outcome' = IF Stream!Valid(r) /\ (r.shape = "refusal" \/ Stream!Confirms(r))
                          THEN r.shape ELSE "failed"
            /\ usage' = Stream!Paid(r)
        BY <2>2 DEF Stream!Completed, Stream!End
      <3> QED
        BY <1>5, <2>2, <3>1 DEF Stream!Paid
    <2> QED
      BY <2>1, <2>2
  <1>7. accepted => r.shape \in {"answer", "refusal"}
    BY <1>5 DEF Stream!Valid
  <1>8. Stream!TooMany <=> ~(Len(heard') <= EventLimit)
    BY <1>3, <1>4 DEF Stream!TooMany
  <1>9. InOrderOf(heard') <=> ~late
    <2>1. \A i \in 1..Len(heard) : heard'[i].type \in {"metadata", "delta"} /\ ~heard'[i].late
      BY <1>1, <1>4 DEF StreamInvariant, Streaming
    <2> QED
      BY <1>2, <1>4, <2>1 DEF InOrderOf
  <1>10. /\ DeltasOf(heard') = DeltasOf(heard) /\ \A t : Tells(t, heard') <=> Tells(t, heard)
    BY <1>1, <1>2, <1>3, OtherHeard
  <1>11. TextOf(heard', r) <=> r.shape = "refusal" \/ Stream!Confirms(r)
    <2>1. \A i \in DeltasOf(heard) : heard'[i] = heard[i]
      BY <1>4 DEF DeltasOf
    <2>2. ASSUME NEW item
          PROVE  (\A i \in DeltasOf(heard') : heard'[i].item = item)
                 <=> (\A i \in DeltasOf(heard) : heard[i].item = item)
      BY <1>10, <2>1
    <2>3. Stream!Confirms(r) <=>
            \E item \in Stream!Items :
              /\ DeltasOf(heard) # {} /\ \A i \in DeltasOf(heard) : heard[i].item = item
              /\ Tells(r.texts[item], heard)
      BY <1>1, ConfirmsIs
    <2> QED
      BY <1>10, <2>2, <2>3, Zenon DEF TextOf
  <1>12. Stream!Whole' <=> accepted
    BY <1>2, <1>4, <1>8, <1>9, <1>11, WholeNext
  <1>13. StreamTyped' /\ Streaming'
    <2>1. outcome' \in {"answer", "refusal", "failed"}
      BY <1>6, <1>7
    <2> QED
      BY <1>1, <1>4, <2>1 DEF StreamInvariant, StreamTyped, Streaming
  <1>14. Stream!Last(heard') = e
    BY <1>4 DEF Stream!Last
  <1>15. Stream!AcceptedIffWhole'
    <2>1. outcome' \in {"answer", "refusal"} <=> accepted
      BY <1>6, <1>7
    <2>2. outcome' = "answer" /\ identity' = "message" => r.texts["message"] = text'
      BY <1>1, <1>6 DEF Stream!Confirms
    <2> HIDE DEF accepted
    <2> QED
      BY <1>2, <1>12, <1>14, <2>1, <2>2 DEF Stream!AcceptedIffWhole
  <1>16. Stream!UsageSurvives'
    <2>1. accepted => usage'
      BY <1>6 DEF Stream!Valid, Stream!Paid
    <2>2. outcome' \in {"answer", "refusal"} <=> accepted
      BY <1>6, <1>7
    <2> HIDE DEF accepted
    <2> QED
      BY <1>2, <1>6, <1>8, <1>14, <2>1, <2>2 DEF Stream!UsageSurvives, Stream!Paid
  <1> QED
    BY <1>13, <1>15, <1>16 DEF StreamInvariant

(* A response that is not streamed.                                           *)
LEMMA BufferedStep ==
  ASSUME StreamInvariant, NEW r \in Stream!Responses, Stream!Buffered(r) PROVE StreamInvariant'
  <1>1. /\ outcome = "open" /\ transport = "buffered" /\ heard' = heard /\ transport' = transport
        /\ identity' = identity /\ text' = text
        /\ outcome' = (IF Stream!Valid(r) THEN r.shape ELSE "failed") /\ usage' = Stream!Paid(r)
    BY DEF Stream!Buffered, Stream!End
  <1>2. r.shape \in {"answer", "refusal", "malformed"} /\ r.trusted \in BOOLEAN
    BY ResponseTyped
  <1>3. heard = << >>
    BY <1>1 DEF StreamInvariant, StreamTyped
  <1>4. /\ Stream!Valid(r) => outcome' \in {"answer", "refusal"} /\ usage'
        /\ ~Stream!Valid(r) => outcome' = "failed"
    BY <1>1, <1>2 DEF Stream!Valid, Stream!Paid
  <1>5. StreamTyped' /\ Streaming'
    BY <1>1, <1>4 DEF StreamInvariant, StreamTyped, Streaming
  <1>6. Stream!AcceptedIffWhole' /\ Stream!UsageSurvives'
    BY <1>1, <1>3, <1>4 DEF Stream!AcceptedIffWhole, Stream!UsageSurvives
  <1> QED
    BY <1>5, <1>6 DEF StreamInvariant

LEMMA StreamStep == ASSUME StreamInvariant, Stream!Next PROVE StreamInvariant'
  <1>1. ASSUME NEW late \in BOOLEAN, Stream!Metadata(late) PROVE StreamInvariant'
    BY <1>1, MetadataStep
  <1>2. ASSUME NEW late \in BOOLEAN, NEW item \in Stream!Items, NEW piece \in Pieces,
               Stream!TextDelta(item, piece, late)
        PROVE  StreamInvariant'
    BY <1>2, TextDeltaStep
  <1>3. ASSUME NEW late \in BOOLEAN, NEW r \in Stream!Responses, Stream!Completed(r, late)
        PROVE  StreamInvariant'
    BY <1>3, CompletedStep
  <1>4. ASSUME NEW r \in Stream!Responses, Stream!Failed(r) PROVE StreamInvariant'
    BY <1>4, FailedStep
  <1>5. ASSUME NEW r \in Stream!Responses, Stream!Buffered(r) PROVE StreamInvariant'
    BY <1>5, BufferedStep
  <1> QED
    BY <1>1, <1>2, <1>3, <1>4, <1>5, FailedBareStep, BreakStep, LoseRunStep DEF Stream!Next

LEMMA StreamInit == ASSUME Stream!Init PROVE StreamInvariant
  <1>1. /\ transport \in {"streamed", "buffered"} /\ heard = << >> /\ identity = "none"
        /\ text = << >> /\ outcome = "open"
    BY DEF Stream!Init
  <1>2. heard \in Seq(Events) /\ text \in Seq(Pieces) /\ Len(heard) = 0 /\ DOMAIN heard = {}
        /\ Len(text) = 0
    BY <1>1, EmptySeq
  <1>3. DeltasOf(heard) = {} /\ Cardinality(DeltasOf(heard)) = 0
    BY <1>2, FS_EmptySet DEF DeltasOf
  <1>4. StreamTyped
    BY <1>1, <1>2 DEF StreamTyped
  <1>5. Streaming
    BY <1>1, <1>2, <1>3, InstanceBounds DEF Streaming, Tells, Onto, Stream!StreamBounds
  <1>6. Stream!AcceptedIffWhole
    BY <1>1 DEF Stream!AcceptedIffWhole, Stream!Whole
  <1>7. Stream!UsageSurvives
    BY <1>1 DEF Stream!UsageSurvives
  <1> QED
    BY <1>4, <1>5, <1>6, <1>7 DEF StreamInvariant

StreamPart == part = "stream" => StreamInvariant

(* Whatever the provider sends, and however it is split into events.           *)
THEOREM StreamsAreChecked == Spec => []StreamPart
  <1>1. Init => StreamPart
    BY StreamInit DEF Init, StreamPart, PureInit
  <1>2. StreamPart /\ [Next]_<<pureVars, fileVars, streamVars>> => StreamPart'
    <2> SUFFICES ASSUME StreamPart, [Next]_<<pureVars, fileVars, streamVars>>, part' = "stream"
                 PROVE  StreamInvariant'
      BY DEF StreamPart
    <2>1. CASE Next
      <3>1. part = "stream" /\ Stream!Next
        BY <2>1 DEF Next, pureVars
      <3> QED
        BY <3>1, StreamStep DEF StreamPart
    <2>2. CASE UNCHANGED <<pureVars, fileVars, streamVars>>
      <3>1. part' = part /\ UNCHANGED streamVars
        BY <2>2 DEF pureVars
      <3>2. StreamInvariant
        BY <3>1 DEF StreamPart
      <3> QED
        BY <3>1, <3>2, StreamKept
    <2> QED
      BY <2>1, <2>2
  <1> QED
    BY <1>1, <1>2, PTL DEF Spec

(* A streamed answer is accepted exactly when its stream was whole, and no       *)
(* draft was ever shown that is not a beginning of its text.                  *)
THEOREM OnlyWholeStreamsAreAccepted == Spec => []AcceptedIffWhole
  <1>1. StreamPart => AcceptedIffWhole
    BY DEF StreamPart, StreamInvariant, AcceptedIffWhole
  <1> QED
    BY <1>1, StreamsAreChecked, PTL

(* No answer is accepted without its cost, and no final response whose usage     *)
(* can be trusted is rejected without it.                                     *)
THEOREM UsageIsNeverLost == Spec => []UsageSurvives
  <1>1. StreamPart => UsageSurvives
    BY DEF StreamPart, StreamInvariant, UsageSurvives
  <1> QED
    BY <1>1, StreamsAreChecked, PTL

-----------------------------------------------------------------------------
(* The input of a pure part is one of those that were enumerated.             *)
Given ==
  /\ part = "ranking" => input \in Found
  /\ part = "evidence" => input \in Hits
  /\ part = "history" => input \in Dialogues
  /\ part = "archive" => input \in Packed

LEMMA InputIsGiven == Spec => []Given
  <1>1. Init => Given
    BY DEF Init, PureInit, Given
  <1>2. Given /\ [Next]_<<pureVars, fileVars, streamVars>> => Given'
    BY DEF Given, Next, pureVars
  <1> QED
    BY <1>1, <1>2, PTL DEF Spec

(* A dialogue of the runs is one of the turns the theorem is about.            *)
LEMMA DialoguesAreTurns ==
  ASSUME NEW d \in Dialogues PROVE d.turns \in Seq(Turns) /\ d.base \in Measures
  <1>1. d.base \in Measures
    BY DEF Dialogues, Measures
  <1>2. Remarkable \subseteq Turns
    <2>1. Small \subseteq Measures /\ [tokens |-> 1, bytes |-> 1] \in Measures
      BY DEF Small, Measures
    <2> SUFFICES ASSUME NEW x \in Remarkable PROVE x \in Turns
      OBVIOUS
    <2>2. CASE x \in [source : {"same"}, answered : {TRUE}, quotable : {TRUE}, size : Small]
      BY <2>1, <2>2 DEF Turns
    <2>3. CASE x = [source |-> "other", answered |-> TRUE, quotable |-> TRUE,
                    size |-> [tokens |-> 1, bytes |-> 1]]
      BY <2>1, <2>3 DEF Turns
    <2>4. CASE x = [source |-> "same", answered |-> FALSE, quotable |-> TRUE,
                    size |-> [tokens |-> 1, bytes |-> 1]]
      BY <2>1, <2>4 DEF Turns
    <2>5. CASE x = [source |-> "same", answered |-> TRUE, quotable |-> FALSE,
                    size |-> [tokens |-> 1, bytes |-> 1]]
      BY <2>1, <2>5 DEF Turns
    <2> QED
      BY <2>2, <2>3, <2>4, <2>5 DEF Remarkable
  <1>3. d.turns \in SeqOf(Remarkable, 4)
    <2>1. CASE d \in [turns : SeqOf(Remarkable, 4), base : [tokens : {2, 5, 8}, bytes : {3}]]
      BY <2>1
    <2>2. CASE d \in [turns : SeqOf(Remarkable, 3), base : [tokens : {3}, bytes : {2, 5, 8}]]
      <3>1. d.turns \in SeqOf(Remarkable, 3)
        BY <2>2
      <3>2. \A m \in 0..3 : m \in 0..4
        OBVIOUS
      <3> QED
        BY <3>1, <3>2 DEF SeqOf
    <2> QED
      BY <2>1, <2>2 DEF Dialogues
  <1>4. PICK m \in 0..4 : d.turns \in [1..m -> Remarkable]
    BY <1>3 DEF SeqOf
  <1>5. d.turns \in [1..m -> Turns] /\ m \in Nat
    BY <1>2, <1>4
  <1> QED
    BY <1>1, <1>5

(* What the channels found (retrieval/ranking.py, fuse) is ranked so that a      *)
(* chunk that more of them found stands above every chunk that fewer found.    *)
THEOREM AgreementIsRankedFirst == Spec => []AgreementWins
  <1>1. Given => AgreementWins
    <2> SUFFICES ASSUME input \in Found PROVE AgreementWinsFor(input)
      BY DEF Given, AgreementWins
    <2>1. Lists(1..4) \subseteq Lists(Nat)
      <3>1. \A m : [1..m -> 1..4] \subseteq [1..m -> Nat]
        OBVIOUS
      <3>2. SeqOf(1..4, CandidateLimit) \subseteq SeqOf(Nat, CandidateLimit)
        BY <3>1 DEF SeqOf
      <3> QED
        BY <3>2 DEF Lists
    <2>2. \A ch \in Channels : input[ch] \in Lists(1..4)
      BY DEF Found, Numbered, Channels
    <2> QED
      BY <2>1, <2>2, AgreementRanks
  <1> QED
    BY <1>1, InputIsGiven, PTL

(* The evidence of an answer (retrieval/context.py, build_context) fits its     *)
(* budget and leaves no better hit out for a worse one.                       *)
THEOREM EvidenceFitsItsBudget == Spec => []EvidenceIsFirstFit
  <1>1. Given => EvidenceIsFirstFit
    <2> SUFFICES ASSUME input \in Hits PROVE EvidenceIsFirstFitFor(input)
      BY DEF Given, EvidenceIsFirstFit
    <2>1. input \in [1..4 -> Nat] /\ 4 \in Nat
      BY DEF Hits
    <2> QED
      BY <2>1, PackingIsFirstFit
  <1> QED
    BY <1>1, InputIsGiven, PTL

(* What the model is told of a conversation (generation/history.py) is its      *)
(* longest uninterrupted end that may be remembered and leaves room.          *)
THEOREM HistoryNeverSkips == Spec => []HistoryIsRecentSuffix
  <1>1. Given => HistoryIsRecentSuffix
    <2> SUFFICES ASSUME input \in Dialogues
                 PROVE  HistoryIsRecentSuffixFor(input.turns, input.base)
      BY DEF Given, HistoryIsRecentSuffix
    <2>1. input.turns \in Seq(Turns) /\ input.base \in Measures
      BY DialoguesAreTurns
    <2> QED
      BY <2>1, HistoryIsRecent
  <1> QED
    BY <1>1, InputIsGiven, PTL

(* An archive of the runs is one of those the theorem is about.               *)
LEMMA PackedAreArchives == ASSUME NEW a \in Packed PROVE a \in Archives
  <1>1. Plain \in Members
    BY DEF Plain, Members
  <1>2. [Plain EXCEPT !.type = "dir"] \in Members
    BY DEF Plain, Members
  <1>3. Usual \subseteq Members
    <2> SUFFICES ASSUME NEW m \in Usual PROVE m \in Members
      OBVIOUS
    <2>1. m.size \in Nat
      BY DEF Usual
    <2>2. /\ m = [safe |-> m.safe, root |-> m.root, path |-> m.path, type |-> m.type,
                  kept |-> m.kept, size |-> m.size, text |-> m.text]
          /\ m.safe \in BOOLEAN /\ m.root \in {"r", "s"} /\ m.path \in {"", "a", "b"}
          /\ m.type \in {"dir", "file", "link"} /\ m.kept \in BOOLEAN
          /\ m.text \in {"utf8", "binary", "lfs pointer"}
      BY DEF Usual
    <2> QED
      BY <2>1, <2>2 DEF Members
  <1>4. Odd \subseteq Members
    <2>1. 1 \in Nat
      OBVIOUS
    <2>2. [Plain EXCEPT !.safe = FALSE] \in Members /\ [Plain EXCEPT !.root = "s"] \in Members
      BY <2>1 DEF Plain, Members
    <2>3. [Plain EXCEPT !.path = ""] \in Members /\ [Plain EXCEPT !.type = "link"] \in Members
      BY <2>1 DEF Plain, Members
    <2>4. [Plain EXCEPT !.kept = FALSE] \in Members /\ [Plain EXCEPT !.text = "binary"] \in Members
      BY <2>1 DEF Plain, Members
    <2>5. [Plain EXCEPT !.path = "b", !.text = "lfs pointer"] \in Members
      BY <2>1 DEF Plain, Members
    <2> QED
      BY <1>2, <2>2, <2>3, <2>4, <2>5 DEF Odd
  <1>5. \A m \in 0..3 : \A l \in [1..m -> Usual \cup Odd] : l \in Seq(Members)
    <2> SUFFICES ASSUME NEW m \in 0..3, NEW l \in [1..m -> Usual \cup Odd] PROVE l \in Seq(Members)
      OBVIOUS
    <2>1. l \in [1..m -> Members] /\ m \in Nat
      BY <1>3, <1>4
    <2> QED
      BY <2>1
  <1>6. \A l \in SeqOf(Usual \cup Odd, 3) : l \in Seq(Members)
    BY <1>5 DEF SeqOf
  <1>7. \A l \in [1..4 -> {Plain, [Plain EXCEPT !.type = "dir"]}] : l \in Seq(Members)
    <2> SUFFICES ASSUME NEW l \in [1..4 -> {Plain, [Plain EXCEPT !.type = "dir"]}]
                 PROVE  l \in Seq(Members)
      OBVIOUS
    <2> DEFINE m == 4
    <2>1. l \in [1..m -> Members] /\ m \in Nat
      BY <1>1, <1>2
    <2> HIDE DEF m
    <2> QED
      BY <2>1
  <1>8. a.members \in Seq(Members)
    BY <1>6, <1>7 DEF Packed
  <1> QED
    BY <1>8 DEF Packed, Archives

(* An archive (indexing/archive.py, read_archive) is accepted exactly when it   *)
(* is whole, safe, of one root and within every limit, with all its files.     *)
THEOREM AcceptedArchivesAreExact == Spec => []ArchiveIsExact
  <1>1. Given => ArchiveIsExact
    BY PackedAreArchives, ArchivesAreRead DEF Given, ArchiveIsExact
  <1> QED
    BY <1>1, InputIsGiven, PTL

(* Every file that can be parsed is cut into the chunks that it should be cut     *)
(* into. Why: the definitions of a file lie in one another or apart, so regions   *)
(* are apart and what they do not hold is a gap; a span is one of them or of a    *)
(* gap, and a cut takes from its beginning what fits, up to the end of a line.    *)
THEOREM FilesAreCutExactly == Spec => []ChunksAreExact
  <1> DEFINE Cutting == part = "chunking" => FileInv
  <1>0. File!ChunkingBounds
    BY InstanceBounds
  <1>1. Init => Cutting
    BY <1>0, FileBegins DEF Init, PureInit
  <1>2. Cutting /\ [Next]_<<pureVars, fileVars, streamVars>> => Cutting'
    <2> SUFFICES ASSUME Cutting, [Next]_<<pureVars, fileVars, streamVars>>, part' = "chunking"
                 PROVE  FileInv'
      OBVIOUS
    <2>1. part = "chunking" /\ (File!Next \/ UNCHANGED fileVars)
      BY DEF Next, pureVars
    <2>2. FileInv
      BY <2>1
    <2> QED
      BY <1>0, <2>1, <2>2, GapOpens, RegionOpens, SpanIsCut, FileStutters DEF File!Next
  <1>3. Cutting => ChunksAreExact
    BY FileIsExact DEF ChunksAreExact
  <1> HIDE DEF Cutting
  <1> QED
    BY <1>1, <1>2, <1>3, PTL DEF Spec

=============================================================================
