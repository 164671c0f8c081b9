------------------------------ MODULE FiniteSums ------------------------------
(***************************************************************************)
(* Sums over finite sets, as MapThenSumSet of the community modules forms  *)
(* them: facts that the proofs about TransferSaga need.  An induction over *)
(* finite sets is written as the search for a smallest counterexample.     *)
(***************************************************************************)
EXTENDS Integers, FiniteSetsExt, FiniteSetTheorems, WellFoundedInduction, TLAPS

\* The sum of f[x] for the x in S.
SumOf(f, S) == MapThenSumSet(LAMBDA x : f[x], S)

First(s) == CHOOSE x \in s : TRUE

\* sums adds f up over every subset of S.
Sums(f, S, sums) ==
    sums = [s \in SUBSET S |->
               IF s = {} THEN 0 ELSE f[First(s)] + sums[s \ {First(s)}]]

\* What the definition of MapThenSumSet comes down to.
LEMMA SumIs == \A f, S : SumOf(f, S) = (CHOOSE sums : Sums(f, S, sums))[S]
  BY DEF SumOf, MapThenSumSet, MapThenFoldSet, Sums, First

\* Of the subsets of a finite set that have a property one is smallest.
LEMMA SmallestSubset ==
    ASSUME NEW S, IsFiniteSet(S), NEW C \in SUBSET SUBSET S, C # {}
    PROVE  \E s \in C : \A t \in C : t \subseteq s => t = s
<1>1. C \subseteq FiniteSubsetsOf(S)
  BY FS_Subset DEF FiniteSubsetsOf
<1>2. IsWellFoundedOn(StrictSubsetOrdering(S), FiniteSubsetsOf(S))
  BY FS_StrictSubsetOrderingWellFounded
<1>3. PICK s \in C : \A t \in C : ~ (<<t, s>> \in StrictSubsetOrdering(S))
  BY <1>1, <1>2, WFMin
<1>. QED
  BY <1>3 DEF StrictSubsetOrdering
LEMMA FirstIn == \A s : s # {} => First(s) \in s
  BY DEF First

\* Sums over a set depend only on what the function says of its elements.
LEMMA SumsAgree ==
    ASSUME NEW S, IsFiniteSet(S), NEW T, NEW f, NEW e, NEW g, NEW h,
           Sums(f, S, g), Sums(e, T, h),
           NEW s \in SUBSET S, s \subseteq T, \A x \in s : f[x] = e[x]
    PROVE  g[s] = h[s]
<1> DEFINE C == {t \in SUBSET s : g[t] # h[t]}
<1>1. SUFFICES ASSUME C # {} PROVE FALSE
  OBVIOUS
<1>2. IsFiniteSet(s)
  BY FS_Subset
<1>3. PICK t \in C : \A u \in C : u \subseteq t => u = t
  <2>1. C \in SUBSET SUBSET s
    OBVIOUS
  <2>. HIDE DEF C
  <2>. QED
    BY <1>1, <1>2, <2>1, SmallestSubset
<1>4. /\ t \in SUBSET s /\ t \in SUBSET S /\ t \in SUBSET T /\ g[t] # h[t]
  OBVIOUS
<1> DEFINE x == First(t)
           r == t \ {x}
<1>5. /\ g[t] = IF t = {} THEN 0 ELSE f[x] + g[r]
      /\ h[t] = IF t = {} THEN 0 ELSE e[x] + h[r]
  BY <1>4 DEF Sums
<1>6. x \in t
  BY <1>4, <1>5, FirstIn
<1>7. r \subseteq t /\ r # t /\ r \in SUBSET s
  BY <1>4, <1>6
<1>8. g[r] = h[r]
  BY <1>3, <1>7
<1>9. f[x] = e[x]
  BY <1>4, <1>6
<1>. QED
  BY <1>4, <1>5, <1>8, <1>9

\* What the definition of SumOf chooses exists.
LEMMA SumsExist ==
    ASSUME NEW S, IsFiniteSet(S), NEW f
    PROVE  Sums(f, S, CHOOSE g : Sums(f, S, g))
<1> DEFINE C == {t \in SUBSET S : \A g : ~ Sums(f, t, g)}
<1>1. SUFFICES ASSUME C # {} PROVE FALSE
  <2>1. S \notin C => \E g : Sums(f, S, g)
    OBVIOUS
  <2>. QED
    BY <1>1, <2>1, Zenon
<1>2. PICK s \in C : \A u \in C : u \subseteq s => u = s
  <2>1. C \in SUBSET SUBSET S
    OBVIOUS
  <2>. HIDE DEF C
  <2>. QED
    BY <1>1, <2>1, SmallestSubset
<1>3. s \in SUBSET S /\ IsFiniteSet(s) /\ \A g : ~ Sums(f, s, g)
  BY FS_Subset
<1>4. ASSUME NEW t \in SUBSET s, t # s
      PROVE  Sums(f, t, CHOOSE g : Sums(f, t, g))
  <2>1. t \in SUBSET S /\ t \notin C
    BY <1>2, <1>3, <1>4
  <2>2. \E g : Sums(f, t, g)
    BY <2>1
  <2>. QED
    BY <2>2, Zenon
<1> DEFINE v(t) == (CHOOSE g : Sums(f, t, g))[t]
           w(t) == IF t = s /\ s # {} THEN f[First(s)] + v(s \ {First(s)})
                   ELSE IF s = {} THEN 0 ELSE v(t)
           h == [t \in SUBSET s |-> w(t)]
<1>5. ASSUME NEW t \in SUBSET s, t # {}
      PROVE  w(t) = f[First(t)] + w(t \ {First(t)})
  <2> DEFINE x == First(t)
             r == t \ {x}
  <2>1. x \in t /\ r \in SUBSET s /\ r # s /\ s # {} /\ r \subseteq t
    BY <1>5, FirstIn
  <2>2. w(r) = v(r)
    BY <2>1
  <2>3. CASE t = s
    BY <2>1, <2>2, <2>3
  <2>4. CASE t # s
    <3> DEFINE g == CHOOSE k : Sums(f, t, k)
               k == CHOOSE j : Sums(f, r, j)
    <3>1. Sums(f, t, g) /\ Sums(f, r, k)
      BY <1>4, <2>1, <2>4
    <3>2. IsFiniteSet(t) /\ t \in SUBSET t /\ r \in SUBSET t
      BY <1>3, <2>1, FS_Subset
    <3>3. g[t] = f[x] + g[r]
      <4> HIDE DEF g
      <4>. QED
        BY <3>1, <3>2, <1>5 DEF Sums
    <3>4. g[r] = k[r]
      <4> HIDE DEF g, k, r
      <4>. QED
        BY <3>1, <3>2, SumsAgree
    <3>5. w(t) = g[t] /\ v(r) = k[r]
      BY <2>1, <2>4
    <3>. QED
      BY <2>2, <3>3, <3>4, <3>5
  <2>. QED
    BY <2>3, <2>4
<1>6. w({}) = 0
  <2>1. CASE s = {}
    BY <2>1
  <2>2. CASE s # {}
    <3> DEFINE g == CHOOSE k : Sums(f, {}, k)
    <3>1. Sums(f, {}, g)
      BY <1>4, <2>2
    <3>2. g[{}] = 0
      <4> HIDE DEF g
      <4>. QED
        BY <3>1 DEF Sums
    <3>. QED
      BY <2>2, <3>2
  <2>. QED
    BY <2>1, <2>2
<1>7. \A t \in SUBSET s : h[t] = w(t) /\ (t \ {First(t)}) \in SUBSET s
  OBVIOUS
<1>8. \A t \in SUBSET s :
        h[t] = IF t = {} THEN 0 ELSE f[First(t)] + h[t \ {First(t)}]
  <2> HIDE DEF h, w
  <2>. QED
    BY <1>5, <1>6, <1>7
<1>9. Sums(f, s, h)
  <2>1. h = [t \in SUBSET s |-> h[t]]
    OBVIOUS
  <2> HIDE DEF h, w
  <2>. QED
    BY <1>8, <2>1 DEF Sums
<1>. QED
  BY <1>3, <1>9

LEMMA SumOfEmpty == ASSUME NEW f PROVE SumOf(f, {}) = 0
<1> DEFINE g == CHOOSE h : Sums(f, {}, h)
<1>1. Sums(f, {}, g)
  BY SumsExist, FS_EmptySet
<1>2. g[{}] = 0
  <2> HIDE DEF g
  <2>. QED
    BY <1>1 DEF Sums
<1>. QED
  BY <1>2, SumIs

LEMMA SumOfAgrees ==
    ASSUME NEW S, IsFiniteSet(S), NEW f, NEW e, \A x \in S : f[x] = e[x]
    PROVE  SumOf(f, S) = SumOf(e, S)
<1> DEFINE g == CHOOSE k : Sums(f, S, k)
           h == CHOOSE k : Sums(e, S, k)
<1>1. Sums(f, S, g) /\ Sums(e, S, h)
  BY SumsExist
<1>2. SumOf(f, S) = g[S] /\ SumOf(e, S) = h[S]
  BY SumIs
<1> HIDE DEF g, h
<1>. QED
  BY <1>1, <1>2, SumsAgree

\* A sum may start with any element.
LEMMA SumOfSplit ==
    ASSUME NEW S, IsFiniteSet(S), NEW f, \A x \in S : f[x] \in Int
    PROVE  /\ SumOf(f, S) \in Int
           /\ \A x \in S : SumOf(f, S) = f[x] + SumOf(f, S \ {x})
<1> DEFINE g == CHOOSE k : Sums(f, S, k)
<1>1. Sums(f, S, g)
  BY SumsExist
<1>2. SumOf(f, S) = g[S]
  BY SumIs
<1> HIDE DEF g
<1>3. \A s \in SUBSET S : g[s] = IF s = {} THEN 0 ELSE f[First(s)] + g[s \ {First(s)}]
  BY <1>1 DEF Sums
<1>4. \A s \in SUBSET S : g[s] \in Int
  <2> DEFINE C == {s \in SUBSET S : g[s] \notin Int}
  <2>1. SUFFICES ASSUME C # {} PROVE FALSE
    OBVIOUS
  <2>2. PICK s \in C : \A t \in C : t \subseteq s => t = s
    <3>1. C \in SUBSET SUBSET S
      OBVIOUS
    <3>. HIDE DEF C
    <3>. QED
      BY <2>1, <3>1, SmallestSubset
  <2>3. CASE s = {}
    <3>1. g[s] \notin Int /\ s \in SUBSET S
      OBVIOUS
    <3>. HIDE DEF C
    <3>2. g[s] = 0
      BY <1>3, <2>3, <3>1
    <3>. QED
      BY <3>1, <3>2
  <2>4. CASE s # {}
    <3> DEFINE r == s \ {First(s)}
    <3>1. First(s) \in s
      BY <2>4, FirstIn
    <3>2. r \notin C /\ r \in SUBSET S
      BY <2>2, <3>1
    <3>3. g[r] \in Int /\ f[First(s)] \in Int
      BY <3>1, <3>2
    <3>4. g[s] = f[First(s)] + g[r]
      BY <1>3, <2>4
    <3>. QED
      BY <3>3, <3>4
  <2>. QED
    BY <2>3, <2>4
<1>5. \A s \in SUBSET S : \A x \in s : g[s] = f[x] + g[s \ {x}]
  <2> DEFINE C == {s \in SUBSET S : \E x \in s : g[s] # f[x] + g[s \ {x}]}
  <2>1. SUFFICES ASSUME C # {} PROVE FALSE
    OBVIOUS
  <2>2. PICK s \in C : \A t \in C : t \subseteq s => t = s
    <3>1. C \in SUBSET SUBSET S
      OBVIOUS
    <3>. HIDE DEF C
    <3>. QED
      BY <2>1, <3>1, SmallestSubset
  <2>3. PICK x \in s : g[s] # f[x] + g[s \ {x}]
    OBVIOUS
  <2> DEFINE y == First(s)
             sx == s \ {x}
             sy == s \ {y}
  <2>4. y \in s /\ g[s] = f[y] + g[sy]
    BY <1>3, <2>3, FirstIn
  <2>5. x # y
    BY <2>3, <2>4
  <2>6. /\ sx \in SUBSET S /\ sy \in SUBSET S /\ sx \subseteq s /\ sy \subseteq s
        /\ sx # s /\ sy # s /\ y \in sx /\ x \in sy
    BY <2>2, <2>3, <2>4, <2>5
  <2>7. sx \notin C /\ sy \notin C
    BY <2>2, <2>6
  <2>8. g[sx] = f[y] + g[sx \ {y}] /\ g[sy] = f[x] + g[sy \ {x}]
    BY <2>6, <2>7
  <2>9. sx \ {y} = sy \ {x} /\ (sx \ {y}) \in SUBSET S
    BY <2>6
  <2> DEFINE m == sx \ {y}
  <2>10. g[sx] = f[y] + g[m] /\ g[sy] = f[x] + g[m]
    BY <2>8, <2>9
  <2>11. f[x] \in Int /\ f[y] \in Int /\ g[m] \in Int
    BY <1>4, <2>3, <2>4, <2>6, <2>9
  <2> HIDE DEF y, sx, sy, m, C
  <2>12. g[s] # f[x] + g[sx]
    BY <2>3 DEF sx
  <2>. QED
    BY <2>4, <2>10, <2>11, <2>12
<1>6. ASSUME NEW x \in S PROVE SumOf(f, S) = f[x] + SumOf(f, S \ {x})
  <2> DEFINE r == S \ {x}
             h == CHOOSE k : Sums(f, r, k)
  <2>1. IsFiniteSet(r) /\ r \in SUBSET S /\ r \subseteq r
    BY FS_Subset
  <2>2. Sums(f, r, h)
    BY <2>1, SumsExist
  <2>3. SumOf(f, r) = h[r]
    BY SumIs
  <2> HIDE DEF h, r
  <2>4. h[r] = g[r]
    BY <1>1, <2>1, <2>2, SumsAgree
  <2>5. g[S] = f[x] + g[r]
    BY <1>5 DEF r
  <2>. QED
    BY <1>2, <2>3, <2>4, <2>5 DEF r
<1>. QED
  BY <1>2, <1>4, <1>6

\* One summand that changes changes the sum by as much.
LEMMA SumOfChange ==
    ASSUME NEW S, IsFiniteSet(S), NEW f, NEW e, NEW x \in S,
           \A y \in S : f[y] \in Int /\ e[y] \in Int,
           \A y \in S \ {x} : e[y] = f[y]
    PROVE  SumOf(e, S) = SumOf(f, S) + (e[x] - f[x])
<1> DEFINE r == S \ {x}
<1>1. IsFiniteSet(r)
  BY FS_Subset
<1>2. SumOf(f, S) = f[x] + SumOf(f, r) /\ SumOf(e, S) = e[x] + SumOf(e, r)
  BY SumOfSplit
<1>3. SumOf(f, r) \in Int
  BY <1>1, SumOfSplit
<1>4. SumOf(e, r) = SumOf(f, r)
  BY <1>1, SumOfAgrees
<1>5. f[x] \in Int /\ e[x] \in Int
  OBVIOUS
<1> HIDE DEF r
<1>. QED
  BY <1>2, <1>3, <1>4, <1>5

\* The sum over a set is that over a part of it and that over the rest.
LEMMA SumOfParts ==
    ASSUME NEW S, IsFiniteSet(S), NEW T \in SUBSET S, NEW f, \A x \in S : f[x] \in Int
    PROVE  SumOf(f, S) = SumOf(f, T) + SumOf(f, S \ T)
<1> DEFINE C == {t \in SUBSET T : SumOf(f, (S \ T) \union t) # SumOf(f, t) + SumOf(f, S \ T)}
<1>1. SUFFICES ASSUME C # {} PROVE FALSE
  <2>1. T \notin C
    BY <1>1
  <2>2. (S \ T) \union T = S
    OBVIOUS
  <2>. QED
    BY <2>1, <2>2
<1>2. PICK t \in C : \A u \in C : u \subseteq t => u = t
  <2>1. C \in SUBSET SUBSET T /\ IsFiniteSet(T)
    BY FS_Subset
  <2>. HIDE DEF C
  <2>. QED
    BY <1>1, <2>1, SmallestSubset
<1>3. t \in SUBSET T /\ SumOf(f, (S \ T) \union t) # SumOf(f, t) + SumOf(f, S \ T)
  OBVIOUS
<1>4. ASSUME NEW s \in SUBSET S
      PROVE  SumOf(f, s) \in Int /\ \A x \in s : SumOf(f, s) = f[x] + SumOf(f, s \ {x})
  <2>1. IsFiniteSet(s) /\ \A x \in s : f[x] \in Int
    BY FS_Subset
  <2>. QED
    BY <2>1, SumOfSplit
<1>5. t # {}
  <2>1. SumOf(f, {}) = 0 /\ SumOf(f, S \ T) \in Int
    BY <1>4, SumOfEmpty
  <2>2. (S \ T) \union {} = S \ T
    OBVIOUS
  <2>. QED
    BY <1>3, <2>1, <2>2
<1>6. PICK x : x \in t
  BY <1>5
<1> DEFINE R == S \ T
           r == t \ {x}
           n == R \union t
           m == R \union r
<1>7. /\ t \in SUBSET S /\ n \in SUBSET S /\ r \in SUBSET S /\ R \in SUBSET S
      /\ m \in SUBSET S /\ x \in n /\ n \ {x} = m /\ x \in S
  BY <1>3, <1>6
<1>8. r \notin C /\ r \in SUBSET T
  BY <1>2, <1>6
<1>9. SumOf(f, m) = SumOf(f, r) + SumOf(f, R)
  BY <1>8
<1>10. SumOf(f, t) = f[x] + SumOf(f, r) /\ SumOf(f, n) = f[x] + SumOf(f, m)
  <2> HIDE DEF n, m
  <2>. QED
    BY <1>4, <1>6, <1>7
<1>11. f[x] \in Int /\ SumOf(f, r) \in Int /\ SumOf(f, R) \in Int
  BY <1>4, <1>7
<1>12. SumOf(f, n) # SumOf(f, t) + SumOf(f, R)
  BY <1>3
<1> HIDE DEF R, r, n, m, C
<1>. QED
  BY <1>9, <1>10, <1>11, <1>12

\* Two sums whose terms cancel each other out, one by one.
LEMMA SumOfOpposites ==
    ASSUME NEW S, IsFiniteSet(S), NEW f, NEW e, NEW T, NEW h \in [S -> T],
           \A y \in T : \E x \in S : y = h[x],
           \A x, y \in S : h[x] = h[y] => x = y,
           \A x \in S : e[x] \in Int /\ f[h[x]] \in Int /\ f[h[x]] + e[x] = 0
    PROVE  SumOf(f, T) + SumOf(e, S) = 0
<1>0. T = {h[x] : x \in S}
  <2>1. \A x \in S : h[x] \in T
    OBVIOUS
  <2>. QED
    BY <2>1
<1> SUFFICES SumOf(f, {h[x] : x \in S}) + SumOf(e, S) = 0
  BY <1>0
<1> DEFINE Image(s) == {h[x] : x \in s}
           C == {s \in SUBSET S : SumOf(f, Image(s)) + SumOf(e, s) # 0}
<1>1. SUFFICES ASSUME C # {} PROVE FALSE
  <2>1. S \notin C
    BY <1>1
  <2>. QED
    BY <2>1
<1>2. PICK s \in C : \A t \in C : t \subseteq s => t = s
  <2>1. C \in SUBSET SUBSET S
    OBVIOUS
  <2>. HIDE DEF C
  <2>. QED
    BY <1>1, <2>1, SmallestSubset
<1>3. s \in SUBSET S /\ SumOf(f, Image(s)) + SumOf(e, s) # 0
  OBVIOUS
<1>4. s # {}
  <2> SUFFICES ASSUME s = {} PROVE FALSE
    OBVIOUS
  <2>1. Image(s) = {}
    OBVIOUS
  <2>2. SumOf(f, {}) = 0 /\ SumOf(e, {}) = 0
    BY SumOfEmpty
  <2>3. SumOf(f, Image(s)) = 0 /\ SumOf(e, s) = 0
    BY <2>1, <2>2
  <2>. QED
    BY <1>3, <2>3
<1>5. PICK x : x \in s
  BY <1>4
<1> DEFINE r == s \ {x}
<1>6. r \notin C /\ r \in SUBSET S /\ x \in S
  BY <1>2, <1>3, <1>5
<1>7. SumOf(f, Image(r)) + SumOf(e, r) = 0
  BY <1>6
<1>8. Image(s) \ {h[x]} = Image(r) /\ h[x] \in Image(s)
  BY <1>3, <1>5
<1>9. IsFiniteSet(s) /\ IsFiniteSet(r)
  BY <1>3, <1>6, FS_Subset
<1>10. SumOf(e, s) = e[x] + SumOf(e, r) /\ SumOf(e, r) \in Int /\ e[x] \in Int
  <2>1. \A y \in s : e[y] \in Int
    BY <1>3
  <2>. QED
    BY <1>5, <1>6, <1>9, <2>1, SumOfSplit
<1>11. IsFiniteSet(Image(s))
  <2> DEFINE i == [y \in s |-> h[y]]
  <2>1. i \in Surjection(s, Image(s))
    BY DEF Surjection
  <2>. QED
    BY <1>9, <2>1, FS_Surjection
<1>12. SumOf(f, Image(s)) = f[h[x]] + SumOf(f, Image(r)) /\ SumOf(f, Image(r)) \in Int
  <2> DEFINE big == Image(s)
             y == h[x]
             small == Image(r)
  <2>1. \A z \in big : f[z] \in Int
    BY <1>3
  <2>2. big \ {y} = small /\ y \in big /\ IsFiniteSet(big) /\ small \in SUBSET big
    BY <1>8, <1>11
  <2>. HIDE DEF big, small, y
  <2>3. IsFiniteSet(small)
    BY <2>2, FS_Subset
  <2>4. SumOf(f, big) = f[y] + SumOf(f, small) /\ SumOf(f, small) \in Int
    BY <2>1, <2>2, <2>3, SumOfSplit
  <2>. QED
    BY <2>4 DEF big, small, y
<1>13. f[h[x]] \in Int /\ f[h[x]] + e[x] = 0
  BY <1>6
<1>14. SumOf(f, Image(s)) + SumOf(e, s) # 0
  BY <1>3
<1> HIDE DEF Image, r, C
<1>. QED
  BY <1>7, <1>10, <1>12, <1>13, <1>14

LEMMA SumOfNat ==
    ASSUME NEW S, IsFiniteSet(S), NEW f, \A x \in S : f[x] \in Nat
    PROVE  SumOf(f, S) \in Nat
<1> DEFINE C == {s \in SUBSET S : SumOf(f, s) \notin Nat}
<1>1. SUFFICES ASSUME C # {} PROVE FALSE
  <2>1. S \notin C
    BY <1>1
  <2>. QED
    BY <2>1
<1>2. PICK s \in C : \A t \in C : t \subseteq s => t = s
  <2>1. C \in SUBSET SUBSET S
    OBVIOUS
  <2>. HIDE DEF C
  <2>. QED
    BY <1>1, <2>1, SmallestSubset
<1>3. s \in SUBSET S /\ SumOf(f, s) \notin Nat
  OBVIOUS
<1>4. s # {}
  BY <1>3, SumOfEmpty
<1>5. PICK x : x \in s
  BY <1>4
<1>6. SumOf(f, s \ {x}) \in Nat
  <2>1. (s \ {x}) \notin C /\ (s \ {x}) \in SUBSET S
    BY <1>2, <1>3, <1>5
  <2>. QED
    BY <2>1
<1>7. SumOf(f, s) = f[x] + SumOf(f, s \ {x})
  <2>1. IsFiniteSet(s) /\ \A y \in s : f[y] \in Int
    BY <1>3, FS_Subset
  <2>. QED
    BY <1>5, <2>1, SumOfSplit
<1>8. f[x] \in Nat
  BY <1>3, <1>5
<1> HIDE DEF C
<1>. QED
  BY <1>3, <1>6, <1>7, <1>8

LEMMA SumOfZeros ==
    ASSUME NEW S, IsFiniteSet(S), NEW f, \A x \in S : f[x] = 0
    PROVE  SumOf(f, S) = 0
<1> DEFINE C == {s \in SUBSET S : SumOf(f, s) # 0}
<1>1. SUFFICES ASSUME C # {} PROVE FALSE
  <2>1. S \notin C
    BY <1>1
  <2>. QED
    BY <2>1
<1>2. PICK s \in C : \A t \in C : t \subseteq s => t = s
  <2>1. C \in SUBSET SUBSET S
    OBVIOUS
  <2>. HIDE DEF C
  <2>. QED
    BY <1>1, <2>1, SmallestSubset
<1>3. s \in SUBSET S /\ SumOf(f, s) # 0
  OBVIOUS
<1>4. PICK x : x \in s
  BY <1>3, SumOfEmpty
<1>5. SumOf(f, s \ {x}) = 0
  <2>1. (s \ {x}) \notin C /\ (s \ {x}) \in SUBSET S
    BY <1>2, <1>3, <1>4
  <2>. QED
    BY <2>1
<1>6. SumOf(f, s) = f[x] + SumOf(f, s \ {x})
  <2>1. IsFiniteSet(s) /\ \A y \in s : f[y] \in Int
    BY <1>3, FS_Subset
  <2>. QED
    BY <1>4, <2>1, SumOfSplit
<1>7. f[x] = 0
  BY <1>3, <1>4
<1> HIDE DEF C
<1>. QED
  BY <1>3, <1>5, <1>6, <1>7
=============================================================================
