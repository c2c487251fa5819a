-------------------------------- MODULE Totals --------------------------------
(***************************************************************************)
(* Lemmas about finite sets of any size.  Sums, for the balances of        *)
(* Payments and Admission: the folds of the community modules choose a     *)
(* function that sums up every part of a set by taking one element off it  *)
(* after another; that such a function exists, and that there is only one, *)
(* is shown by looking at a smallest part on which it fails.  And places   *)
(* of what is sorted (Sorting), for the pages of Images and Feeds.         *)
(***************************************************************************)
EXTENDS Sorting, FiniteSetTheorems, SequenceTheorems, WellFoundedInduction, TLAPS

\* The element taken off first.
Pick(s) == CHOOSE x \in s : TRUE

SumsAt(f, F, s) ==
    F[s] = IF s = {} THEN 0 ELSE f[Pick(s)] + F[s \ {Pick(s)}]

\* F gives the sum of what f says of the members, for every part of the set.
Summed(f, F) == \A s \in DOMAIN F : SumsAt(f, F, s)

Agree(F, G) == \A s \in DOMAIN F : F[s] = G[s]

\* Functions that give every part of S a number.
Tables(S) == [SUBSET S -> Int]

Numbered(f, S) == \A x \in S : f[x] \in Int

\* The sum of what f says of the members of S.
Total(f, S) == (CHOOSE F : DOMAIN F = SUBSET S /\ Summed(f, F))[S]
----------------------------------------------------------------------------
\* Numbers, if there are any, have a least one.
LEMMA Least ==
  ASSUME NEW T, T \subseteq Nat, T # {}
  PROVE  \E n \in T : \A m \in T : n <= m
<1> DEFINE R == OpToRel(<, Nat)
<1>1. IsWellFoundedOn(R, Nat)
  BY NatLessThanWellFounded
<1>2. \A x, y \in Nat : <<y, x>> \in R <=> y < x
  BY DEF OpToRel
<1> HIDE DEF R
<1>3. PICK x \in T : \A y \in T : ~ (<<y, x>> \in R)
  BY <1>1, WFMin, Zenon
<1>4. \A y \in T : ~(y < x)
  BY <1>2, <1>3
<1>5. \A y \in T : x <= y
  BY <1>4
<1>6. QED
  BY <1>5

\* One element of a set, and what is left of it.
LEMMA Picked ==
  ASSUME NEW s, IsFiniteSet(s), s # {}
  PROVE  /\ Pick(s) \in s
         /\ IsFiniteSet(s \ {Pick(s)})
         /\ Cardinality(s) \in Nat \ {0}
         /\ Cardinality(s \ {Pick(s)}) = Cardinality(s) - 1
<1>1. Pick(s) \in s
  BY DEF Pick
<1>2. QED
  BY <1>1, FS_RemoveElement, FS_CardinalityType, FS_EmptySet

\* Some function sums up every part of a finite set.
LEMMA Summable ==
  ASSUME NEW f, NEW S, IsFiniteSet(S), Numbered(f, S)
  PROVE  \E F \in Tables(S) : Summed(f, F)
<1> DEFINE Upto(n) == \E F \in [SUBSET S -> Int] :
                         \A s \in SUBSET S : Cardinality(s) <= n => SumsAt(f, F, s)
           bad == {n \in Nat : ~Upto(n)}
<1>0. \A s \in SUBSET S : /\ IsFiniteSet(s)
                          /\ Cardinality(s) \in Nat
                         /\ Cardinality(s) <= Cardinality(S)
  BY FS_Subset, FS_CardinalityType
<1>1. Upto(0)
  <2> DEFINE F == [s \in SUBSET S |-> 0]
  <2>1. \A s \in SUBSET S : Cardinality(s) <= 0 => s = {}
    BY <1>0, FS_EmptySet
  <2>2. F \in [SUBSET S -> Int] /\ \A s \in SUBSET S : Cardinality(s) <= 0 => SumsAt(f, F, s)
    BY <2>1 DEF SumsAt
  <2>3. QED
    BY <2>2
<1>2. ASSUME NEW n \in Nat, Upto(n) PROVE Upto(n + 1)
  <2>1. PICK F \in [SUBSET S -> Int] :
           \A s \in SUBSET S : Cardinality(s) <= n => SumsAt(f, F, s)
    BY <1>2
  <2> DEFINE G == [s \in SUBSET S |-> IF Cardinality(s) = n + 1
                                      THEN f[Pick(s)] + F[s \ {Pick(s)}] ELSE F[s]]
  <2>2. ASSUME NEW s \in SUBSET S, s # {}
        PROVE  /\ Pick(s) \in S /\ s \ {Pick(s)} \in SUBSET S
               /\ Cardinality(s) \in Nat /\ Cardinality(s \ {Pick(s)}) = Cardinality(s) - 1
    BY <1>0, <2>2, Picked
  <2>3. \A s \in SUBSET S : Cardinality(s) = n + 1 => s # {}
    <3>1. Cardinality({}) = 0 /\ n + 1 # 0
      BY FS_EmptySet
    <3>2. QED
      BY <3>1
  <2>4. G \in [SUBSET S -> Int]
    <3>1. ASSUME NEW s \in SUBSET S, Cardinality(s) = n + 1
          PROVE  f[Pick(s)] + F[s \ {Pick(s)}] \in Int
      <4>1. f[Pick(s)] \in Int /\ F[s \ {Pick(s)}] \in Int
        BY <2>2, <2>3, <3>1 DEF Numbered
      <4>2. QED
        BY <4>1
    <3>2. \A s \in SUBSET S : G[s] \in Int
      BY <3>1
    <3>3. QED
      BY <3>2
  <2>5. ASSUME NEW s \in SUBSET S, Cardinality(s) <= n + 1 PROVE SumsAt(f, G, s)
    <3>1. CASE s = {}
      <4>1. Cardinality(s) = 0
        BY <3>1, FS_EmptySet
      <4>2. SumsAt(f, F, s) /\ G[s] = F[s]
        BY <2>1, <4>1
      <4>3. QED
        BY <3>1, <4>2 DEF SumsAt
    <3>2. CASE s # {} /\ Cardinality(s) = n + 1
      <4>1. G[s \ {Pick(s)}] = F[s \ {Pick(s)}]
        BY <2>2, <3>2
      <4>2. G[s] = f[Pick(s)] + F[s \ {Pick(s)}]
        BY <3>2
      <4>3. QED
        BY <3>2, <4>1, <4>2 DEF SumsAt
    <3>3. CASE s # {} /\ Cardinality(s) # n + 1
      <4>1. Cardinality(s) <= n
        BY <1>0, <2>5, <3>3
      <4>2. Cardinality(s \ {Pick(s)}) # n + 1 /\ s \ {Pick(s)} \in SUBSET S
        BY <2>2, <3>3, <4>1
      <4>3. G[s \ {Pick(s)}] = F[s \ {Pick(s)}] /\ G[s] = F[s]
        BY <3>3, <4>2
      <4>4. SumsAt(f, F, s)
        BY <2>1, <4>1
      <4> HIDE DEF G
      <4>5. QED
        BY <3>3, <4>3, <4>4 DEF SumsAt
    <3>4. QED
      BY <3>1, <3>2, <3>3
  <2> HIDE DEF G
  <2>6. QED
    BY <2>4, <2>5
<1>3. bad = {}
  <2> SUFFICES ASSUME bad # {} PROVE FALSE
    OBVIOUS
  <2> HIDE DEF Upto
  <2>1. PICK n \in bad : \A m \in bad : n <= m
    <3>1. bad \subseteq Nat
      OBVIOUS
    <3> HIDE DEF bad
    <3>2. QED
      BY <3>1, Least
  <2>2. n # 0 /\ n \in Nat
    BY <1>1, <2>1
  <2>3. n - 1 \in Nat /\ n - 1 \notin bad
    BY <2>1, <2>2
  <2>4. Upto(n - 1)
    BY <2>3
  <2>5. Upto((n - 1) + 1)
    BY <1>2, <2>3, <2>4
  <2>6. QED
    BY <2>1, <2>2, <2>5
<1>4. Upto(Cardinality(S))
  <2> HIDE DEF Upto
  <2>1. QED
    BY <1>3, FS_CardinalityType
<1>5. QED
  BY <1>0, <1>4 DEF Summed, Tables

\* What such a function is defined on, and what it gives.
LEMMA TableOf ==
  ASSUME NEW S, NEW F \in Tables(S)
  PROVE  DOMAIN F = SUBSET S /\ \A s \in SUBSET S : F[s] \in Int
BY DEF Tables

\* Two functions that do agree.
LEMMA SummedOnce ==
  ASSUME NEW f, NEW S, NEW F, NEW G, IsFiniteSet(S),
         DOMAIN F = SUBSET S, DOMAIN G = SUBSET S, Summed(f, F), Summed(f, G)
  PROVE  Agree(F, G)
<1> DEFINE sizes == {n \in Nat : \E s \in SUBSET S : Cardinality(s) = n /\ F[s] # G[s]}
<1>0. \A s \in SUBSET S : IsFiniteSet(s) /\ Cardinality(s) \in Nat
  BY FS_Subset, FS_CardinalityType
<1>1. sizes = {}
  <2> SUFFICES ASSUME sizes # {} PROVE FALSE
    OBVIOUS
  <2>1. PICK n \in sizes : \A m \in sizes : n <= m
    <3>1. sizes \subseteq Nat
      OBVIOUS
    <3> HIDE DEF sizes
    <3>2. QED
      BY <3>1, Least
  <2>2. PICK s \in SUBSET S : Cardinality(s) = n /\ F[s] # G[s]
    BY <2>1
  <2>3. s # {}
    BY <2>2 DEF Summed, SumsAt
  <2> DEFINE rest == s \ {Pick(s)}
  <2>4. rest \in SUBSET S /\ Cardinality(rest) \in Nat /\ Cardinality(rest) < n
    BY <1>0, <2>2, <2>3, Picked
  <2>5. F[rest] # G[rest]
    BY <2>2, <2>3 DEF Summed, SumsAt
  <2>6. Cardinality(rest) \in sizes
    BY <2>4, <2>5
  <2> HIDE DEF sizes, rest
  <2>7. n \in Nat
    BY <1>0, <2>2
  <2>8. QED
    BY <2>1, <2>4, <2>6, <2>7
<1>2. QED
  BY <1>0, <1>1 DEF Agree

\* Any such function gives the sum.
LEMMA TotalOf ==
  ASSUME NEW f, NEW S, NEW C, IsFiniteSet(S), DOMAIN C = SUBSET S, Summed(f, C)
  PROVE  Total(f, S) = C[S]
<1> DEFINE D == CHOOSE F : DOMAIN F = SUBSET S /\ Summed(f, F)
<1>1. DOMAIN D = SUBSET S /\ Summed(f, D)
  BY Zenon
<1>2. Total(f, S) = D[S]
  BY DEF Total
<1> HIDE DEF D
<1>3. Agree(D, C)
  BY <1>1, SummedOnce
<1>4. QED
  BY <1>1, <1>2, <1>3 DEF Agree

\* The sum is what some such function gives.
LEMMA TotalSummed ==
  ASSUME NEW f, NEW S, IsFiniteSet(S), Numbered(f, S)
  PROVE  \E F \in Tables(S) :
            /\ Summed(f, F)
            /\ Total(f, S) = F[S]
<1>1. PICK F \in Tables(S) : Summed(f, F)
  BY Summable
<1>2. DOMAIN F = SUBSET S
  BY TableOf
<1>3. QED
  BY <1>1, <1>2, TotalOf

\* A sum of numbers is a number.
LEMMA TotalIsNumber ==
  ASSUME NEW f, NEW S, IsFiniteSet(S), Numbered(f, S)
  PROVE  Total(f, S) \in Int
<1>1. PICK F \in Tables(S) : Total(f, S) = F[S]
  BY TotalSummed
<1>2. S \in SUBSET S
  OBVIOUS
<1>3. QED
  BY <1>1, <1>2 DEF Tables

\* Whichever element is taken first, the sum is the same.
LEMMA AnyFirst ==
  ASSUME NEW f, NEW S, NEW F \in Tables(S), NEW x \in S,
         IsFiniteSet(S), Numbered(f, S), Summed(f, F)
  PROVE  F[S] = f[x] + F[S \ {x}]
<1> DEFINE Fine(s) == \A y \in s : F[s] = f[y] + F[s \ {y}]
           sizes == {n \in Nat : \E s \in SUBSET S : Cardinality(s) = n /\ ~Fine(s)}
<1>0. \A s \in SUBSET S : IsFiniteSet(s) /\ Cardinality(s) \in Nat
  BY FS_Subset, FS_CardinalityType
<1>1. sizes = {}
  <2> SUFFICES ASSUME sizes # {} PROVE FALSE
    OBVIOUS
  <2>1. PICK n \in sizes : \A m \in sizes : n <= m
    <3>1. sizes \subseteq Nat
      OBVIOUS
    <3> HIDE DEF sizes
    <3>2. QED
      BY <3>1, Least
  <2>2. PICK s \in SUBSET S : Cardinality(s) = n /\ ~Fine(s)
    BY <2>1
  <2>3. PICK y \in s : F[s] # f[y] + F[s \ {y}]
    BY <2>2
  <2> DEFINE c == Pick(s)
  <2>4. c \in s /\ F[s] = f[c] + F[s \ {c}]
    BY <1>0, TableOf, Picked DEF Summed, SumsAt
  <2>5. c # y
    BY <2>3, <2>4
  <2>6. \A t \in SUBSET S : Cardinality(t) < n => Fine(t)
    <3>1. \A m \in Nat : m < n => m \notin sizes
      BY <1>0, <2>1, <2>2
    <3> HIDE DEF Fine
    <3>2. QED
      BY <1>0, <3>1
  <2> HIDE DEF c
  <2>7. /\ Cardinality(s \ {c}) < n /\ Cardinality(s \ {y}) < n
        /\ s \ {c} \in SUBSET S /\ s \ {y} \in SUBSET S
    <3>1. IsFiniteSet(s) /\ Cardinality(s) \in Nat /\ Cardinality(s) = n
      BY <1>0, <2>2
    <3>2. Cardinality(s \ {c}) = Cardinality(s) - 1
      BY <2>4, <3>1, FS_RemoveElement
    <3>3. Cardinality(s \ {y}) = Cardinality(s) - 1
      BY <2>3, <3>1, FS_RemoveElement
    <3>4. QED
      BY <3>1, <3>2, <3>3
  <2>8. Fine(s \ {c}) /\ Fine(s \ {y})
    BY <2>6, <2>7
  <2>9. /\ F[s \ {c}] = f[y] + F[(s \ {c}) \ {y}]
        /\ F[s \ {y}] = f[c] + F[(s \ {y}) \ {c}]
    BY <2>3, <2>4, <2>5, <2>8
  <2>10. (s \ {c}) \ {y} = (s \ {y}) \ {c}
    OBVIOUS
  <2> DEFINE rest == (s \ {y}) \ {c}
  <2>11. f[c] \in Int /\ f[y] \in Int /\ F[rest] \in Int
    BY <2>3, <2>4, TableOf DEF Numbered
  <2>12. F[s \ {c}] = f[y] + F[rest] /\ F[s \ {y}] = f[c] + F[rest]
    BY <2>9, <2>10
  <2> HIDE DEF rest
  <2>13. QED
    BY <2>3, <2>4, <2>11, <2>12
<1>2. QED
  BY <1>0, <1>1

----------------------------------------------------------------------------
\* The facts a proof about balances needs: nothing adds up to nothing,
LEMMA NothingTotals == ASSUME NEW f PROVE Total(f, {}) = 0
<1>1. PICK F \in Tables({}) :
         /\ Summed(f, F)
         /\ Total(f, {}) = F[{}]
  BY TotalSummed, FS_EmptySet DEF Numbered
<1>2. QED
  BY <1>1, TableOf DEF Summed, SumsAt

\* one element more adds its amount,
LEMMA OneMore ==
  ASSUME NEW f, NEW S, NEW x, IsFiniteSet(S), x \notin S,
         Numbered(f, S \cup {x})
  PROVE  Total(f, S \cup {x}) = Total(f, S) + f[x]
<1> DEFINE T == S \cup {x}
<1>1. IsFiniteSet(T) /\ T \ {x} = S /\ S \in SUBSET T
  BY FS_AddElement
<1>2. PICK F \in Tables(T) :
         /\ Summed(f, F)
         /\ Total(f, T) = F[T]
  BY <1>1, TotalSummed
<1>3. PICK G \in Tables(S) :
         /\ Summed(f, G)
         /\ Total(f, S) = G[S]
  BY TotalSummed DEF Numbered
<1>4. F[T] = f[x] + F[S]
  <2>1. IsFiniteSet(T) /\ Numbered(f, T) /\ x \in T
    BY <1>1
  <2> HIDE DEF T
  <2>2. F[T] = f[x] + F[T \ {x}]
    BY <1>2, <2>1, AnyFirst
  <2>3. QED
    BY <1>1, <2>2
<1>5. F[S] = G[S]
  <2> DEFINE H == [s \in SUBSET S |-> F[s]]
  <2>1. DOMAIN H = SUBSET S /\ DOMAIN G = SUBSET S /\ DOMAIN F = SUBSET T
    BY <1>2, <1>3, TableOf
  <2>2. Summed(f, H)
    <3> SUFFICES ASSUME NEW s \in SUBSET S PROVE SumsAt(f, H, s)
      BY <2>1 DEF Summed
    <3>1. SumsAt(f, F, s) /\ H[s] = F[s] /\ H[s \ {Pick(s)}] = F[s \ {Pick(s)}]
      BY <1>1, <1>2, <2>1 DEF Summed
    <3> HIDE DEF H
    <3>2. QED
      BY <3>1 DEF SumsAt
  <2> HIDE DEF H
  <2>3. Agree(H, G)
    BY <1>3, <2>1, <2>2, SummedOnce
  <2>4. QED
    BY <2>3 DEF H, Agree
<1>6. F[S] \in Int /\ f[x] \in Int
  BY <1>1, <1>2, TableOf DEF Numbered
<1>7. QED
  BY <1>2, <1>3, <1>4, <1>5, <1>6

\* and only the amounts of the elements summed up count.
LEMMA SameTotals ==
  ASSUME NEW f, NEW h, NEW S, IsFiniteSet(S), Numbered(f, S),
         \A x \in S : h[x] = f[x]
  PROVE  Total(f, S) = Total(h, S)
<1>1. PICK F \in Tables(S) :
         /\ Summed(f, F)
         /\ Total(f, S) = F[S]
  BY TotalSummed
<1>2. PICK H \in Tables(S) :
         /\ Summed(h, H)
         /\ Total(h, S) = H[S]
  <2>1. Numbered(h, S)
    BY DEF Numbered
  <2>2. QED
    BY <2>1, TotalSummed
<1>3. Summed(h, F)
  <2> SUFFICES ASSUME NEW s \in SUBSET S PROVE SumsAt(h, F, s)
    BY TableOf DEF Summed
  <2>1. s # {} => Pick(s) \in S
    BY DEF Pick
  <2>2. QED
    BY <1>1, <2>1, TableOf DEF Summed, SumsAt
<1>4. DOMAIN F = SUBSET S /\ DOMAIN H = SUBSET S
  BY TableOf
<1>5. Agree(F, H)
  BY <1>2, <1>3, <1>4, SummedOnce
<1>6. QED
  BY <1>1, <1>2, <1>4, <1>5 DEF Agree

----------------------------------------------------------------------------
\* An order of which the set has all.
Ordered(S, order) ==
    /\ IsFiniteSet(S)
    /\ \A x \in S : <<x, x>> \notin order
    /\ \A x, y, z \in S : <<x, y>> \in order /\ <<y, z>> \in order => <<x, z>> \in order
    /\ \A x, y \in S : x # y => <<x, y>> \in order \/ <<y, x>> \in order

\* Not all of a set are before one of them.
LEMMA FewerAreAhead ==
    ASSUME NEW S, NEW order, Ordered(S, order), NEW x \in S
    PROVE  /\ IsFiniteSet(Ahead(x, S, order)) /\ Rank(x, S, order) \in 0..(Cardinality(S) - 1)
           /\ Cardinality(S) \in Nat
<1>1. Ahead(x, S, order) \subseteq S \ {x}
  BY DEF Ahead, Ordered
<1>2. IsFiniteSet(S \ {x}) /\ Cardinality(S \ {x}) = Cardinality(S) - 1 /\ Cardinality(S) \in Nat
  BY FS_RemoveElement, FS_CardinalityType DEF Ordered
<1>3. IsFiniteSet(Ahead(x, S, order)) /\ Cardinality(Ahead(x, S, order)) <= Cardinality(S \ {x})
  BY <1>1, <1>2, FS_Subset
<1>4. Cardinality(Ahead(x, S, order)) \in Nat
  BY <1>3, FS_CardinalityType
<1>5. QED BY <1>2, <1>3, <1>4 DEF Rank

\* What comes before has the smaller rank.
LEMMA RanksAgree ==
    ASSUME NEW S, NEW order, Ordered(S, order), NEW x \in S, NEW y \in S, <<x, y>> \in order
    PROVE  Rank(x, S, order) < Rank(y, S, order)
<1>1. Ahead(x, S, order) \cup {x} \subseteq Ahead(y, S, order) /\ x \notin Ahead(x, S, order)
  BY DEF Ahead, Ordered
<1>2. IsFiniteSet(Ahead(x, S, order)) /\ IsFiniteSet(Ahead(y, S, order))
      /\ Rank(x, S, order) \in Nat /\ Rank(y, S, order) \in Nat
  BY FewerAreAhead
<1>3. Cardinality(Ahead(x, S, order) \cup {x}) = Cardinality(Ahead(x, S, order)) + 1
  BY <1>1, <1>2, FS_AddElement
<1>4. Cardinality(Ahead(x, S, order) \cup {x}) <= Cardinality(Ahead(y, S, order))
  BY <1>1, <1>2, FS_Subset
<1>5. QED BY <1>2, <1>3, <1>4 DEF Rank

\* And what has the smaller rank comes before.
LEMMA RanksOrder ==
    ASSUME NEW S, NEW order, Ordered(S, order), NEW x \in S, NEW y \in S, Rank(x, S, order) < Rank(y, S, order)
    PROVE  <<x, y>> \in order
<1>1. Rank(x, S, order) \in Nat /\ Rank(y, S, order) \in Nat
  BY FewerAreAhead
<1>2. x # y /\ ~(<<y, x>> \in order)
  BY <1>1, RanksAgree
<1>3. QED BY <1>2 DEF Ordered

\* Every place is taken, by one member.
LEMMA RanksTaken ==
    ASSUME NEW S, NEW order, Ordered(S, order)
    PROVE  /\ \A x, y \in S : Rank(x, S, order) = Rank(y, S, order) => x = y
           /\ \A k \in 0..(Cardinality(S) - 1) : \E x \in S : Rank(x, S, order) = k
<1> DEFINE places == 0..(Cardinality(S) - 1)
           f == [x \in S |-> Rank(x, S, order)]
<1>1. ASSUME NEW x \in S, NEW y \in S, Rank(x, S, order) = Rank(y, S, order) PROVE x = y
  <2>1. Rank(x, S, order) \in Nat /\ Rank(y, S, order) \in Nat
    BY FewerAreAhead
  <2>2. ~(<<x, y>> \in order) /\ ~(<<y, x>> \in order)
    BY <1>1, <2>1, RanksAgree
  <2>3. QED BY <2>2 DEF Ordered
<1>2. Cardinality(S) \in Nat
  BY FS_CardinalityType DEF Ordered
<1>3. IsFiniteSet(places) /\ Cardinality(places) = Cardinality(S)
  BY <1>2, FS_Interval
<1>4. f \in Injection(S, places)
  BY <1>1, FewerAreAhead DEF Injection, IsInjective
<1>5. f \in Surjection(S, places)
  BY <1>3, <1>4, FS_Injection
<1>6. \A k \in places : \E x \in S : Rank(x, S, order) = k
  BY <1>5 DEF Surjection
<1>7. QED BY <1>1, <1>6

\* The sorted sequence has at each place the member of that rank.
LEMMA SortedByRank ==
    ASSUME NEW S, NEW order, Ordered(S, order)
    PROVE  /\ Sorted(S, order) \in Seq(S) /\ Len(Sorted(S, order)) = Cardinality(S)
           /\ Cardinality(S) \in Nat
           /\ \A i \in 1..Cardinality(S) : Rank(Sorted(S, order)[i], S, order) = i - 1
           /\ \A x \in S : x = Sorted(S, order)[Rank(x, S, order) + 1]
<1>1. Cardinality(S) \in Nat
  BY FS_CardinalityType DEF Ordered
<1>2. ASSUME NEW i \in 1..Cardinality(S)
      PROVE  Sorted(S, order)[i] \in S /\ Rank(Sorted(S, order)[i], S, order) = i - 1
  <2>1. i - 1 \in 0..(Cardinality(S) - 1)
    BY <1>1
  <2>2. \E x \in S : Rank(x, S, order) = i - 1
    BY <2>1, RanksTaken
  <2>3. Sorted(S, order)[i] = CHOOSE x \in S : Rank(x, S, order) = i - 1
    BY DEF Sorted
  <2>4. QED BY <2>2, <2>3
<1>3. Sorted(S, order) = [i \in 1..Cardinality(S) |-> Sorted(S, order)[i]]
  BY DEF Sorted
<1>4. Sorted(S, order) \in Seq(S) /\ Len(Sorted(S, order)) = Cardinality(S)
  <2>1. Sorted(S, order) \in [1..Cardinality(S) -> S]
    BY <1>2, <1>3
  <2>2. QED BY <1>1, <2>1
<1>5. ASSUME NEW x \in S PROVE x = Sorted(S, order)[Rank(x, S, order) + 1]
  <2>1. Rank(x, S, order) \in 0..(Cardinality(S) - 1)
    BY FewerAreAhead
  <2>2. Rank(x, S, order) + 1 \in 1..Cardinality(S)
    BY <1>1, <2>1
  <2>3. Rank(Sorted(S, order)[Rank(x, S, order) + 1], S, order) = Rank(x, S, order)
    BY <1>2, <2>1, <2>2
  <2>4. QED BY <1>2, <2>2, <2>3, RanksTaken
<1>6. QED BY <1>1, <1>2, <1>4, <1>5

\* The first n are those with fewer than n before them.
LEMMA LeadingRanked ==
    ASSUME NEW S, NEW order, Ordered(S, order), NEW n \in Nat
    PROVE  Range(Leading(Sorted(S, order), n)) = {x \in S : Rank(x, S, order) < n}
<1> DEFINE s == Sorted(S, order)
           m == IF n < Cardinality(S) THEN n ELSE Cardinality(S)
           t == SubSeq(s, 1, m)
<1>1. /\ s \in Seq(S) /\ Len(s) = Cardinality(S) /\ Cardinality(S) \in Nat
      /\ \A i \in 1..Cardinality(S) : Rank(s[i], S, order) = i - 1
      /\ \A x \in S : x = s[Rank(x, S, order) + 1]
  BY SortedByRank
<1>2. Leading(s, n) = t
  BY <1>1 DEF Leading
<1> HIDE DEF s
<1>3. m \in Nat /\ \A i \in 1..m : i \in 1..Cardinality(S) /\ s[i] \in S
  BY <1>1
<1>4. t \in Seq(S) /\ Len(t) = m /\ \A i \in 1..m : t[i] = s[i]
  <2>1. /\ t \in Seq(S) /\ Len(t) = IF 1 <= m THEN m - 1 + 1 ELSE 0
        /\ \A i \in 1..(m - 1 + 1) : t[i] = s[1 + i - 1]
    BY <1>3, SubSeqProperties
  <2> HIDE DEF t
  <2>2. QED BY <1>3, <2>1
<1> HIDE DEF t
<1>5. DOMAIN t = 1..m /\ Range(t) = {t[i] : i \in 1..m}
  BY <1>4 DEF Range
<1>6. ASSUME NEW x \in Range(t) PROVE x \in S /\ Rank(x, S, order) < n
  <2>1. PICK i \in 1..m : x = s[i]
    BY <1>4, <1>5
  <2>2. Rank(x, S, order) = i - 1 /\ x \in S
    BY <1>1, <1>3, <2>1
  <2>3. QED BY <1>1, <2>2
<1>7. ASSUME NEW x \in S, Rank(x, S, order) < n PROVE x \in Range(t)
  <2>1. Rank(x, S, order) \in 0..(Cardinality(S) - 1)
    BY FewerAreAhead
  <2>2. Rank(x, S, order) + 1 \in 1..m
    BY <1>1, <1>7, <2>1
  <2>3. QED BY <1>1, <1>4, <1>5, <2>2
<1>8. QED BY <1>2, <1>6, <1>7 DEF s

\* A part that holds all but late members has the same first ones.
LEMMA SortedAlike ==
    ASSUME NEW all, NEW order, Ordered(all, order), NEW read \in SUBSET all, NEW n \in Nat,
           \A x \in all : Rank(x, all, order) < n => x \in read
    PROVE  /\ \A i \in 1..n : i <= Cardinality(all) =>
                  i <= Cardinality(read) /\ Sorted(read, order)[i] = Sorted(all, order)[i]
           /\ Cardinality(read) <= Cardinality(all)
<1>1. Ordered(read, order) /\ Cardinality(read) <= Cardinality(all)
  BY FS_Subset DEF Ordered
<1>2. Cardinality(read) \in Nat /\ Cardinality(all) \in Nat
  BY <1>1, FS_CardinalityType DEF Ordered
<1>3. ASSUME NEW i \in 1..n, i <= Cardinality(all)
      PROVE  i <= Cardinality(read) /\ Sorted(read, order)[i] = Sorted(all, order)[i]
  <2> DEFINE x == Sorted(all, order)[i]
  <2>1. i \in 1..Cardinality(all)
    BY <1>2, <1>3
  <2>2. Rank(x, all, order) = i - 1
    BY <2>1, SortedByRank
  <2>3. x \in all
    BY <2>1, SortedByRank
  <2> HIDE DEF x
  <2>4. x \in read
    BY <2>2, <2>3
  <2>5. Ahead(x, read, order) = Ahead(x, all, order)
    <3>1. ASSUME NEW y \in Ahead(x, all, order) PROVE y \in read
      <4>1. y \in all /\ <<y, x>> \in order
        BY DEF Ahead
      <4>2. Rank(y, all, order) < i - 1 /\ Rank(y, all, order) \in Nat
        BY <2>2, <2>3, <4>1, RanksAgree, FewerAreAhead
      <4>3. QED BY <4>1, <4>2
    <3>2. QED BY <3>1 DEF Ahead
  <2>6. Rank(x, read, order) = i - 1
    BY <2>2, <2>5 DEF Rank
  <2>7. Rank(x, read, order) \in 0..(Cardinality(read) - 1)
    BY <1>1, <2>4, FewerAreAhead
  <2>8. x = Sorted(read, order)[i - 1 + 1]
    BY <1>1, <2>4, <2>6, SortedByRank
  <2>9. QED BY <1>2, <2>6, <2>7, <2>8 DEF x
<1>4. QED BY <1>1, <1>3
=============================================================================
