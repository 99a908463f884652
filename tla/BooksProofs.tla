---------------------------- MODULE BooksProofs ----------------------------
(* What holds of claims, card bills and the cash report for any books.       *)
(* Claims: a payment counts once, a claim that stays open is owed, and a tap  *)
(* pays what its message showed. Cards: cycles neither overlap nor leave a    *)
(* day out, the open amount counts every payment of its cycle, and an offset  *)
(* reminds once. The cash report: its lines, its trend and its bridge agree.  *)
EXTENDS Receivables, CardCycle, Integers, FiniteSets, FiniteSetsExt, Functions,
        FiniteSetTheorems, WellFoundedInduction, TLAPS

-----------------------------------------------------------------------------
\* Numbers, and the sum of a function over a finite set, which is the same in
\* whatever order SumFunctionOnSet takes the elements. The induction on the size
\* of the set is done with least elements, without a second-order theorem.

\* A set of natural numbers that is not empty has a least element.
LEMMA LeastNat ==
  ASSUME NEW T, T \subseteq Nat, T # {}
  PROVE  \E x \in T : \A y \in T : x <= y
<1> DEFINE R == OpToRel(<, Nat)
<1>1. IsWellFoundedOn(R, Nat)
  BY NatLessThanWellFounded
<1>2. \A x, y \in Nat : y < x => <<y, x>> \in R
  BY DEF OpToRel
<1> HIDE DEF R
<1>3. PICK x \in T : \A y \in T : ~ (<<y, x>> \in R)
  BY <1>1, WFMin
<1>4. \A y \in T : ~ (y < x)
  BY <1>2, <1>3
<1> QED
  BY <1>4

\* A set that holds 0 and the successor of each of its members holds every number.
LEMMA Induct ==
  ASSUME NEW S, S \subseteq Nat, 0 \in S, \A n \in S : n + 1 \in S
  PROVE  S = Nat
<1>1. SUFFICES ASSUME Nat \ S # {} PROVE FALSE
  OBVIOUS
<1>2. PICK x \in Nat \ S : \A y \in Nat \ S : x <= y
  BY <1>1, LeastNat
<1>3. x - 1 \in Nat /\ x - 1 \in S
  BY <1>2
<1> QED
  BY <1>2, <1>3

-----------------------------------------------------------------------------
\* The recursion inside SumFunctionOnSet.

IsSum(it, w, S) ==
  it = [s \in SUBSET S |->
          IF s = {} THEN 0 ELSE w[CHOOSE x \in s : TRUE] + it[s \ {CHOOSE x \in s : TRUE}]]

LEMMA SumByRecursion ==
  ASSUME NEW w, NEW S
  PROVE  SumFunctionOnSet(w, S) = (CHOOSE it : IsSum(it, w, S))[S]
BY DEF SumFunctionOnSet, FoldFunctionOnSet, MapThenFoldSet, IsSum

LEMMA Smaller ==
  ASSUME NEW S, IsFiniteSet(S), NEW x \in S
  PROVE  /\ IsFiniteSet(S \ {x})
         /\ Cardinality(S) \in Nat /\ Cardinality(S \ {x}) \in Nat
         /\ Cardinality(S \ {x}) = Cardinality(S) - 1
         /\ Cardinality(S) > 0
<1>1. IsFiniteSet(S \ {x}) /\ Cardinality(S \ {x}) = Cardinality(S) - 1
  BY FS_RemoveElement
<1>2. Cardinality(S) \in Nat /\ Cardinality(S \ {x}) \in Nat
  BY <1>1, FS_CardinalityType
<1> QED
  BY <1>1, <1>2

\* A function that obeys the recursion exists on every finite set.
LEMMA SumExists ==
  ASSUME NEW w, NEW S, IsFiniteSet(S)
  PROVE  \E it : IsSum(it, w, S)
<1> DEFINE Pick(s) == CHOOSE x \in s : TRUE
           Upto(n) == {s \in SUBSET S : Cardinality(s) <= n}
           Obeys(it, n) == it = [s \in Upto(n) |-> IF s = {} THEN 0 ELSE w[Pick(s)] + it[s \ {Pick(s)}]]
           Good == {n \in Nat : \E it : Obeys(it, n)}
<1>1. \A s \in SUBSET S : IsFiniteSet(s) /\ Cardinality(s) \in Nat /\ (Cardinality(s) = 0 <=> s = {})
  BY FS_Subset, FS_CardinalityType, FS_EmptySet
<1>2. \A s \in SUBSET S : s # {} => Pick(s) \in s
  OBVIOUS
<1>3. \A s \in SUBSET S : s # {} => /\ s \ {Pick(s)} \in SUBSET S
                                    /\ Cardinality(s \ {Pick(s)}) = Cardinality(s) - 1
  BY <1>1, <1>2, Smaller
<1> HIDE DEF Pick
<1>4. 0 \in Good
  <2> DEFINE it == [s \in Upto(0) |-> 0]
  <2>1. \A s \in Upto(0) : s = {}
    BY <1>1
  <2>2. it = [s \in Upto(0) |-> IF s = {} THEN 0 ELSE w[Pick(s)] + it[s \ {Pick(s)}]]
    BY <2>1
  <2>3. Obeys(it, 0)
    BY <2>2
  <2> QED
    BY <2>3
<1>5. ASSUME NEW n \in Good PROVE n + 1 \in Good
  <2>1. PICK it : Obeys(it, n)
    OBVIOUS
  <2> DEFINE more == [s \in Upto(n + 1) |-> IF s = {} THEN 0 ELSE w[Pick(s)] + it[s \ {Pick(s)}]]
  <2>2. \A s \in Upto(n) : s \in Upto(n + 1) /\ it[s] = more[s]
    <3> TAKE s \in Upto(n)
    <3>1. s \in Upto(n + 1)
      BY <1>1
    <3>2. it[s] = IF s = {} THEN 0 ELSE w[Pick(s)] + it[s \ {Pick(s)}]
      BY <2>1
    <3> QED
      BY <3>1, <3>2
  <2>3. \A s \in Upto(n + 1) : s # {} => s \ {Pick(s)} \in Upto(n)
    BY <1>1, <1>3
  <2> HIDE DEF Upto
  <2>4. \A s \in Upto(n + 1) : more[s] = IF s = {} THEN 0 ELSE w[Pick(s)] + more[s \ {Pick(s)}]
    BY <2>2, <2>3
  <2>5. more = [s \in Upto(n + 1) |-> more[s]]
    OBVIOUS
  <2> HIDE DEF more
  <2>6. Obeys(more, n + 1)
    BY <2>4, <2>5
  <2> QED
    BY <2>6
<1>6. Good = Nat
  BY <1>4, <1>5, Induct
<1>7. Cardinality(S) \in Nat
  BY FS_CardinalityType
<1>8. PICK it : Obeys(it, Cardinality(S))
  BY <1>6, <1>7
<1>9. Upto(Cardinality(S)) = SUBSET S
  BY <1>7, FS_Subset
<1> QED
  BY <1>8, <1>9 DEF IsSum, Pick

\* Two functions that obey it on two sets agree on the subsets of both.
LEMMA SumIsUnique ==
  ASSUME NEW w, NEW S, NEW T, IsFiniteSet(S), NEW one, NEW other,
         IsSum(one, w, S), IsSum(other, w, T)
  PROVE  \A s \in SUBSET (S \cap T) : one[s] = other[s]
<1> DEFINE Pick(s) == CHOOSE x \in s : TRUE
           Both == SUBSET (S \cap T)
           Good == {n \in Nat : \A s \in Both : Cardinality(s) = n => one[s] = other[s]}
<1>1. \A s \in Both : IsFiniteSet(s) /\ Cardinality(s) \in Nat /\ (Cardinality(s) = 0 <=> s = {})
  BY FS_Subset, FS_CardinalityType, FS_EmptySet
<1>2. \A s \in Both : s # {} => Pick(s) \in s
  OBVIOUS
<1>3. \A s \in Both : s # {} => /\ s \ {Pick(s)} \in Both
                                /\ Cardinality(s \ {Pick(s)}) = Cardinality(s) - 1
  BY <1>1, <1>2, Smaller
<1>4. \A s \in Both : /\ one[s] = IF s = {} THEN 0 ELSE w[Pick(s)] + one[s \ {Pick(s)}]
                      /\ other[s] = IF s = {} THEN 0 ELSE w[Pick(s)] + other[s \ {Pick(s)}]
  BY DEF IsSum
<1> HIDE DEF Pick, Both
<1>5. 0 \in Good
  BY <1>1, <1>4
<1>6. ASSUME NEW n \in Good PROVE n + 1 \in Good
  <2> SUFFICES ASSUME NEW s \in Both, Cardinality(s) = n + 1 PROVE one[s] = other[s]
    OBVIOUS
  <2>1. s # {}
    BY <1>1
  <2>2. s \ {Pick(s)} \in Both /\ Cardinality(s \ {Pick(s)}) = n
    BY <1>3, <2>1
  <2>3. one[s \ {Pick(s)}] = other[s \ {Pick(s)}]
    BY <2>2
  <2> QED
    BY <1>4, <2>1, <2>3
<1> HIDE DEF Good
<1>7. Good = Nat
  BY <1>5, <1>6, Induct DEF Good
<1> QED
  BY <1>1, <1>7 DEF Both, Good

\* The sum of a subset, by a function that obeys the recursion on the whole set.
LEMMA SumOfSubset ==
  ASSUME NEW w, NEW S, IsFiniteSet(S), NEW T \in SUBSET S, NEW it, IsSum(it, w, S)
  PROVE  SumFunctionOnSet(w, T) = it[T]
<1>1. IsFiniteSet(T)
  BY FS_Subset
<1> DEFINE own == CHOOSE f : IsSum(f, w, T)
<1>2. IsSum(own, w, T)
  BY <1>1, SumExists
<1>3. SumFunctionOnSet(w, T) = own[T]
  BY SumByRecursion
<1> HIDE DEF own
<1>4. \A s \in SUBSET (T \cap S) : own[s] = it[s]
  BY <1>1, <1>2, SumIsUnique
<1> QED
  BY <1>3, <1>4

-----------------------------------------------------------------------------
\* What a sum is.

LEMMA SumOfNone ==
  ASSUME NEW w
  PROVE  SumFunctionOnSet(w, {}) = 0
<1>1. IsFiniteSet({})
  BY FS_EmptySet
<1>2. PICK it : IsSum(it, w, {})
  BY <1>1, SumExists
<1>3. it[{}] = 0
  BY <1>2 DEF IsSum
<1> QED
  BY <1>1, <1>2, <1>3, SumOfSubset

LEMMA SumOfPick ==
  ASSUME NEW w, NEW S, IsFiniteSet(S), S # {}
  PROVE  \E x \in S : SumFunctionOnSet(w, S) = w[x] + SumFunctionOnSet(w, S \ {x})
<1>1. PICK it : IsSum(it, w, S)
  BY SumExists
<1> DEFINE p == CHOOSE x \in S : TRUE
<1>2. p \in S
  OBVIOUS
<1>3. it[S] = w[p] + it[S \ {p}]
  BY <1>1 DEF IsSum
<1> HIDE DEF p
<1>4. SumFunctionOnSet(w, S) = it[S] /\ SumFunctionOnSet(w, S \ {p}) = it[S \ {p}]
  BY <1>1, SumOfSubset
<1> QED
  BY <1>2, <1>3, <1>4

\* The sum depends on what the function says of the set, and on nothing else.
LEMMA SumSame ==
  ASSUME NEW v, NEW w, NEW S, IsFiniteSet(S), \A x \in S : v[x] = w[x]
  PROVE  SumFunctionOnSet(v, S) = SumFunctionOnSet(w, S)
<1> DEFINE p(s) == CHOOSE x \in s : TRUE
<1>1. PICK it : IsSum(it, v, S)
  BY SumExists
<1>2. it = [s \in SUBSET S |-> IF s = {} THEN 0 ELSE v[p(s)] + it[s \ {p(s)}]]
  BY <1>1 DEF IsSum
<1>3. \A s \in SUBSET S : s # {} => v[p(s)] = w[p(s)]
  <2> SUFFICES ASSUME NEW s \in SUBSET S, s # {} PROVE v[p(s)] = w[p(s)]
    OBVIOUS
  <2>1. p(s) \in s
    OBVIOUS
  <2> QED
    BY <2>1
<1> HIDE DEF p
<1>4. it = [s \in SUBSET S |-> IF s = {} THEN 0 ELSE w[p(s)] + it[s \ {p(s)}]]
  BY <1>2, <1>3
<1>5. IsSum(it, w, S)
  BY <1>4 DEF IsSum, p
<1> QED
  BY <1>1, <1>5, SumOfSubset

\* The sum of natural numbers is one.
LEMMA SumIsNat ==
  ASSUME NEW w, NEW S, IsFiniteSet(S), \A x \in S : w[x] \in Nat
  PROVE  SumFunctionOnSet(w, S) \in Nat
<1> DEFINE Good == {n \in Nat : \A s \in SUBSET S : Cardinality(s) = n => SumFunctionOnSet(w, s) \in Nat}
<1>1. \A s \in SUBSET S : IsFiniteSet(s) /\ Cardinality(s) \in Nat /\ (Cardinality(s) = 0 <=> s = {})
  BY FS_Subset, FS_CardinalityType, FS_EmptySet
<1>2. 0 \in Good
  BY <1>1, SumOfNone
<1>3. ASSUME NEW n \in Good PROVE n + 1 \in Good
  <2> SUFFICES ASSUME NEW s \in SUBSET S, Cardinality(s) = n + 1
               PROVE  SumFunctionOnSet(w, s) \in Nat
    OBVIOUS
  <2>1. IsFiniteSet(s) /\ s # {}
    BY <1>1
  <2>2. PICK x \in s : SumFunctionOnSet(w, s) = w[x] + SumFunctionOnSet(w, s \ {x})
    BY <2>1, SumOfPick
  <2>3. Cardinality(s \ {x}) = n
    BY <2>1, Smaller
  <2>4. SumFunctionOnSet(w, s \ {x}) \in Nat
    BY <2>3
  <2> QED
    BY <2>2, <2>4
<1> HIDE DEF Good
<1>4. Good = Nat
  BY <1>2, <1>3, Induct DEF Good
<1> QED
  BY <1>1, <1>4 DEF Good

\* Any element may be taken first.
LEMMA SumTakesAny ==
  ASSUME NEW w, NEW S, IsFiniteSet(S), \A x \in S : w[x] \in Nat, NEW y \in S
  PROVE  SumFunctionOnSet(w, S) = w[y] + SumFunctionOnSet(w, S \ {y})
<1> DEFINE Takes(s) == \A x \in s : SumFunctionOnSet(w, s) = w[x] + SumFunctionOnSet(w, s \ {x})
           Good == {n \in Nat : \A s \in SUBSET S : Cardinality(s) = n => Takes(s)}
<1>1. \A s \in SUBSET S : IsFiniteSet(s) /\ Cardinality(s) \in Nat /\ (Cardinality(s) = 0 <=> s = {})
  BY FS_Subset, FS_CardinalityType, FS_EmptySet
<1>2. 0 \in Good
  BY <1>1
<1>3. ASSUME NEW n \in Good PROVE n + 1 \in Good
  <2> SUFFICES ASSUME NEW s \in SUBSET S, Cardinality(s) = n + 1, NEW x \in s
               PROVE  SumFunctionOnSet(w, s) = w[x] + SumFunctionOnSet(w, s \ {x})
    OBVIOUS
  <2>1. IsFiniteSet(s) /\ s # {}
    BY <1>1
  <2>2. PICK p \in s : SumFunctionOnSet(w, s) = w[p] + SumFunctionOnSet(w, s \ {p})
    BY <2>1, SumOfPick
  <2>3. CASE x = p
    BY <2>2, <2>3
  <2>4. CASE x # p
    <3>1. s \ {x} \in SUBSET S /\ s \ {p} \in SUBSET S /\ x \in s \ {p} /\ p \in s \ {x}
      BY <2>4
    <3>2. Cardinality(s \ {p}) = n /\ Cardinality(s \ {x}) = n
      BY <2>1, Smaller
    <3>3. Takes(s \ {p}) /\ Takes(s \ {x})
      BY <3>1, <3>2
    <3> DEFINE rest == (s \ {p}) \ {x}
    <3>4. rest = (s \ {x}) \ {p} /\ rest \in SUBSET S
      OBVIOUS
    <3>5. SumFunctionOnSet(w, rest) \in Nat /\ w[x] \in Nat /\ w[p] \in Nat
      BY <1>1, <3>4, SumIsNat
    <3>6. SumFunctionOnSet(w, s \ {p}) = w[x] + SumFunctionOnSet(w, rest)
      BY <3>1, <3>3
    <3>7. SumFunctionOnSet(w, s \ {x}) = w[p] + SumFunctionOnSet(w, rest)
      BY <3>1, <3>3, <3>4
    <3> HIDE DEF rest
    <3> QED
      BY <2>2, <3>5, <3>6, <3>7
  <2> QED
    BY <2>3, <2>4
<1> HIDE DEF Good
<1>4. Good = Nat
  BY <1>2, <1>3, Induct DEF Good
<1> QED
  BY <1>1, <1>4 DEF Good

\* A new element adds its value.
LEMMA SumWithOneMore ==
  ASSUME NEW w, NEW S, IsFiniteSet(S), NEW y, y \notin S, w[y] \in Nat, \A x \in S : w[x] \in Nat
  PROVE  SumFunctionOnSet(w, S \cup {y}) = w[y] + SumFunctionOnSet(w, S)
<1>1. IsFiniteSet(S \cup {y})
  BY FS_AddElement
<1>2. (S \cup {y}) \ {y} = S
  OBVIOUS
<1>3. SumFunctionOnSet(w, S \cup {y}) = w[y] + SumFunctionOnSet(w, (S \cup {y}) \ {y})
  BY <1>1, SumTakesAny
<1> QED
  BY <1>2, <1>3

\* A subset has no larger sum.
LEMMA SumGrows ==
  ASSUME NEW w, NEW S, IsFiniteSet(S), \A x \in S : w[x] \in Nat, NEW T \in SUBSET S
  PROVE  SumFunctionOnSet(w, T) <= SumFunctionOnSet(w, S)
<1> DEFINE Within(s) == \A t \in SUBSET s : SumFunctionOnSet(w, t) <= SumFunctionOnSet(w, s)
           Good == {n \in Nat : \A s \in SUBSET S : Cardinality(s) = n => Within(s)}
<1>1. \A s \in SUBSET S : IsFiniteSet(s) /\ Cardinality(s) \in Nat /\ (Cardinality(s) = 0 <=> s = {})
  BY FS_Subset, FS_CardinalityType, FS_EmptySet
<1>2. \A s \in SUBSET S : SumFunctionOnSet(w, s) \in Nat
  BY <1>1, SumIsNat
<1>3. 0 \in Good
  BY <1>1, <1>2
<1>4. ASSUME NEW n \in Good PROVE n + 1 \in Good
  <2> SUFFICES ASSUME NEW s \in SUBSET S, Cardinality(s) = n + 1, NEW t \in SUBSET s
               PROVE  SumFunctionOnSet(w, t) <= SumFunctionOnSet(w, s)
    OBVIOUS
  <2>1. CASE t = s
    BY <1>2, <2>1
  <2>2. CASE t # s
    <3>1. PICK x \in s : x \notin t
      BY <2>2
    <3>2. IsFiniteSet(s)
      BY <1>1
    <3>3. SumFunctionOnSet(w, s) = w[x] + SumFunctionOnSet(w, s \ {x})
      BY <3>2, SumTakesAny
    <3>4. s \ {x} \in SUBSET S /\ Cardinality(s \ {x}) = n /\ t \in SUBSET (s \ {x})
      BY <3>1, <3>2, Smaller
    <3>5. SumFunctionOnSet(w, t) <= SumFunctionOnSet(w, s \ {x})
      BY <3>4
    <3>6. w[x] \in Nat /\ SumFunctionOnSet(w, s \ {x}) \in Nat /\ SumFunctionOnSet(w, t) \in Nat
      BY <1>2, <3>4
    <3> QED
      BY <3>3, <3>5, <3>6
  <2> QED
    BY <2>1, <2>2
<1> HIDE DEF Good
<1>5. Good = Nat
  BY <1>3, <1>4, Induct DEF Good
<1> QED
  BY <1>1, <1>5 DEF Good

-----------------------------------------------------------------------------
\* The largest element of a finite set of numbers that is not empty.
LEMMA LargestNat ==
  ASSUME NEW S, S \subseteq Nat, IsFiniteSet(S), S # {}
  PROVE  Max(S) \in S /\ \A x \in S : x <= Max(S)
<1> DEFINE above == [x \in S |-> {y \in S : x < y}]
           size == [x \in S |-> Cardinality(above[x])]
<1>1. ASSUME NEW x \in S PROVE IsFiniteSet(above[x]) /\ size[x] = Cardinality(above[x]) /\ size[x] \in Nat
  <2>1. above[x] \subseteq S
    OBVIOUS
  <2> HIDE DEF above
  <2>2. IsFiniteSet(above[x])
    BY <2>1, FS_Subset
  <2>3. Cardinality(above[x]) \in Nat
    BY <2>2, FS_CardinalityType
  <2> QED
    BY <2>2, <2>3
<1>2. PICK x \in S : \A y \in S : size[x] <= size[y]
  <2> DEFINE sizes == {size[x] : x \in S}
  <2> HIDE DEF size
  <2>1. sizes \subseteq Nat /\ sizes # {}
    BY <1>1
  <2>2. PICK n \in sizes : \A m \in sizes : n <= m
    BY <2>1, LeastNat
  <2> QED
    BY <2>2
<1>3. ASSUME NEW y \in S, x < y PROVE FALSE
  <2>1. above[y] \subseteq above[x] \ {y} /\ y \in above[x]
    <3>1. \A z \in S : z \in Nat
      OBVIOUS
    <3>2. \A z \in S : y < z => x < z /\ z # y
      BY <1>3, <3>1
    <3> QED
      BY <1>3, <3>2
  <2> HIDE DEF above, size
  <2>2. IsFiniteSet(above[x] \ {y}) /\ Cardinality(above[x] \ {y}) = Cardinality(above[x]) - 1
    BY <1>1, <2>1, FS_RemoveElement
  <2>3. Cardinality(above[y]) <= Cardinality(above[x] \ {y})
    BY <2>1, <2>2, FS_Subset
  <2>4. size[x] <= size[y]
    BY <1>2
  <2>5. size[y] <= size[x] - 1
    BY <1>1, <2>2, <2>3
  <2> QED
    BY <1>1, <2>4, <2>5
<1>4. \A y \in S : x >= y
  BY <1>3
<1>5. Max(S) \in S /\ \A y \in S : Max(S) >= y
  BY <1>4 DEF Max
<1> QED
  BY <1>5

-----------------------------------------------------------------------------
\* Sums of payments.

LEMMA LinksAreFinite ==
  ASSUME NEW all \in SUBSET Links
  PROVE  IsFiniteSet(all)
<1> DEFINE Pairs == (Claims \X Rows) \X Roles
           asLink == [p \in Pairs |-> [claim |-> p[1][1], row |-> p[1][2], role |-> p[2]]]
<1>1. IsFiniteSet(Roles)
  <2>1. IsFiniteSet({"charge"})
    BY FS_Singleton
  <2>2. IsFiniteSet({"charge"} \cup {"payment"})
    BY <2>1, FS_AddElement
  <2> QED
    BY <2>2 DEF Roles
<1>2. IsFiniteSet(Pairs)
  <2>1. IsFiniteSet(Claims \X Rows)
    BY ReceivablesAssumption, FS_Product
  <2> QED
    BY <1>1, <2>1, FS_Product
<1>3. asLink \in [Pairs -> Links]
  BY DEF Links
<1>4. ASSUME NEW l \in Links PROVE \E p \in Pairs : asLink[p] = l
  <2>1. <<<<l.claim, l.row>>, l.role>> \in Pairs
    BY DEF Links
  <2>2. asLink[<<<<l.claim, l.row>>, l.role>>] = [claim |-> l.claim, row |-> l.row, role |-> l.role]
    BY <2>1
  <2>3. l = [claim |-> l.claim, row |-> l.row, role |-> l.role]
    BY DEF Links
  <2> QED
    BY <2>1, <2>2, <2>3
<1> HIDE DEF Pairs, asLink
<1>5. IsFiniteSet(Links)
  BY <1>2, <1>3, <1>4, FS_Surjection DEF ExistsSurjection, Surjection
<1> QED
  BY <1>5, FS_Subset

LEMMA PaymentsAreLinks ==
  ASSUME NEW all \in SUBSET Links, NEW c
  PROVE  /\ PaymentsOf(c, all) \in SUBSET Links
         /\ IsFiniteSet(PaymentsOf(c, all))
         /\ \A l \in Links : Worth[l] = Amount[l.row] /\ Worth[l] \in Nat
<1>1. PaymentsOf(c, all) \in SUBSET Links
  BY DEF PaymentsOf
<1>2. \A l \in Links : l.row \in Rows
  BY DEF Links
<1> QED
  BY <1>1, <1>2, LinksAreFinite, ReceivablesAssumption DEF Worth

LEMMA PaidIsNat ==
  ASSUME NEW all \in SUBSET Links, NEW c
  PROVE  Paid(c, all) \in Nat
BY PaymentsAreLinks, SumIsNat DEF Paid

\* A claim with fewer payments is not paid more.
LEMMA PaidByFewer ==
  ASSUME NEW all \in SUBSET Links, NEW some \in SUBSET Links, NEW c,
         PaymentsOf(c, some) \subseteq PaymentsOf(c, all)
  PROVE  Paid(c, some) <= Paid(c, all)
<1>1. \A l \in PaymentsOf(c, all) : Worth[l] \in Nat
  BY PaymentsAreLinks
<1>2. IsFiniteSet(PaymentsOf(c, all))
  BY PaymentsAreLinks
<1> QED
  BY <1>1, <1>2, SumGrows DEF Paid

\* A new link pays its claim the amount of its row, if it is a payment.
LEMMA PaidByOneMore ==
  ASSUME NEW all \in SUBSET Links, NEW c \in Claims, NEW row \in Rows, NEW role \in Roles,
         [claim |-> c, row |-> row, role |-> role] \notin all
  PROVE  \A o : Paid(o, all \cup {[claim |-> c, row |-> row, role |-> role]}) =
                  IF o = c /\ role = "payment" THEN Paid(o, all) + Amount[row] ELSE Paid(o, all)
<1> DEFINE l == [claim |-> c, row |-> row, role |-> role]
<1> TAKE o
<1>1. l \in Links /\ l.claim = c /\ l.row = row /\ l.role = role
  BY DEF Links
<1> HIDE DEF l
<1>2. CASE o = c /\ role = "payment"
  <2>1. PaymentsOf(o, all \cup {l}) = PaymentsOf(o, all) \cup {l}
    BY <1>1, <1>2 DEF PaymentsOf
  <2>2. l \notin PaymentsOf(o, all)
    BY DEF PaymentsOf, l
  <2>3. Worth[l] = Amount[row] /\ Worth[l] \in Nat /\ IsFiniteSet(PaymentsOf(o, all))
    BY <1>1, PaymentsAreLinks
  <2>4. \A k \in PaymentsOf(o, all) : Worth[k] \in Nat
    BY PaymentsAreLinks
  <2>5. Paid(o, all \cup {l}) = Worth[l] + Paid(o, all)
    BY <2>1, <2>2, <2>3, <2>4, SumWithOneMore DEF Paid
  <2>6. Paid(o, all) \in Nat
    BY PaidIsNat
  <2> QED
    BY <1>2, <2>3, <2>5, <2>6 DEF l
<1>3. CASE ~ (o = c /\ role = "payment")
  <2>1. PaymentsOf(o, all \cup {l}) = PaymentsOf(o, all)
    BY <1>1, <1>3 DEF PaymentsOf
  <2> QED
    BY <1>3, <2>1 DEF Paid, l
<1> QED
  BY <1>2, <1>3

-----------------------------------------------------------------------------
\* Types. What a request has read is a state its claim was in.

Claim == [amount : Amounts, status : Statuses, person : People]
Reads == [amount : Amounts, status : Statuses, person : People, paid : Nat]
Pending ==
  [op : {"link", "update"}, claim : Claims, read : Reads] \cup [op : {"void"}, row : Rows]

RequestsOK ==
  /\ request \in [Requests -> {None} \cup Pending]
  /\ \A r \in Requests : request[r] # None /\ request[r].op \in {"link", "update"} =>
       claims[request[r].claim] # None

Typed == TypeOK /\ RequestsOK

\* The record of a request is of the kind its operation says.
LEMMA OfItsKind ==
  ASSUME NEW q \in Pending
  PROVE  /\ q.op \in {"link", "update"} => q.claim \in Claims /\ q.read \in Reads
         /\ q.op = "void" => q.row \in Rows
BY DEF Pending

LEMMA ReadIsTyped ==
  ASSUME Typed, NEW c \in Claims, claims[c] # None
  PROVE  /\ claims[c] \in Claim
         /\ Read(c) \in Reads
         /\ Read(c).amount = claims[c].amount /\ Read(c).status = claims[c].status
         /\ Read(c).paid = Paid(c, links) /\ Outstanding(c) = claims[c].amount - Paid(c, links)
<1>1. claims[c] \in Claim
  BY DEF Typed, TypeOK, Claim
<1>2. Paid(c, links) \in Nat
  BY PaidIsNat DEF Typed, TypeOK
<1> QED
  BY <1>1, <1>2 DEF Read, Reads, Claim, Outstanding

LEMMA SettledTyped ==
  ASSUME NEW status \in Statuses, NEW paid, NEW amount
  PROVE  SettledIfPaid(status, paid, amount) \in Statuses
BY DEF SettledIfPaid, Statuses

LEMMA LearnTyped ==
  ASSUME Typed, NEW person \in People, NEW rows \in SUBSET Rows
  PROVE  Learn(person, rows) \in [People -> SUBSET Names]
BY ReceivablesAssumption DEF Typed, TypeOK, Learn

\* The parts of the state that only claims' own actions touch.
books == <<live, voided, claims, links, known, overtaken, reopened>>

LEMMA InitTyped ==
  ASSUME Init
  PROVE  Typed
BY DEF Init, Typed, TypeOK, RequestsOK

LEMMA BooksTyped ==
  ASSUME Typed, UNCHANGED books, RequestsOK'
  PROVE  Typed'
BY DEF Typed, TypeOK, books

\* No claim goes away, so a request under way keeps its own.
LEMMA RequestsKept ==
  ASSUME Typed, request' = request \/ \E r \in Requests : request' = [request EXCEPT ![r] = None],
         \A c \in Claims : claims[c] # None => claims'[c] # None
  PROVE  RequestsOK'
<1>1. request' \in [Requests -> {None} \cup Pending]
  BY DEF Typed, RequestsOK
<1>2. \A r \in Requests : request'[r] # None => request'[r] = request[r]
  BY DEF Typed, RequestsOK
<1>3. \A r \in Requests : request[r] # None /\ request[r].op \in {"link", "update"} =>
        request[r].claim \in Claims /\ claims[request[r].claim] # None
  BY OfItsKind DEF Typed, RequestsOK
<1>4. ASSUME NEW r \in Requests, request'[r] # None, request'[r].op \in {"link", "update"}
      PROVE  claims'[request'[r].claim] # None
  BY <1>2, <1>3, <1>4
<1> QED
  BY <1>1, <1>4 DEF RequestsOK

LEMMA CreateTyped ==
  ASSUME Typed, NEW c \in Claims, NEW amount \in Amounts, NEW person \in DebtorsOf[c],
         NEW charges \in SUBSET live, NEW payments \in SUBSET live,
         Create(c, amount, person, charges, payments)
  PROVE  Typed'
<1> USE DEF Create, Edit
<1>1. person \in People
  BY ReceivablesAssumption
<1>2. charges \subseteq Rows /\ payments \subseteq Rows
  BY DEF Typed, TypeOK
<1>3. links' \subseteq Links
  BY <1>2 DEF Typed, TypeOK, Links, Roles
<1>4. known' \in [People -> SUBSET Names]
  BY <1>1, <1>2, LearnTyped
<1> DEFINE new == [amount |-> amount, person |-> person,
                   status |-> SettledIfPaid("open", Paid(c, links'), amount)]
<1>5. new \in Claim
  BY <1>1, SettledTyped DEF Claim, Statuses
<1>6. claims' = [claims EXCEPT ![c] = new]
  OBVIOUS
<1> HIDE DEF new
<1>7. new # None
  BY <1>5, ReceivablesAssumption DEF Claim
<1>8. claims' \in [Claims -> {None} \cup Claim] /\ \A o \in Claims : claims[o] # None => claims'[o] # None
  BY <1>5, <1>6, <1>7 DEF Typed, TypeOK, Claim
<1>9. RequestsOK'
  BY <1>8, RequestsKept
<1> QED
  BY <1>3, <1>4, <1>8, <1>9 DEF Typed, TypeOK, Claim

LEMMA StartTyped ==
  ASSUME Typed, NEW r \in Requests, NEW c \in Claims, NEW op \in {"link", "update"}, Start(r, c, op)
  PROVE  Typed'
<1> USE DEF Start
<1> DEFINE new == [op |-> op, claim |-> c, read |-> Read(c)]
<1>1. new \in Pending /\ new.claim = c /\ request' = [request EXCEPT ![r] = new]
  BY ReadIsTyped DEF Pending
<1> HIDE DEF new
<1>2. request' \in [Requests -> {None} \cup Pending]
  BY <1>1 DEF Typed, RequestsOK
<1>3. \A q \in Requests : request'[q] = IF q = r THEN new ELSE request[q]
  BY <1>1 DEF Typed, RequestsOK
<1>4. RequestsOK'
  BY <1>1, <1>2, <1>3 DEF Typed, RequestsOK
<1> QED
  BY <1>4, BooksTyped DEF books

\* A link is typed, and settles its claim at most.
LEMMA AttachTyped ==
  ASSUME Typed, NEW c \in Claims, claims[c] # None, NEW read \in Reads, NEW row \in Rows, NEW role \in Roles,
         Attach(c, read, row, role)
  PROVE  /\ links' \subseteq Links
         /\ known' \in [People -> SUBSET Names]
         /\ claims' \in [Claims -> {None} \cup Claim]
         /\ \A o \in Claims : claims[o] # None => claims'[o] # None
         /\ reopened' \subseteq Claims
<1> USE DEF Attach
<1>1. links' \subseteq Links
  BY DEF Typed, TypeOK, Links
<1>2. known' \in [People -> SUBSET Names]
  BY LearnTyped DEF Typed, TypeOK, Reads
<1>3. claims[c] \in Claim
  BY ReadIsTyped
<1>4. [claims[c] EXCEPT !.status = "settled"] \in Claim
  BY <1>3 DEF Claim, Statuses
<1>5. claims' = claims \/ claims' = [claims EXCEPT ![c] = [claims[c] EXCEPT !.status = "settled"]]
  OBVIOUS
<1>6. reopened' \subseteq Claims
  BY DEF Typed, TypeOK
<1> HIDE DEF Attach
<1>7. claims' \in [Claims -> {None} \cup Claim] /\ \A o \in Claims : claims[o] # None => claims'[o] # None
  BY <1>4, <1>5, ReceivablesAssumption DEF Typed, TypeOK, Claim
<1> QED
  BY <1>1, <1>2, <1>6, <1>7

LEMMA AddLinkTyped ==
  ASSUME Typed, NEW r \in Requests, NEW row \in Rows, NEW role \in Roles, AddLink(r, row, role)
  PROVE  Typed'
<1> USE DEF AddLink
<1> DEFINE c == request[r].claim
           read == request[r].read
<1>1. request[r] \in Pending
  BY DEF Typed, RequestsOK
<1>2. c \in Claims /\ read \in Reads /\ claims[c] # None
  BY <1>1, OfItsKind DEF Typed, RequestsOK
<1>3. Attach(c, read, row, role)
  OBVIOUS
<1>4. overtaken' \subseteq Claims
  BY <1>2 DEF Overtakes, Typed, TypeOK
<1> HIDE DEF c, read
<1>5. /\ links' \subseteq Links
      /\ known' \in [People -> SUBSET Names]
      /\ claims' \in [Claims -> {None} \cup Claim]
      /\ \A o \in Claims : claims[o] # None => claims'[o] # None
      /\ reopened' \subseteq Claims
  BY <1>2, <1>3, AttachTyped
<1>6. RequestsOK'
  BY <1>5, RequestsKept
<1> QED
  BY <1>4, <1>5, <1>6 DEF Typed, TypeOK, Claim

LEMMA UpdateTyped ==
  ASSUME Typed, NEW r \in Requests, NEW amount \in Amounts \cup {None}, NEW status \in {None} \cup Statuses,
         NEW person \in People \cup {None}, Update(r, amount, status, person)
  PROVE  Typed'
<1> DEFINE c == request[r].claim
           read == request[r].read
<1>1. request[r] \in Pending
  BY DEF Typed, RequestsOK, Update
<1>2. c \in Claims /\ read \in Reads /\ claims[c] # None
  BY <1>1, OfItsKind DEF Typed, RequestsOK, Update
<1>3. claims[c] \in Claim
  BY <1>2, ReadIsTyped
<1> DEFINE new == Edited(c, read, amount, status, person)
<1>4. claims' = [claims EXCEPT ![c] = new]
  BY DEF Update
<1>5. new \in Claim
  <2>1. StatusOf(c, read, amount, status) \in Statuses
    BY <1>3 DEF StatusOf, Claim, Statuses
  <2> QED
    BY <1>3, <2>1 DEF Edited, Claim
<1> HIDE DEF new
<1>6. known' \in [People -> SUBSET Names]
  BY <1>2 DEF Update, Renamed, Reads, Typed, TypeOK
<1>7. overtaken' \subseteq Claims /\ reopened' \subseteq Claims
  BY <1>2 DEF Update, Overtakes, Typed, TypeOK
<1> HIDE DEF c, read
<1>8. claims' \in [Claims -> {None} \cup Claim] /\ \A o \in Claims : claims[o] # None => claims'[o] # None
  BY <1>4, <1>5, ReceivablesAssumption DEF Typed, TypeOK, Claim
<1>9. RequestsOK'
  BY <1>8, RequestsKept DEF Update
<1> QED
  BY <1>6, <1>7, <1>8, <1>9 DEF Update, Typed, TypeOK, Claim

LEMMA RemoveLinkTyped ==
  ASSUME Typed, NEW l \in links, RemoveLink(l)
  PROVE  Typed'
<1>1. RequestsOK'
  BY RequestsKept DEF RemoveLink
<1> QED
  BY <1>1 DEF RemoveLink, Typed, TypeOK

LEMMA IdentifyTyped ==
  ASSUME Typed, NEW person \in People, NEW name \in Names, Identify(person, name)
  PROVE  Typed'
<1>1. RequestsOK'
  BY RequestsKept DEF Identify
<1>2. known' \in [People -> SUBSET Names]
  BY DEF Identify, Typed, TypeOK
<1> QED
  BY <1>1, <1>2 DEF Identify, Typed, TypeOK

LEMMA CheckVoidTyped ==
  ASSUME Typed, NEW r \in Requests, NEW row \in Rows, CheckVoid(r, row)
  PROVE  Typed'
<1> USE DEF CheckVoid
<1> DEFINE new == [op |-> "void", row |-> row]
<1>1. new \in Pending /\ new.op = "void" /\ request' = [request EXCEPT ![r] = new]
  BY DEF Pending
<1> HIDE DEF new
<1>2. request' \in [Requests -> {None} \cup Pending]
  BY <1>1 DEF Typed, RequestsOK
<1>3. \A q \in Requests : request'[q] = IF q = r THEN new ELSE request[q]
  BY <1>1 DEF Typed, RequestsOK
<1>4. RequestsOK'
  BY <1>1, <1>2, <1>3 DEF Typed, RequestsOK
<1> QED
  BY <1>4, BooksTyped DEF books

LEMMA VoidTyped ==
  ASSUME Typed, NEW r \in Requests, Void(r)
  PROVE  Typed'
<1>1. RequestsOK'
  BY RequestsKept DEF Void
<1>2. \A l \in links : l.claim \in Claims
  BY DEF Typed, TypeOK, Links
<1>3. overtaken' \subseteq Claims
  BY <1>2 DEF Void, Typed, TypeOK
<1> QED
  BY <1>1, <1>3 DEF Void, Typed, TypeOK

LEMMA UnvoidTyped ==
  ASSUME Typed, NEW row \in Rows, Unvoid(row)
  PROVE  Typed'
<1>1. RequestsOK'
  BY RequestsKept DEF Unvoid
<1> QED
  BY <1>1 DEF Unvoid, Typed, TypeOK

\* The links that end up at a row that stays are there already, or move to it.
LEMMA MovedLinks ==
  ASSUME Typed, NEW old, NEW new, new = None \/ new \in Rows, MoveLinks(old, new)
  PROVE  \A k \in links' :
           \/ k \in links /\ k.row # old
           \/ \E l \in links \ Dropped(old, new) :
                /\ l.row = old /\ new \in Rows /\ k = [l EXCEPT !.row = new]
                /\ k.claim = l.claim /\ k.role = l.role /\ k.row = new
                /\ new # None
<1>1. \A l \in links : l \in Links
  BY DEF Typed, TypeOK
<1>2. \A l \in Links : /\ [l EXCEPT !.row = new].claim = l.claim
                       /\ [l EXCEPT !.row = new].role = l.role
                       /\ [l EXCEPT !.row = new].row = new
  BY DEF Links
<1> QED
  BY <1>1, <1>2 DEF MoveLinks

LEMMA MoveTyped ==
  ASSUME Typed, PaymentCountsOnce, NEW old, NEW new, new = None \/ new \in Rows, MoveLinks(old, new)
  PROVE  /\ links' \subseteq Links
         /\ claims' \in [Claims -> {None} \cup Claim]
         /\ \A c \in Claims : /\ claims[c] # None <=> claims'[c] # None
                              /\ [claim |-> c, row |-> new, role |-> "payment"] \in links' => claims[c] # None
                              /\ claims[c] # None => claims'[c].amount = claims[c].amount
         /\ reopened' \subseteq Claims
<1> DEFINE paying(c) == [claim |-> c, row |-> new, role |-> "payment"]
           settled(c) == [claims[c] EXCEPT !.status = SettledIfPaid(@, Paid(c, links'), claims[c].amount)]
<1>1. links' \subseteq Links
  BY MovedLinks DEF Typed, TypeOK, Links
<1>2. \A k \in links' : k.claim \in Claims /\ claims[k.claim] # None
  <2>1. \A l \in links : l.claim \in Claims /\ claims[l.claim] # None
    BY DEF PaymentCountsOnce, Typed, TypeOK, Links
  <2> QED
    BY <2>1, MovedLinks
<1>3. \A c \in Claims : paying(c) \in links' => claims[c] # None
  BY <1>2
<1>4. \A c \in Claims : claims[c] # None => /\ claims[c] \in Claim
                                            /\ settled(c) \in Claim
                                            /\ settled(c).amount = claims[c].amount
  <2> SUFFICES ASSUME NEW c \in Claims, claims[c] # None
               PROVE  claims[c] \in Claim /\ settled(c) \in Claim /\ settled(c).amount = claims[c].amount
    OBVIOUS
  <2>1. claims[c] \in Claim
    BY ReadIsTyped
  <2>2. SettledIfPaid(claims[c].status, Paid(c, links'), claims[c].amount) \in Statuses
    BY <2>1, SettledTyped DEF Claim
  <2> QED
    BY <2>1, <2>2 DEF Claim
<1>5. claims' = [c \in Claims |-> IF paying(c) \in links' THEN settled(c) ELSE claims[c]]
  BY DEF MoveLinks
<1>6. \A c \in Claims : claims'[c] = IF paying(c) \in links' THEN settled(c) ELSE claims[c]
  BY <1>5
<1>7. claims \in [Claims -> {None} \cup Claim] /\ None \notin Claim
  BY ReceivablesAssumption DEF Typed, TypeOK, Claim
<1>8. reopened' \subseteq Claims
  BY DEF MoveLinks, Typed, TypeOK
<1> HIDE DEF paying, settled
<1>9. claims' \in [Claims -> {None} \cup Claim]
  BY <1>3, <1>4, <1>5, <1>7
<1>10. \A c \in Claims : /\ claims[c] # None <=> claims'[c] # None
                         /\ claims[c] # None => claims'[c].amount = claims[c].amount
  BY <1>3, <1>4, <1>6, <1>7
<1> QED
  BY <1>1, <1>3, <1>8, <1>9, <1>10 DEF paying

LEMMA MergeTyped ==
  ASSUME Typed, PaymentCountsOnce, NEW old \in Rows, NEW new \in Rows, Merge(old, new)
  PROVE  Typed'
<1>1. MoveLinks(old, new)
  BY DEF Merge
<1>2. RequestsOK'
  BY <1>1, MoveTyped, RequestsKept DEF Merge
<1>3. live' \subseteq Rows /\ voided' \subseteq live'
  BY DEF Merge, Typed, TypeOK
<1> QED
  BY <1>1, <1>2, <1>3, MoveTyped DEF Merge, Typed, TypeOK, Claim

LEMMA DeleteRowTyped ==
  ASSUME Typed, PaymentCountsOnce, NEW row \in Rows, DeleteRow(row)
  PROVE  Typed'
<1>1. MoveLinks(row, None)
  BY DEF DeleteRow
<1>2. RequestsOK'
  BY <1>1, MoveTyped, RequestsKept DEF DeleteRow
<1>3. live' \subseteq Rows /\ voided' \subseteq live'
  BY DEF DeleteRow, Typed, TypeOK
<1> QED
  BY <1>1, <1>2, <1>3, MoveTyped DEF DeleteRow, Typed, TypeOK, Claim

LEMMA TapTyped ==
  ASSUME Typed, NEW m \in DOMAIN messages, NEW c \in Claims, Tap(m, c)
  PROVE  Typed'
<1>1. PICK row \in Rows : claims[c] # None /\ Attach(c, Read(c), row, "payment")
  BY DEF Tap, Fits, Typed, TypeOK
<1>2. /\ links' \subseteq Links
      /\ known' \in [People -> SUBSET Names]
      /\ claims' \in [Claims -> {None} \cup Claim]
      /\ \A o \in Claims : claims[o] # None => claims'[o] # None
      /\ reopened' \subseteq Claims
  BY <1>1, ReadIsTyped, AttachTyped DEF Roles
<1>3. RequestsOK'
  BY <1>2, RequestsKept DEF Tap
<1> QED
  BY <1>2, <1>3 DEF Tap, Typed, TypeOK, Claim

\* The steps that leave the books alone.
Elsewhere ==
  \/ \E r \in Requests : (\E c \in Claims, op \in {"link", "update"} : Start(r, c, op)) \/ \E row \in Rows : CheckVoid(r, row)
  \/ SweepRead \/ SweepWrite
  \/ \E m \in DOMAIN messages : Send(m) \/ Dismiss(m)

LEMMA ElsewhereKeepsBooks ==
  ASSUME Elsewhere
  PROVE  UNCHANGED books
BY DEF Elsewhere, books, Start, CheckVoid, SweepRead, SweepWrite, Send, Dismiss

LEMMA TypedNext ==
  ASSUME Typed, PaymentCountsOnce, [Next]_vars
  PROVE  Typed'
<1>1. CASE UNCHANGED vars
  BY <1>1 DEF vars, Typed, TypeOK, RequestsOK
<1>2. CASE \E c \in Claims : \E amount \in Amounts, person \in DebtorsOf[c], charges, payments \in SUBSET live :
             Create(c, amount, person, charges, payments)
  BY <1>2, CreateTyped
<1>3. CASE \E r \in Requests : Handle(r)
  BY <1>3, StartTyped, AddLinkTyped, UpdateTyped, CheckVoidTyped, VoidTyped DEF Handle
<1>4. CASE \E l \in links : RemoveLink(l)
  BY <1>4, RemoveLinkTyped
<1>5. CASE \E person \in People, name \in Names : Identify(person, name)
  BY <1>5, IdentifyTyped
<1>6. CASE \E row \in Rows : Unvoid(row) \/ DeleteRow(row)
  BY <1>6, UnvoidTyped, DeleteRowTyped
<1>7. CASE \E old, new \in Rows : Merge(old, new)
  BY <1>7, MergeTyped
<1>8. CASE SweepRead \/ SweepWrite \/ \E m \in DOMAIN messages : Send(m) \/ Dismiss(m)
  <2>1. UNCHANGED books /\ request' = request
    BY <1>8, ElsewhereKeepsBooks DEF Elsewhere, SweepRead, SweepWrite, Send, Dismiss
  <2>2. RequestsOK'
    BY <2>1, RequestsKept DEF books
  <2> QED
    BY <2>1, <2>2, BooksTyped
<1>9. CASE \E m \in DOMAIN messages, c \in Claims : Tap(m, c)
  BY <1>9, TapTyped
<1> QED
  BY <1>1, <1>2, <1>3, <1>4, <1>5, <1>6, <1>7, <1>8, <1>9 DEF Next

-----------------------------------------------------------------------------
\* A payment counts once.

LEMMA InitCounts ==
  ASSUME Init
  PROVE  PaymentCountsOnce
BY DEF Init, PaymentCountsOnce, Unique

\* A link that the index and the row admit counts with the others.
LEMMA AttachCounts ==
  ASSUME Typed, PaymentCountsOnce, NEW c \in Claims, claims[c] # None, NEW read \in Reads,
         NEW row \in Rows, NEW role \in Roles, Attach(c, read, row, role),
         UNCHANGED <<live, voided>>, overtaken \subseteq overtaken'
  PROVE  PaymentCountsOnce'
<1> DEFINE new == [claim |-> c, row |-> row, role |-> role]
<1>1. /\ \A o \in Claims : claims[o] # None => claims'[o] # None
  BY AttachTyped
<1>2. links' = links \cup {new} /\ Unique(links') /\ Linkable(c, row, role)
  BY DEF Attach
<1>3. ASSUME NEW l \in links' 
      PROVE  /\ l.row \in live /\ claims'[l.claim] # None
             /\ Direction[l.row] = RoleDirection(l.claim, l.role)
             /\ l.role = "payment" /\ l.row \in voided => l.claim \in overtaken'
  <2>1. CASE l \in links
    BY <1>1, <2>1 DEF PaymentCountsOnce, Typed, TypeOK, Links
  <2>2. CASE l = new
    BY <1>1, <1>2, <2>2 DEF Linkable
  <2> QED
    BY <1>2, <2>1, <2>2
<1> QED
  BY <1>2, <1>3 DEF PaymentCountsOnce

LEMMA CreateCounts ==
  ASSUME Typed, PaymentCountsOnce, NEW c \in Claims, NEW amount \in Amounts, NEW person \in DebtorsOf[c],
         NEW charges \in SUBSET live, NEW payments \in SUBSET live,
         Create(c, amount, person, charges, payments)
  PROVE  PaymentCountsOnce'
<1> USE DEF Create
<1> DEFINE new == [claim : {c}, row : charges, role : {"charge"}] \cup [claim : {c}, row : payments, role : {"payment"}]
<1>1. Typed'
  BY CreateTyped
<1>2. links' = links \cup new /\ Unique(links')
  OBVIOUS
<1>3. \A l \in new : l.claim = c /\ Linkable(c, l.row, l.role)
  OBVIOUS
<1>4. \A o \in Claims : claims[o] # None => claims'[o] # None
  BY DEF Typed, TypeOK
<1>5. claims'[c] # None
  <2>1. claims'[c].amount = amount /\ claims'[c].person = person
           /\ claims'[c].status = SettledIfPaid("open", Paid(c, links'), amount)
           /\ claims'[c] = [amount |-> amount, person |-> person,
                            status |-> SettledIfPaid("open", Paid(c, links'), amount)]
    BY DEF Typed, TypeOK
  <2>2. claims'[c] \in Claim
    BY <2>1, SettledTyped, ReceivablesAssumption DEF Claim, Statuses
  <2> QED
    BY <2>2, ReceivablesAssumption DEF Claim
<1> HIDE DEF new
<1>6. ASSUME NEW l \in links' 
      PROVE  /\ l.row \in live /\ claims'[l.claim] # None
             /\ Direction[l.row] = RoleDirection(l.claim, l.role)
             /\ l.role = "payment" /\ l.row \in voided => l.claim \in overtaken
  <2>1. CASE l \in links
    BY <1>4, <2>1 DEF PaymentCountsOnce, Typed, TypeOK, Links
  <2>2. CASE l \in new
    BY <1>3, <1>5, <2>2 DEF Linkable
  <2> QED
    BY <1>2, <2>1, <2>2
<1> QED
  BY <1>2, <1>6 DEF PaymentCountsOnce

\* A merge keeps one link of each payment, on the side of its row.
LEMMA MergeCounts ==
  ASSUME Typed, PaymentCountsOnce, NEW old \in Rows, NEW new \in Rows, Merge(old, new)
  PROVE  PaymentCountsOnce'
<1>1. MoveLinks(old, new) /\ old # new /\ Direction[old] = Direction[new]
  BY ReceivablesAssumption DEF Merge
<1>2. live' = live \ {old} /\ voided' = voided /\ overtaken' = overtaken /\ new \in live /\ new \notin voided
  BY DEF Merge
<1>3. ASSUME NEW k \in links'
      PROVE  \/ k \in links /\ k.row # old
             \/ \E l \in links \ Dropped(old, new) :
                  /\ l.row = old /\ k = [l EXCEPT !.row = new]
                  /\ k.claim = l.claim /\ k.role = l.role /\ k.row = new
  BY <1>1, MovedLinks
<1>4. \A c \in Claims : claims[c] # None => claims'[c] # None
  BY <1>1, MoveTyped
<1>5. ASSUME NEW k \in links'
      PROVE  /\ k.row \in live' /\ claims'[k.claim] # None
             /\ Direction[k.row] = RoleDirection(k.claim, k.role)
             /\ k.role = "payment" /\ k.row \in voided' => k.claim \in overtaken'
  <2>1. CASE k \in links /\ k.row # old
    BY <1>2, <1>4, <2>1 DEF PaymentCountsOnce, Typed, TypeOK, Links
  <2>2. CASE \E l \in links \ Dropped(old, new) :
               l.row = old /\ k.claim = l.claim /\ k.role = l.role /\ k.row = new
    <3>1. PICK l \in links : l.row = old /\ k.claim = l.claim /\ k.role = l.role /\ k.row = new
      BY <2>2
    <3>2. claims[l.claim] # None /\ l.claim \in Claims /\ Direction[old] = RoleDirection(l.claim, l.role)
      BY <3>1 DEF PaymentCountsOnce, Typed, TypeOK, Links
    <3> QED
      BY <1>1, <1>2, <1>4, <3>1, <3>2
  <2> QED
    BY <1>3, <2>1, <2>2
<1>6. ASSUME NEW k \in links', NEW j \in links', k # j, k.row = j.row
      PROVE  k.claim # j.claim /\ "charge" \in {k.role, j.role}
  <2> DEFINE Stays(i) == i \in links /\ i.row # old
             MovedFrom(i, l) == /\ l \in links \ Dropped(old, new) /\ l.row = old /\ i = [l EXCEPT !.row = new]
                                /\ i.claim = l.claim /\ i.role = l.role /\ i.row = new
             Comes(i) == \E l \in links : MovedFrom(i, l)
  <2>1. \A l \in links : l.role \in Roles
    BY DEF Typed, TypeOK, Links
  <2>2. CASE Stays(k) /\ Stays(j)
    BY <1>6, <2>2 DEF PaymentCountsOnce, Unique
  <2>3. CASE Comes(k) /\ Comes(j)
    <3>1. PICK l \in links, m \in links : MovedFrom(k, l) /\ MovedFrom(j, m)
      BY <2>3
    <3>2. l # m /\ l.row = m.row
      BY <1>6, <3>1
    <3>3. l.claim # m.claim /\ "charge" \in {l.role, m.role}
      BY <3>2 DEF PaymentCountsOnce, Unique
    <3> QED
      BY <3>1, <3>3
  <2>4. ASSUME NEW i, NEW o, Comes(i), Stays(o), o.row = i.row
        PROVE  i.claim # o.claim /\ "charge" \in {i.role, o.role}
    <3>1. PICK l \in links : MovedFrom(i, l)
      BY <2>4
    <3>2. l \notin Dropped(old, new) /\ l.row = old /\ o \in links /\ o.row = new
      BY <2>4, <3>1
    <3>3. o.claim # l.claim /\ ~ (l.role = "payment" /\ o.role = "payment")
      BY <3>2 DEF Dropped
    <3> QED
      BY <2>1, <3>1, <3>2, <3>3 DEF Roles
  <2>5. (Stays(k) \/ Comes(k)) /\ (Stays(j) \/ Comes(j))
    BY <1>3
  <2> HIDE DEF Stays, Comes
  <2> QED
    BY <1>6, <2>2, <2>3, <2>4, <2>5
<1> QED
  BY <1>5, <1>6 DEF PaymentCountsOnce, Unique

LEMMA DeleteRowCounts ==
  ASSUME Typed, PaymentCountsOnce, NEW row \in Rows, DeleteRow(row)
  PROVE  PaymentCountsOnce'
<1>1. MoveLinks(row, None)
  BY DEF DeleteRow
<1>2. \A k \in links' : k \in links /\ k.row # row
  BY <1>1, MovedLinks
<1>3. \A c \in Claims : claims[c] # None => claims'[c] # None
  BY <1>1, MoveTyped
<1>4. live' = live \ {row} /\ voided' = voided \ {row} /\ overtaken' = overtaken
  BY DEF DeleteRow
<1>5. \A l \in links : l.claim \in Claims
  BY DEF Typed, TypeOK, Links
<1> QED
  BY <1>2, <1>3, <1>4, <1>5 DEF PaymentCountsOnce, Unique

LEMMA CountsNext ==
  ASSUME Typed, PaymentCountsOnce, [Next]_vars
  PROVE  PaymentCountsOnce'
<1>0. \A l \in links : l.claim \in Claims /\ l.row \in Rows
  BY DEF Typed, TypeOK, Links
<1>1. CASE UNCHANGED vars
  BY <1>1 DEF vars, PaymentCountsOnce
<1>2. CASE \E c \in Claims : \E amount \in Amounts, person \in DebtorsOf[c], charges, payments \in SUBSET live :
             Create(c, amount, person, charges, payments)
  BY <1>2, CreateCounts
<1>3. CASE Elsewhere
  BY <1>3, ElsewhereKeepsBooks DEF books, PaymentCountsOnce
<1>4. ASSUME NEW r \in Requests, NEW row \in Rows, NEW role \in Roles, AddLink(r, row, role)
      PROVE  PaymentCountsOnce'
  <2>1. request[r] \in Pending /\ request[r].op = "link" /\ request[r] # None
    BY <1>4 DEF AddLink, Typed, RequestsOK
  <2>2. request[r].claim \in Claims /\ request[r].read \in Reads /\ claims[request[r].claim] # None
    BY <2>1, OfItsKind DEF Typed, RequestsOK
  <2>3. /\ Attach(request[r].claim, request[r].read, row, role) /\ UNCHANGED <<live, voided>>
        /\ overtaken \subseteq overtaken'
    BY <1>4 DEF AddLink, Overtakes
  <2> QED
    BY <2>2, <2>3, AttachCounts
<1>5. ASSUME NEW r \in Requests, NEW amount \in Amounts \cup {None}, NEW status \in {None} \cup Statuses,
             NEW person \in People \cup {None}, Update(r, amount, status, person)
      PROVE  PaymentCountsOnce'
  <2>1. Typed'
    BY <1>5, UpdateTyped
  <2>2. /\ UNCHANGED <<live, voided, links>> /\ overtaken \subseteq overtaken'
        /\ claims' = [claims EXCEPT ![request[r].claim] =
                        Edited(request[r].claim, request[r].read, amount, status, person)]
    BY <1>5 DEF Update, Overtakes
  <2>3. request[r] \in Pending /\ request[r].op = "update" /\ request[r] # None
    BY <1>5 DEF Update, Typed, RequestsOK
  <2>4. request[r].claim \in Claims /\ claims[request[r].claim] \in Claim
    BY <2>3, OfItsKind, ReadIsTyped DEF Typed, RequestsOK
  <2> DEFINE c == request[r].claim
             new == Edited(request[r].claim, request[r].read, amount, status, person)
  <2>5. StatusOf(c, request[r].read, amount, status) \in Statuses
    BY <2>4 DEF StatusOf, Claim, Statuses
  <2>6. new \in Claim
    BY <2>4, <2>5 DEF Edited, Claim
  <2>7. \A o \in Claims : claims[o] # None => claims'[o] # None
    <3> HIDE DEF new
    <3> QED
      BY <2>2, <2>4, <2>6, ReceivablesAssumption DEF Typed, TypeOK, Claim, new
  <2> QED
    BY <1>0, <2>2, <2>7 DEF PaymentCountsOnce
<1>6. ASSUME NEW r \in Requests, Void(r) PROVE PaymentCountsOnce'
  BY <1>0, <1>6 DEF Void, PaymentCountsOnce
<1>7. CASE \E l \in links : RemoveLink(l)
  BY <1>7 DEF RemoveLink, PaymentCountsOnce, Unique
<1>8. CASE \E person \in People, name \in Names : Identify(person, name)
  BY <1>8 DEF Identify, PaymentCountsOnce
<1>9. ASSUME NEW row \in Rows, Unvoid(row) PROVE PaymentCountsOnce'
  BY <1>9 DEF Unvoid, PaymentCountsOnce
<1>10. ASSUME NEW row \in Rows, DeleteRow(row) PROVE PaymentCountsOnce'
  BY <1>10, DeleteRowCounts
<1>11. ASSUME NEW old \in Rows, NEW new \in Rows, Merge(old, new) PROVE PaymentCountsOnce'
  BY <1>11, MergeCounts
<1>12. ASSUME NEW m \in DOMAIN messages, NEW c \in Claims, Tap(m, c) PROVE PaymentCountsOnce'
  <2>1. PICK row \in Rows : claims[c] # None /\ Attach(c, Read(c), row, "payment")
    BY <1>12 DEF Tap, Fits, Typed, TypeOK
  <2>2. UNCHANGED <<live, voided, overtaken>>
    BY <1>12 DEF Tap
  <2> QED
    BY <2>1, <2>2, ReadIsTyped, AttachCounts DEF Roles
<1> QED
  BY <1>1, <1>2, <1>3, <1>4, <1>5, <1>6, <1>7, <1>8, <1>9, <1>10, <1>11, <1>12 DEF Next, Handle, Elsewhere

-----------------------------------------------------------------------------
\* A claim that stays open is owed.

Owed(c) ==
  claims[c] # None /\ claims[c].status = "open" => Outstanding(c) > 0 \/ c \in reopened \cup overtaken

LEMMA OpenMeansOwedEach ==
  OpenMeansOwed <=> \A c \in Claims : Owed(c)
BY DEF OpenMeansOwed, Owed

\* A claim nobody wrote, with no payment more, is owed as before.
LEMMA OwedStays ==
  ASSUME Typed, Typed', NEW c \in Claims, Owed(c), claims'[c] = claims[c],
         PaymentsOf(c, links') \subseteq PaymentsOf(c, links),
         claims[c] # None /\ claims[c].status = "open" /\ c \in reopened => c \in reopened',
         overtaken \subseteq overtaken'
  PROVE  Owed(c)'
<1> SUFFICES ASSUME claims[c] # None, claims[c].status = "open"
             PROVE  claims'[c].amount - Paid(c, links') > 0 \/ c \in reopened' \cup overtaken'
  BY DEF Owed, Outstanding
<1>1. links \in SUBSET Links /\ links' \in SUBSET Links
  BY DEF Typed, TypeOK
<1>2. Paid(c, links') <= Paid(c, links) /\ Paid(c, links) \in Nat /\ Paid(c, links') \in Nat
  BY <1>1, PaidByFewer, PaidIsNat
<1>3. claims[c].amount \in Nat
  BY ReadIsTyped, ReceivablesAssumption DEF Claim
<1>4. claims[c].amount - Paid(c, links) > 0 \/ c \in reopened \cup overtaken
  BY DEF Owed, Outstanding
<1> QED
  BY <1>2, <1>3, <1>4

\* A claim whose status follows what is paid now is owed if it stays open.
LEMMA OwedIfSettled ==
  ASSUME Typed', NEW c \in Claims, claims'[c] # None,
         NEW status, claims'[c].status = SettledIfPaid(status, Paid(c, links'), claims'[c].amount)
  PROVE  Owed(c)'
<1>1. links' \in SUBSET Links /\ claims'[c].amount \in Nat
  <2>1. claims'[c] \in Claim
    BY DEF Typed, TypeOK, Claim
  <2> QED
    BY <2>1, ReceivablesAssumption DEF Claim, Typed, TypeOK
<1>2. Paid(c, links') \in Nat
  BY <1>1, PaidIsNat
<1>3. claims'[c].status = "open" => ~ (Paid(c, links') >= claims'[c].amount)
  BY DEF SettledIfPaid
<1> QED
  BY <1>1, <1>2, <1>3 DEF Owed, Outstanding

LEMMA InitOwed ==
  ASSUME Init
  PROVE  OpenMeansOwed
BY DEF Init, OpenMeansOwed

LEMMA CreateOwed ==
  ASSUME Typed, OpenMeansOwed, NEW c \in Claims, NEW amount \in Amounts, NEW person \in DebtorsOf[c],
         NEW charges \in SUBSET live, NEW payments \in SUBSET live,
         Create(c, amount, person, charges, payments)
  PROVE  OpenMeansOwed'
<1> USE DEF Create
<1>1. Typed'
  BY CreateTyped
<1>2. /\ claims'[c].amount = amount
      /\ claims'[c].status = SettledIfPaid("open", Paid(c, links'), claims'[c].amount)
  BY DEF Typed, TypeOK
<1>3. ASSUME NEW o \in Claims PROVE Owed(o)'
  <2>1. CASE o = c
    <3>1. (claims'[c].status = "open" /\ claims'[c] # None) => Owed(c)'
      BY <1>1, <1>2, OwedIfSettled
    <3> QED
      BY <2>1, <3>1 DEF Owed
  <2>2. CASE o # c
    <3>1. claims'[o] = claims[o]
      BY <2>2 DEF Typed, TypeOK
    <3>2. PaymentsOf(o, links') \subseteq PaymentsOf(o, links)
      BY <2>2 DEF PaymentsOf
    <3>3. Owed(o)
      BY OpenMeansOwedEach
    <3>4. reopened' = reopened /\ overtaken' = overtaken
      OBVIOUS
    <3> QED
      BY <1>1, <3>1, <3>2, <3>3, <3>4, OwedStays
  <2> QED
    BY <2>1, <2>2
<1>4. OpenMeansOwed' <=> \A o \in Claims : Owed(o)'
  BY DEF OpenMeansOwed, Owed
<1> QED
  BY <1>3, <1>4

\* A link settles the claim it pays in full, unless what it read was stale.
LEMMA AttachOwed ==
  ASSUME Typed, Typed', OpenMeansOwed, NEW c \in Claims, claims[c] # None, NEW read \in Reads,
         NEW row \in Rows, NEW role \in Roles, Attach(c, read, row, role),
         Read(c) = read \/ c \in overtaken', overtaken \subseteq overtaken'
  PROVE  OpenMeansOwed'
<1> DEFINE new == [claim |-> c, row |-> row, role |-> role]
           pays == role = "payment" /\ SettledIfPaid(read.status, read.paid + Amount[row], read.amount) # read.status
<1>1. /\ links' = links \cup {new} /\ links' # links
      /\ claims' = IF pays THEN [claims EXCEPT ![c].status = "settled"] ELSE claims
      /\ reopened' = IF pays THEN reopened \ {c} ELSE reopened
  BY DEF Attach
<1>2. \A o \in Claims : o # c => claims'[o] = claims[o] /\ (o \in reopened => o \in reopened')
  BY <1>1 DEF Typed, TypeOK
<1>3. \A o : Paid(o, links') = IF o = c /\ role = "payment" THEN Paid(o, links) + Amount[row] ELSE Paid(o, links)
  BY <1>1, PaidByOneMore DEF Typed, TypeOK
<1>4. ASSUME NEW o \in Claims, o # c PROVE Owed(o)'
  <2>1. PaymentsOf(o, links') \subseteq PaymentsOf(o, links)
    BY <1>1, <1>4 DEF PaymentsOf
  <2>2. Owed(o)
    BY OpenMeansOwedEach
  <2> QED
    BY <1>2, <1>4, <2>1, <2>2, OwedStays
<1>5. Owed(c)'
  <2>1. CASE c \in overtaken'
    BY <2>1 DEF Owed
  <2>2. CASE pays
    <3>1. claims'[c].status = "settled"
      BY <1>1, <2>2, ReadIsTyped DEF Typed, TypeOK, Claim
    <3> QED
      BY <3>1 DEF Owed
  <2>3. CASE Read(c) = read /\ ~ pays /\ role = "payment"
    <3>1. claims'[c] = claims[c] /\ claims[c] \in Claim
      BY <1>1, <2>3, ReadIsTyped
    <3>2. read.status = claims[c].status /\ read.paid = Paid(c, links) /\ read.amount = claims[c].amount
      BY <2>3, ReadIsTyped
    <3>3. SettledIfPaid(claims[c].status, Paid(c, links'), claims[c].amount) = claims[c].status
      BY <1>3, <2>3, <3>2
    <3>4. claims'[c] # None
      BY <3>1
    <3> QED
      BY <3>1, <3>3, <3>4, OwedIfSettled
  <2>4. CASE Read(c) = read /\ ~ pays /\ role # "payment"
    <3>1. claims'[c] = claims[c] /\ reopened' = reopened
      BY <1>1, <2>4
    <3>2. PaymentsOf(c, links') \subseteq PaymentsOf(c, links)
      BY <1>1, <2>4 DEF PaymentsOf
    <3>3. Owed(c)
      BY OpenMeansOwedEach
    <3> QED
      BY <3>1, <3>2, <3>3, OwedStays
  <2> QED
    BY <2>1, <2>2, <2>3, <2>4
<1>6. OpenMeansOwed' <=> \A o \in Claims : Owed(o)'
  BY DEF OpenMeansOwed, Owed
<1> QED
  BY <1>4, <1>5, <1>6

\* An edit settles a claim whose new amount is paid, and marks one it keeps open.
LEMMA UpdateOwed ==
  ASSUME Typed, OpenMeansOwed, NEW r \in Requests, NEW amount \in Amounts \cup {None},
         NEW status \in {None} \cup Statuses, NEW person \in People \cup {None},
         Update(r, amount, status, person)
  PROVE  OpenMeansOwed'
<1>1. Typed'
  BY UpdateTyped
<1>2. request[r] \in Pending /\ request[r].op = "update" /\ request[r] # None
  BY DEF Update, Typed, RequestsOK
<1>3. PICK c \in Claims, read \in Reads : c = request[r].claim /\ read = request[r].read /\ claims[c] # None
  BY <1>2, OfItsKind DEF Typed, RequestsOK
<1>4. claims[c] \in Claim
  BY <1>3, ReadIsTyped
<1>5. /\ claims' = [claims EXCEPT ![c] = Edited(c, read, amount, status, person)] /\ links' = links
      /\ reopened' = IF StatusOf(c, read, amount, status) # "open" THEN reopened \ {c}
                     ELSE IF status = "open" THEN reopened \cup {c} ELSE reopened
      /\ overtaken' = IF Read(c) = read THEN overtaken ELSE overtaken \cup {c}
  BY <1>3 DEF Update, Overtakes
<1>6. ASSUME NEW o \in Claims, o # c PROVE Owed(o)'
  <2>1. claims'[o] = claims[o] /\ PaymentsOf(o, links') \subseteq PaymentsOf(o, links)
    BY <1>5, <1>6 DEF Typed, TypeOK
  <2>2. Owed(o) /\ (o \in reopened => o \in reopened') /\ overtaken \subseteq overtaken'
    BY <1>5, <1>6, OpenMeansOwedEach
  <2> QED
    BY <1>1, <2>1, <2>2, OwedStays
<1>7. Owed(c)'
  <2>1. CASE c \in overtaken'
    BY <2>1 DEF Owed
  <2>2. CASE Read(c) = read
    <3>1. read.status = claims[c].status /\ read.amount = claims[c].amount /\ read.paid = Paid(c, links)
      BY <1>3, <2>2, ReadIsTyped
    <3>2. claims'[c] = Edited(c, read, amount, status, person)
      BY <1>3, <1>5 DEF Typed, TypeOK
    <3>3. /\ claims'[c].status = StatusOf(c, read, amount, status)
          /\ claims'[c].amount = IF amount \notin {None, read.amount} THEN amount ELSE claims[c].amount
      BY <3>2 DEF Edited
    <3>4. claims'[c].amount \in Nat /\ claims[c].amount \in Nat /\ Paid(c, links) \in Nat
      BY <1>3, <1>4, <3>3, PaidIsNat, ReceivablesAssumption DEF Claim, Typed, TypeOK
    <3>5. CASE status = "open" \/ StatusOf(c, read, amount, status) # "open"
      <4>1. StatusOf(c, read, amount, status) = "open" => c \in reopened'
        BY <1>5, <3>5
      <4> QED
        BY <3>3, <4>1 DEF Owed
    <3>6. CASE status # "open" /\ StatusOf(c, read, amount, status) = "open"
      <4>1. claims[c].status = "open" /\ (status = None \/ status = read.status)
        BY <3>1, <3>6 DEF StatusOf
      <4>2. status = None
        BY <3>1, <3>6, <4>1
      <4>3. CASE amount \in {None, read.amount}
        <5>1. claims'[c].amount = claims[c].amount /\ reopened' = reopened /\ overtaken' = overtaken
          BY <1>5, <2>2, <3>3, <3>6, <4>3
        <5>2. Owed(c)
          BY <1>3, OpenMeansOwedEach
        <5> QED
          BY <1>3, <1>5, <4>1, <5>1, <5>2 DEF Owed, Outstanding
      <4>4. CASE amount \notin {None, read.amount}
        <5>1. SettledIfPaid(read.status, read.paid, amount) = read.status
          BY <3>6, <4>2, <4>4 DEF StatusOf
        <5>2. ~ (Paid(c, links) >= amount) /\ claims'[c].amount = amount
          BY <3>1, <3>3, <4>1, <4>4, <5>1 DEF SettledIfPaid
        <5>3. claims'[c].amount - Paid(c, links') > 0
          BY <1>5, <3>4, <5>2
        <5> QED
          BY <5>3 DEF Owed, Outstanding
      <4> QED
        BY <4>3, <4>4
    <3> QED
      BY <3>5, <3>6
  <2> QED
    BY <1>5, <2>1, <2>2
<1>8. OpenMeansOwed' <=> \A o \in Claims : Owed(o)'
  BY DEF OpenMeansOwed, Owed
<1> QED
  BY <1>6, <1>7, <1>8

\* What moves with a row is settled by what is paid then; the rest only loses links.
LEMMA MoveOwed ==
  ASSUME Typed, Typed', PaymentCountsOnce, OpenMeansOwed, NEW old, NEW new, new = None \/ new \in Rows,
         MoveLinks(old, new), overtaken' = overtaken
  PROVE  OpenMeansOwed'
<1>1. ASSUME NEW c \in Claims PROVE Owed(c)'
  <2> DEFINE paying == [claim |-> c, row |-> new, role |-> "payment"]
  <2>1. claims'[c] = IF paying \in links'
                       THEN [claims[c] EXCEPT !.status = SettledIfPaid(@, Paid(c, links'), claims[c].amount)]
                       ELSE claims[c]
    BY DEF MoveLinks
  <2>2. paying \in links' => claims[c] # None
    BY MoveTyped
  <2> HIDE DEF paying
  <2>3. CASE paying \in links'
    <3>1. claims[c] \in Claim
      BY <2>2, <2>3, ReadIsTyped
    <3>2. /\ claims'[c].status = SettledIfPaid(claims[c].status, Paid(c, links'), claims'[c].amount)
          /\ claims'[c] # None
      BY <2>1, <2>2, <2>3, <3>1, MoveTyped DEF Claim
    <3> QED
      BY <3>2, OwedIfSettled
  <2>4. CASE paying \notin links'
    <3>1. claims'[c] = claims[c]
      BY <2>1, <2>4
    <3>2. PaymentsOf(c, links') \subseteq PaymentsOf(c, links)
      <4> SUFFICES ASSUME NEW k \in links', k.claim = c, k.role = "payment" PROVE k \in links
        BY DEF PaymentsOf
      <4>1. CASE k \in links
        BY <4>1
      <4>2. CASE k.row = new
        <5>1. k = [claim |-> k.claim, row |-> k.row, role |-> k.role]
          BY DEF Typed, TypeOK, Links
        <5> QED
          BY <2>4, <4>2, <5>1 DEF paying
      <4> QED
        BY <4>1, <4>2, MovedLinks
    <3>3. claims[c] # None /\ claims[c].status = "open" /\ c \in reopened => c \in reopened'
      BY <3>1 DEF MoveLinks
    <3>4. Owed(c)
      BY OpenMeansOwedEach
    <3> QED
      BY <3>1, <3>2, <3>3, <3>4, OwedStays
  <2> QED
    BY <2>3, <2>4
<1>2. OpenMeansOwed' <=> \A o \in Claims : Owed(o)'
  BY DEF OpenMeansOwed, Owed
<1> QED
  BY <1>1, <1>2

\* A step that writes no claim and adds no link.
LEMMA OwedWithout ==
  ASSUME Typed, Typed', OpenMeansOwed, UNCHANGED <<claims, reopened>>, links' \subseteq links,
         overtaken \subseteq overtaken'
  PROVE  OpenMeansOwed'
<1>1. ASSUME NEW c \in Claims PROVE Owed(c)'
  <2>1. PaymentsOf(c, links') \subseteq PaymentsOf(c, links) /\ Owed(c)
    BY OpenMeansOwedEach DEF PaymentsOf
  <2> QED
    BY <2>1, OwedStays
<1>2. OpenMeansOwed' <=> \A o \in Claims : Owed(o)'
  BY DEF OpenMeansOwed, Owed
<1> QED
  BY <1>1, <1>2

LEMMA OwedNext ==
  ASSUME Typed, PaymentCountsOnce, OpenMeansOwed, [Next]_vars
  PROVE  OpenMeansOwed'
<1>0. Typed'
  BY TypedNext
<1>1. CASE UNCHANGED vars
  BY <1>0, <1>1, OwedWithout DEF vars
<1>2. CASE \E c \in Claims : \E amount \in Amounts, person \in DebtorsOf[c], charges, payments \in SUBSET live :
             Create(c, amount, person, charges, payments)
  BY <1>2, CreateOwed
<1>3. CASE Elsewhere
  BY <1>0, <1>3, ElsewhereKeepsBooks, OwedWithout DEF books
<1>4. ASSUME NEW r \in Requests, NEW row \in Rows, NEW role \in Roles, AddLink(r, row, role)
      PROVE  OpenMeansOwed'
  <2>1. request[r] \in Pending /\ request[r].op = "link" /\ request[r] # None
    BY <1>4 DEF AddLink, Typed, RequestsOK
  <2>2. request[r].claim \in Claims /\ request[r].read \in Reads /\ claims[request[r].claim] # None
    BY <2>1, OfItsKind DEF Typed, RequestsOK
  <2>3. /\ Attach(request[r].claim, request[r].read, row, role)
        /\ overtaken \subseteq overtaken'
        /\ Read(request[r].claim) = request[r].read \/ request[r].claim \in overtaken'
    BY <1>4 DEF AddLink, Overtakes
  <2> QED
    BY <1>0, <2>2, <2>3, AttachOwed
<1>5. ASSUME NEW r \in Requests, NEW amount \in Amounts \cup {None}, NEW status \in {None} \cup Statuses,
             NEW person \in People \cup {None}, Update(r, amount, status, person)
      PROVE  OpenMeansOwed'
  BY <1>5, UpdateOwed
<1>6. ASSUME NEW r \in Requests, Void(r) PROVE OpenMeansOwed'
  BY <1>0, <1>6, OwedWithout DEF Void
<1>7. CASE \E l \in links : RemoveLink(l)
  BY <1>0, <1>7, OwedWithout DEF RemoveLink
<1>8. CASE \E person \in People, name \in Names : Identify(person, name)
  BY <1>0, <1>8, OwedWithout DEF Identify
<1>9. ASSUME NEW row \in Rows, Unvoid(row) PROVE OpenMeansOwed'
  BY <1>0, <1>9, OwedWithout DEF Unvoid
<1>10. ASSUME NEW row \in Rows, DeleteRow(row) PROVE OpenMeansOwed'
  BY <1>0, <1>10, MoveOwed DEF DeleteRow
<1>11. ASSUME NEW old \in Rows, NEW new \in Rows, Merge(old, new) PROVE OpenMeansOwed'
  BY <1>0, <1>11, MoveOwed DEF Merge
<1>12. ASSUME NEW m \in DOMAIN messages, NEW c \in Claims, Tap(m, c) PROVE OpenMeansOwed'
  <2>1. PICK row \in Rows : claims[c] # None /\ Attach(c, Read(c), row, "payment")
    BY <1>12 DEF Tap, Fits, Typed, TypeOK
  <2>2. overtaken' = overtaken
    BY <1>12 DEF Tap
  <2> QED
    BY <1>0, <2>1, <2>2, ReadIsTyped, AttachOwed DEF Roles
<1> QED
  BY <1>1, <1>2, <1>3, <1>4, <1>5, <1>6, <1>7, <1>8, <1>9, <1>10, <1>11, <1>12 DEF Next, Handle, Elsewhere

-----------------------------------------------------------------------------
\* Match prompts. A prompt's own message shows the row of the prompt.

Prompt == [row : Rows, candidates : SUBSET Claims, status : {"pending", "linked", "dismissed"},
           message : Nat, by : {None} \cup Nat]
Message == [prompt : PromptIds, row : Rows, candidates : SUBSET Claims,
            status : {"queued", "sent", "cancelled"}]

PromptsOK ==
  /\ prompts \in [PromptIds -> {None} \cup Prompt]
  /\ messages \in Seq(Message)
  /\ sweep # None => DOMAIN sweep \subseteq Rows /\ \A row \in DOMAIN sweep : sweep[row] \subseteq Claims
  /\ \A i \in PromptIds : prompts[i] # None =>
       /\ prompts[i].message \in DOMAIN messages
       /\ messages[prompts[i].message].row = prompts[i].row

LEMMA InitPrompts ==
  ASSUME Init
  PROVE  PromptsOK
BY DEF Init, PromptsOK, PromptIds

\* The statuses of messages change, not what they show.
LEMMA MessagesKept ==
  ASSUME PromptsOK, messages' \in Seq(Message), UNCHANGED sweep, DOMAIN messages' = DOMAIN messages,
         \A m \in DOMAIN messages : messages'[m].row = messages[m].row,
         prompts' \in [PromptIds -> {None} \cup Prompt],
         \A i \in PromptIds : prompts'[i] # None =>
           /\ prompts[i] # None
           /\ prompts'[i].row = prompts[i].row /\ prompts'[i].message = prompts[i].message
  PROVE  PromptsOK'
BY DEF PromptsOK

LEMMA MovePrompts ==
  ASSUME PromptsOK, NEW old, NEW new, MoveLinks(old, new), UNCHANGED sweep
  PROVE  PromptsOK'
<1> DEFINE asked == {i \in PromptIds : prompts[i] # None /\ prompts[i].row = old}
           now(m) == IF \E i \in asked : prompts[i].message = m /\ messages[m].status = "queued"
                       THEN [messages[m] EXCEPT !.status = "cancelled"] ELSE messages[m]
<1>1. /\ prompts' = [i \in PromptIds |-> IF i \in asked THEN None ELSE prompts[i]]
      /\ messages' = [m \in DOMAIN messages |-> now(m)]
  BY DEF MoveLinks
<1> HIDE DEF asked
<1>2. \A m \in DOMAIN messages : now(m) \in Message /\ now(m).row = messages[m].row
  <2> TAKE m \in DOMAIN messages
  <2>1. messages[m] \in Message
    BY DEF PromptsOK
  <2>2. [messages[m] EXCEPT !.status = "cancelled"] \in Message
    BY <2>1 DEF Message
  <2>3. [messages[m] EXCEPT !.status = "cancelled"].row = messages[m].row
    BY <2>1 DEF Message
  <2> QED
    BY <2>1, <2>2, <2>3
<1> HIDE DEF now
<1>3. messages' \in Seq(Message) /\ DOMAIN messages' = DOMAIN messages
  <2>1. PICK n \in Nat : DOMAIN messages = 1..n
    BY DEF PromptsOK
  <2>2. messages' \in [1..n -> Message]
    BY <1>1, <1>2, <2>1
  <2> QED
    BY <2>1, <2>2
<1>4. \A m \in DOMAIN messages : messages'[m].row = messages[m].row
  BY <1>1, <1>2
<1>5. prompts' \in [PromptIds -> {None} \cup Prompt]
  BY <1>1 DEF PromptsOK
<1>6. \A i \in PromptIds : prompts'[i] # None =>
        /\ prompts[i] # None
        /\ prompts'[i].row = prompts[i].row /\ prompts'[i].message = prompts[i].message
  BY <1>1
<1> QED
  BY <1>3, <1>4, <1>5, <1>6, MessagesKept

\* An answer marks its prompt, and nothing else of it.
LEMMA AnswerPrompts ==
  ASSUME PromptsOK, NEW i \in PromptIds, prompts[i] # None, NEW m \in DOMAIN messages,
         NEW status \in {"linked", "dismissed"}, UNCHANGED <<messages, sweep>>,
         prompts' = [prompts EXCEPT ![i].status = status, ![i].by = m]
  PROVE  /\ PromptsOK'
         /\ \A j \in PromptIds : j # i => prompts'[j] = prompts[j]
         /\ prompts'[i].status = status /\ prompts'[i].by = m
<1> DEFINE new == [prompts[i] EXCEPT !.status = status, !.by = m]
<1>1. prompts[i] \in Prompt /\ m \in Nat
  BY DEF PromptsOK
<1>2. /\ new \in Prompt /\ new.status = status /\ new.by = m
      /\ new.row = prompts[i].row /\ new.message = prompts[i].message
  BY <1>1 DEF Prompt
<1>3. prompts' = [prompts EXCEPT ![i] = new]
  BY <1>1 DEF PromptsOK
<1> HIDE DEF new
<1>4. \A j \in PromptIds : prompts'[j] = IF j = i THEN new ELSE prompts[j]
  BY <1>3 DEF PromptsOK
<1>5. prompts' \in [PromptIds -> {None} \cup Prompt]
  BY <1>2, <1>3 DEF PromptsOK
<1>6. \A j \in PromptIds : prompts'[j] # None =>
        /\ prompts[j] # None
        /\ prompts'[j].row = prompts[j].row /\ prompts'[j].message = prompts[j].message
  BY <1>2, <1>4
<1>7. messages' \in Seq(Message)
  BY DEF PromptsOK
<1>8. PromptsOK'
  BY <1>5, <1>6, <1>7, MessagesKept
<1> QED
  BY <1>2, <1>4, <1>8

LEMMA SweepReadPrompts ==
  ASSUME PromptsOK, Typed, SweepRead
  PROVE  PromptsOK'
<1>1. PICK open \in SUBSET live : sweep' = [row \in open |-> Candidates(row)]
  BY DEF SweepRead
<1>2. \A row \in open : row \in Rows /\ Candidates(row) \subseteq Claims
  BY DEF Typed, TypeOK, Candidates
<1> QED
  BY <1>1, <1>2 DEF SweepRead, PromptsOK

LEMMA SweepWritePrompts ==
  ASSUME PromptsOK, SweepWrite
  PROVE  PromptsOK'
<1>1. PICK row \in DOMAIN sweep :
        /\ sweep' = IF DOMAIN sweep = {row} THEN None ELSE [o \in DOMAIN sweep \ {row} |-> sweep[o]]
        /\ IF Asked(row) THEN UNCHANGED <<prompts, messages>>
           ELSE /\ NewId \in PromptIds
                /\ messages' = Append(messages, [prompt |-> NewId, row |-> row,
                                                 candidates |-> sweep[row], status |-> "queued"])
                /\ prompts' = [prompts EXCEPT ![NewId] =
                     [row |-> row, candidates |-> sweep[row], status |-> "pending",
                      message |-> Len(messages) + 1, by |-> None]]
  BY DEF SweepWrite
<1>2. row \in Rows /\ sweep[row] \in SUBSET Claims
  BY DEF PromptsOK, SweepWrite
<1>3. sweep' # None => DOMAIN sweep' \subseteq Rows /\ \A o \in DOMAIN sweep' : sweep'[o] \subseteq Claims
  BY <1>1 DEF PromptsOK, SweepWrite
<1>4. CASE UNCHANGED <<prompts, messages>>
  BY <1>3, <1>4 DEF PromptsOK
<1>5. CASE ~ Asked(row)
  <2> DEFINE id == NewId
             sent == [prompt |-> id, row |-> row, candidates |-> sweep[row], status |-> "queued"]
             new == [row |-> row, candidates |-> sweep[row], status |-> "pending",
                     message |-> Len(messages) + 1, by |-> None]
  <2>1. id \in PromptIds /\ messages' = Append(messages, sent) /\ prompts' = [prompts EXCEPT ![id] = new]
    BY <1>1, <1>5
  <2> HIDE DEF id
  <2>2. messages \in Seq(Message) /\ Len(messages) \in Nat
    BY DEF PromptsOK
  <2>3. sent \in Message /\ sent.row = row
    BY <1>2, <2>1 DEF Message
  <2>4. new \in Prompt /\ new.row = row /\ new.message = Len(messages) + 1
    BY <1>2, <2>2 DEF Prompt
  <2> HIDE DEF sent, new
  <2>5. /\ messages' \in Seq(Message) /\ Len(messages') = Len(messages) + 1
        /\ messages'[Len(messages) + 1] = sent
        /\ \A m \in DOMAIN messages : m \in DOMAIN messages' /\ messages'[m] = messages[m]
    BY <2>1, <2>2, <2>3
  <2>6. Len(messages) + 1 \in DOMAIN messages'
    BY <2>2, <2>5
  <2>7. \A i \in PromptIds : prompts'[i] = IF i = id THEN new ELSE prompts[i]
    BY <2>1 DEF PromptsOK
  <2>8. prompts' \in [PromptIds -> {None} \cup Prompt]
    BY <2>1, <2>4 DEF PromptsOK
  <2>9. ASSUME NEW i \in PromptIds, prompts'[i] # None
        PROVE  /\ prompts'[i].message \in DOMAIN messages'
               /\ messages'[prompts'[i].message].row = prompts'[i].row
    <3>1. CASE i = id
      BY <2>3, <2>4, <2>5, <2>6, <2>7, <3>1
    <3>2. CASE i # id
      BY <2>5, <2>7, <2>9, <3>2 DEF PromptsOK
    <3> QED
      BY <3>1, <3>2
  <2> QED
    BY <1>3, <2>5, <2>8, <2>9 DEF PromptsOK
<1> QED
  BY <1>1, <1>4, <1>5

LEMMA SendPrompts ==
  ASSUME PromptsOK, NEW m \in DOMAIN messages, Send(m)
  PROVE  PromptsOK'
<1> DEFINE new == [messages[m] EXCEPT !.status = "sent"]
<1>1. messages[m] \in Message
  BY DEF PromptsOK
<1>2. new \in Message /\ new.row = messages[m].row
  BY <1>1 DEF Message
<1>3. messages' = [messages EXCEPT ![m] = new]
  BY DEF Send
<1> HIDE DEF new
<1>4. messages' \in Seq(Message) /\ DOMAIN messages' = DOMAIN messages
  BY <1>2, <1>3 DEF PromptsOK
<1>5. \A j \in DOMAIN messages : messages'[j].row = messages[j].row
  BY <1>2, <1>3
<1>6. prompts' = prompts /\ prompts' \in [PromptIds -> {None} \cup Prompt]
  BY DEF Send, PromptsOK
<1> QED
  BY <1>4, <1>5, <1>6, MessagesKept DEF Send

LEMMA PromptsNext ==
  ASSUME PromptsOK, Typed, [Next]_vars
  PROVE  PromptsOK'
<1>1. CASE UNCHANGED <<prompts, messages, sweep>>
  BY <1>1 DEF PromptsOK
<1>2. CASE SweepRead
  BY <1>2, SweepReadPrompts
<1>3. CASE SweepWrite
  BY <1>3, SweepWritePrompts
<1>4. ASSUME NEW m \in DOMAIN messages, Send(m) PROVE PromptsOK'
  BY <1>4, SendPrompts
<1>5. ASSUME NEW m \in DOMAIN messages, Dismiss(m) PROVE PromptsOK'
  BY <1>5, AnswerPrompts DEF Dismiss, Answerable
<1>6. ASSUME NEW m \in DOMAIN messages, NEW c \in Claims, Tap(m, c) PROVE PromptsOK'
  BY <1>6, AnswerPrompts DEF Tap, Answerable
<1>7. ASSUME NEW row \in Rows, DeleteRow(row) PROVE PromptsOK'
  BY <1>7, MovePrompts DEF DeleteRow
<1>8. ASSUME NEW old \in Rows, NEW new \in Rows, Merge(old, new) PROVE PromptsOK'
  BY <1>8, MovePrompts DEF Merge
<1>9. CASE \E c \in Claims : \E amount \in Amounts, person \in DebtorsOf[c], charges, payments \in SUBSET live :
             Create(c, amount, person, charges, payments)
  BY <1>1, <1>9 DEF Create
<1>10. CASE \E r \in Requests : Handle(r)
  BY <1>1, <1>10 DEF Handle, Start, AddLink, Update, CheckVoid, Void
<1> QED
  BY <1>1, <1>2, <1>3, <1>4, <1>5, <1>6, <1>7, <1>8, <1>9, <1>10
     DEF Next, vars, RemoveLink, Identify, Unvoid

\* What a tap does, in the state it finds.
TapPays ==
  \A i \in PromptIds :
    (prompts[i] # None /\ prompts[i].status = "pending" /\ prompts'[i] # None /\ prompts'[i].status = "linked") =>
      \E m \in {prompts'[i].by} : \E c \in messages[m].candidates :
        /\ links' = links \cup {[claim |-> c, row |-> messages[m].row, role |-> "payment"]}
        /\ links' # links
        /\ claims'[c].status = "settled" /\ Paid(c, links') = claims'[c].amount

LEMMA TapStep ==
  ASSUME PromptsOK, Typed, NEW m \in DOMAIN messages, NEW c \in Claims, Tap(m, c)
  PROVE  TapPays
<1>1. PICK i \in PromptIds :
        /\ Answerable(m, i) /\ c \in messages[m].candidates \cap prompts[i].candidates
        /\ prompts[i].row \in live \ voided /\ Fits(prompts[i].row, c)
        /\ Attach(c, Read(c), prompts[i].row, "payment")
        /\ prompts' = [prompts EXCEPT ![i].status = "linked", ![i].by = m]
        /\ UNCHANGED <<messages, sweep>>
  BY DEF Tap
<1>2. prompts[i] # None /\ prompts[i].message = m
  BY <1>1 DEF Answerable, OwnButton
<1>3. messages[m].row = prompts[i].row /\ prompts[i].row \in Rows
  BY <1>1, <1>2 DEF PromptsOK, Typed, TypeOK
<1>4. /\ \A j \in PromptIds : j # i => prompts'[j] = prompts[j]
      /\ prompts'[i].by = m
  BY <1>1, <1>2, AnswerPrompts
<1> DEFINE row == prompts[i].row
           new == [claim |-> c, row |-> row, role |-> "payment"]
<1>5. links' = links \cup {new} /\ links' # links /\ new \notin links
  BY <1>1 DEF Attach
<1>6. claims[c] # None /\ claims[c].status = "open" /\ Amount[row] = Outstanding(c)
  BY <1>1 DEF Fits
<1>7. claims[c] \in Claim /\ Read(c).status = "open" /\ Read(c).amount = claims[c].amount
         /\ Read(c).paid = Paid(c, links) /\ Outstanding(c) = claims[c].amount - Paid(c, links)
  BY <1>6, ReadIsTyped
<1>8. Paid(c, links') = Paid(c, links) + Amount[row]
  <2>1. row \in Rows /\ "payment" \in Roles /\ links \in SUBSET Links
    BY <1>3 DEF Roles, Typed, TypeOK
  <2>2. \A o : Paid(o, links \cup {new}) = IF o = c /\ "payment" = "payment" THEN Paid(o, links) + Amount[row]
                                          ELSE Paid(o, links)
    BY <1>5, <2>1, PaidByOneMore
  <2> QED
    BY <1>5, <2>2
<1>9. Paid(c, links) \in Nat /\ Amount[row] \in Nat /\ claims[c].amount \in Nat
  BY <1>3, <1>7, PaidIsNat, ReceivablesAssumption DEF Claim, Typed, TypeOK
<1>10. SettledIfPaid(Read(c).status, Read(c).paid + Amount[row], Read(c).amount) # Read(c).status
  BY <1>6, <1>7, <1>9 DEF SettledIfPaid
<1>11. claims' = [claims EXCEPT ![c].status = "settled"]
  BY <1>1, <1>10 DEF Attach
<1>12. claims'[c].status = "settled" /\ claims'[c].amount = claims[c].amount
  BY <1>7, <1>11 DEF Claim, Typed, TypeOK
<1>13. Paid(c, links') = claims'[c].amount
  BY <1>6, <1>7, <1>8, <1>9, <1>12
<1> QED
  BY <1>1, <1>3, <1>4, <1>5, <1>12, <1>13 DEF TapPays

\* No other step links a prompt.
LEMMA OnlyTapsLink ==
  ASSUME PromptsOK, Typed, [Next]_vars
  PROVE  TapPays
<1> DEFINE Unlinked == \A i \in PromptIds : ~ (/\ prompts[i] # None /\ prompts[i].status = "pending"
                                              /\ prompts'[i] # None /\ prompts'[i].status = "linked")
<1>0. Unlinked => TapPays
  BY DEF TapPays
<1>1. CASE prompts' = prompts
  BY <1>0, <1>1
<1>2. CASE SweepWrite
  <2>1. PICK row \in DOMAIN sweep :
          \/ prompts' = prompts
          \/ prompts' = [prompts EXCEPT ![NewId] =
               [row |-> row, candidates |-> sweep[row], status |-> "pending",
                message |-> Len(messages) + 1, by |-> None]]
    BY <1>2, Zenon DEF SweepWrite
  <2>2. \A i \in PromptIds : prompts'[i] = prompts[i] \/ prompts'[i].status = "pending"
    BY <2>1 DEF PromptsOK
  <2> QED
    BY <1>0, <2>2
<1>3. ASSUME NEW m \in DOMAIN messages, Dismiss(m) PROVE TapPays
  <2>1. PICK i \in PromptIds : /\ prompts[i] # None /\ UNCHANGED <<messages, sweep>>
                               /\ prompts' = [prompts EXCEPT ![i].status = "dismissed", ![i].by = m]
    BY <1>3 DEF Dismiss, Answerable
  <2>2. (\A j \in PromptIds : j # i => prompts'[j] = prompts[j]) /\ prompts'[i].status = "dismissed"
    BY <2>1, AnswerPrompts
  <2> QED
    BY <1>0, <2>2
<1>4. ASSUME NEW m \in DOMAIN messages, NEW c \in Claims, Tap(m, c) PROVE TapPays
  BY <1>4, TapStep
<1>5. ASSUME NEW old, NEW new, MoveLinks(old, new) PROVE TapPays
  BY <1>0, <1>5 DEF MoveLinks
<1>6. CASE \E c \in Claims : \E amount \in Amounts, person \in DebtorsOf[c], charges, payments \in SUBSET live :
             Create(c, amount, person, charges, payments)
  BY <1>1, <1>6 DEF Create
<1>7. CASE \E r \in Requests : Handle(r)
  BY <1>1, <1>7 DEF Handle, Start, AddLink, Update, CheckVoid, Void
<1> QED
  BY <1>1, <1>2, <1>3, <1>4, <1>5, <1>6, <1>7
     DEF Next, vars, RemoveLink, Identify, Unvoid, DeleteRow, Merge, SweepRead, Send

-----------------------------------------------------------------------------
BooksInv == Typed /\ PaymentCountsOnce /\ OpenMeansOwed

LEMMA BooksInductive == Spec => []BooksInv
<1>1. Init => BooksInv
  BY InitTyped, InitCounts, InitOwed DEF BooksInv
<1>2. BooksInv /\ [Next]_vars => BooksInv'
  BY TypedNext, CountsNext, OwedNext DEF BooksInv
<1> QED
  BY <1>1, <1>2, PTL DEF Spec

\* Through links, edits, merges, deletes and taps of any number of requests, a row
\* pays one claim at most, on the right side, while it exists; and a row that was
\* voided meanwhile pays only a claim that the void overtook.
THEOREM PaymentsCountOnce == Spec => []PaymentCountsOnce
<1>1. BooksInv => PaymentCountsOnce
  BY DEF BooksInv
<1> QED
  BY <1>1, BooksInductive, PTL

\* An open claim is not paid in full, whatever its payments add up to, except when
\* the user opened it again or a request wrote it by a stale read.
THEOREM OpenClaimsAreOwed == Spec => []OpenMeansOwed
<1>1. BooksInv => OpenMeansOwed
  BY DEF BooksInv
<1> QED
  BY <1>1, BooksInductive, PTL

\* A tap links the row of its message to a claim its message offered, and pays
\* exactly what is outstanding, though requests, merges and sweeps ran since.
THEOREM TapsPayWhatTheyShow == Spec => TapPaysWhatItShowed
<1>1. Init => PromptsOK
  BY InitPrompts
<1>2. PromptsOK /\ BooksInv /\ [Next]_vars => PromptsOK'
  BY PromptsNext DEF BooksInv
<1>3. PromptsOK /\ BooksInv /\ [Next]_vars => [TapPays]_vars
  BY OnlyTapsLink DEF BooksInv
<1> QED
  BY <1>1, <1>2, <1>3, BooksInductive, PTL DEF Spec, TapPaysWhatItShowed, TapPays


-----------------------------------------------------------------------------
(* The cycles of a card.                                                    *)

\* The smallest element of a set of numbers that is not empty.
LEMMA SmallestNat ==
  ASSUME NEW S, S \subseteq Nat, S # {}
  PROVE  Min(S) \in S /\ \A x \in S : Min(S) <= x
<1>1. \E x \in S : \A y \in S : x <= y
  BY LeastNat
<1> QED
  BY <1>1 DEF Min

\* The windows of two statements differ by their due dates only.
LEMMA Edges ==
  ASSUME NEW ups, IsFiniteSet(DOMAIN ups), ups \in [DOMAIN ups -> Upload],
         NEW a, NEW u \in Anchors(ups, a)
  PROVE  /\ ups[u].due \in Nat
         /\ CycleWindow(ups, u).start \in Nat
         /\ \A v \in Anchors(ups, a) :
              ups[v].due < ups[u].due => ups[v].due < CycleWindow(ups, u).start
         /\ (\E v \in Anchors(ups, a) : ups[v].due < ups[u].due) =>
              \E v \in Anchors(ups, a) : /\ ups[v].due < ups[u].due
                                         /\ CycleWindow(ups, u).start = ups[v].due + 1
         /\ CycleWindow(ups, u).end = IF \E v \in Anchors(ups, a) : ups[v].due > ups[u].due
                                        THEN ups[u].due + 1 ELSE Unset
         /\ \A v \in Anchors(ups, a) :
              ups[v].due = ups[u].due => CycleWindow(ups, v) = CycleWindow(ups, u)
<1> DEFINE A == Anchors(ups, a)
           earlier(d) == {ups[v].due : v \in {v \in A : ups[v].due < d}}
           same(d) == {v \in A : ups[v].due = d}
           later(d) == {v \in A : ups[v].due > d}
           created(d) == {ups[v].created : v \in same(d)}
           W(d) == [start |-> IF earlier(d) # {} THEN Max(earlier(d)) + 1 ELSE Min(created(d)),
                    end |-> IF later(d) # {} THEN d + 1 ELSE Unset]
<1>1. \A v \in A : /\ v \in DOMAIN ups /\ ups[v].acct = a
                   /\ ups[v].due \in Nat /\ ups[v].created \in Nat
  BY DEF Anchors, Upload
<1>2. \A v \in A : CycleWindow(ups, v) = W(ups[v].due)
  BY <1>1 DEF CycleWindow
<1>3. IsFiniteSet(earlier(ups[u].due))
  <2>1. IsFiniteSet({v \in A : ups[v].due < ups[u].due})
    <3>1. {v \in A : ups[v].due < ups[u].due} \subseteq DOMAIN ups
      BY <1>1
    <3> QED
      BY <3>1, FS_Subset
  <2> DEFINE E == {v \in A : ups[v].due < ups[u].due}
             dueOf == [v \in E |-> ups[v].due]
  <2>2. dueOf \in Surjection(E, earlier(ups[u].due))
    BY DEF Surjection
  <2> QED
    BY <2>1, <2>2, FS_Surjection
<1>4. created(ups[u].due) \subseteq Nat /\ created(ups[u].due) # {}
  BY <1>1
<1>5. earlier(ups[u].due) \subseteq Nat
  BY <1>1
<1> DEFINE d == ups[u].due
<1>6. earlier(d) # {} =>
        /\ Max(earlier(d)) \in earlier(d)
        /\ \A x \in earlier(d) : x <= Max(earlier(d))
  BY <1>3, <1>5, LargestNat
<1>7. Min(created(d)) \in Nat
  BY <1>4, SmallestNat
<1>8. /\ CycleWindow(ups, u).start = IF earlier(d) # {} THEN Max(earlier(d)) + 1 ELSE Min(created(d))
      /\ CycleWindow(ups, u).end = IF later(d) # {} THEN d + 1 ELSE Unset
  <2>1. CycleWindow(ups, u) = W(d)
    BY <1>2
  <2> HIDE DEF earlier, later, created
  <2> QED
    BY <2>1
<1>9. CycleWindow(ups, u).start \in Nat
  <2>1. CASE earlier(d) # {}
    <3>1. Max(earlier(d)) \in Nat
      BY <1>5, <1>6, <2>1
    <3> QED
      BY <1>8, <2>1, <3>1
  <2>2. CASE earlier(d) = {}
    BY <1>7, <1>8, <2>2
  <2> QED
    BY <2>1, <2>2
<1>10. ASSUME NEW v \in A, ups[v].due < d
       PROVE  ups[v].due < CycleWindow(ups, u).start
  <2>1. ups[v].due \in earlier(d)
    BY <1>10
  <2>2. ups[v].due <= Max(earlier(d)) /\ Max(earlier(d)) \in Nat
    BY <2>1, <1>5, <1>6
  <2> QED
    BY <2>1, <2>2, <1>1, <1>8
<1>11. ASSUME NEW v \in A, ups[v].due < d
       PROVE  \E x \in A : ups[x].due < d /\ CycleWindow(ups, u).start = ups[x].due + 1
  <2>1. ups[v].due \in earlier(d)
    BY <1>11
  <2>2. Max(earlier(d)) \in earlier(d)
    BY <2>1, <1>6
  <2> QED
    BY <2>1, <2>2, <1>8
<1>12. CycleWindow(ups, u).end = IF \E v \in A : ups[v].due > d THEN d + 1 ELSE Unset
  BY <1>8
<1>13. \A v \in A : ups[v].due = d => CycleWindow(ups, v) = CycleWindow(ups, u)
  BY <1>2
<1> QED
  BY <1>1, <1>9, <1>10, <1>11, <1>12, <1>13

\* A day on which a cycle of an account has begun lies in one cycle.
LEMMA OneCycle ==
  ASSUME NEW ups, IsFiniteSet(DOMAIN ups), ups \in [DOMAIN ups -> Upload],
         NEW a, NEW day \in Nat,
         NEW first \in Anchors(ups, a), CycleWindow(ups, first).start <= day
  PROVE  \E u \in Anchors(ups, a) :
           /\ InWindow(day, CycleWindow(ups, u))
           /\ \A v \in Anchors(ups, a) :
                InWindow(day, CycleWindow(ups, v)) => ups[v].due = ups[u].due
<1> DEFINE A == Anchors(ups, a)
           start(u) == CycleWindow(ups, u).start
           end(u) == CycleWindow(ups, u).end
           dues == {ups[u].due : u \in A}
<1> USE CardAssumption
<1>1. \A u \in A : /\ ups[u].due \in Nat /\ start(u) \in Nat
                   /\ \A v \in A : ups[v].due < ups[u].due => ups[v].due < start(u)
                   /\ (\E v \in A : ups[v].due < ups[u].due) =>
                        \E v \in A : ups[v].due < ups[u].due /\ start(u) = ups[v].due + 1
                   /\ (\E v \in A : ups[v].due > ups[u].due) => end(u) = ups[u].due + 1
                   /\ ~(\E v \in A : ups[v].due > ups[u].due) => end(u) = Unset
                   /\ \A v \in A : ups[v].due = ups[u].due => start(v) = start(u)
  BY Edges
<1>2. \A u \in A : InWindow(day, CycleWindow(ups, u)) <=>
                     start(u) <= day /\ (end(u) = Unset \/ day < end(u))
  BY DEF InWindow
<1> HIDE DEF A, start, end
<1>3. dues \subseteq Nat /\ dues # {}
  BY <1>1 DEF A
<1>4. IsFiniteSet(dues)
  <2>1. IsFiniteSet(A)
    BY FS_Subset DEF A, Anchors
  <2> DEFINE dueOf == [u \in A |-> ups[u].due]
  <2>2. dueOf \in Surjection(A, dues)
    BY DEF Surjection
  <2> QED
    BY <2>1, <2>2, FS_Surjection
<1>5. first \in A /\ start(first) <= day
  BY DEF A, start
<1>6. \E u \in A : start(u) <= day /\ (end(u) = Unset \/ day < end(u))
  <2>1. CASE \E x \in dues : x >= day
    <3> DEFINE rest == {x \in dues : x >= day}
    <3>1. PICK d \in rest : \A x \in rest : d <= x
      BY <1>3, <2>1, LeastNat
    <3>2. PICK u \in A : ups[u].due = d
      BY <3>1
    <3>3. ASSUME NEW v \in A, ups[v].due < d PROVE ups[v].due < day
      <4>1. ups[v].due \in dues /\ ups[v].due \in Nat /\ d \in Nat
        BY <1>1, <1>3, <3>1
      <4>2. ~ (ups[v].due >= day)
        BY <3>1, <3>3, <4>1
      <4> QED
        BY <4>1, <4>2
    <3>4. end(u) = Unset \/ day < end(u)
      BY <1>1, <1>3, <3>1, <3>2
    <3>5. start(u) <= day
      <4>1. CASE \E v \in A : ups[v].due < d
        BY <1>1, <3>2, <3>3, <4>1
      <4>2. CASE ~ (\E v \in A : ups[v].due < d)
        <5>1. ups[first].due >= d /\ d \in Nat /\ d >= day
          BY <1>1, <1>3, <1>5, <3>1, <4>2
        <5>2. ~ (d < ups[first].due)
          <6> SUFFICES ASSUME d < ups[first].due PROVE FALSE
            OBVIOUS
          <6>1. ups[u].due < ups[first].due
            BY <3>2
          <6>2. ups[u].due < start(first)
            BY <6>1, <1>1, <1>5
          <6>3. start(first) \in Nat /\ ups[u].due \in Nat
            BY <1>1, <1>5
          <6> QED
            BY <6>2, <6>3, <3>2, <5>1, <1>5
        <5>3. ups[first].due = ups[u].due
          <6>1. ups[first].due \in Nat
            BY <1>1, <1>5
          <6> QED
            BY <5>1, <5>2, <3>2, <6>1
        <5>4. start(u) = start(first)
          BY <5>3, <1>1, <1>5
        <5> QED
          BY <5>4, <1>5
      <4> QED
        BY <4>1, <4>2
    <3> QED
      BY <3>4, <3>5
  <2>2. CASE ~ (\E x \in dues : x >= day)
    <3>1. Max(dues) \in dues /\ \A x \in dues : x <= Max(dues)
      BY <1>3, <1>4, LargestNat
    <3>2. PICK u \in A : ups[u].due = Max(dues)
      BY <3>1
    <3>3. ASSUME NEW v \in A PROVE ups[v].due \in Nat /\ ups[v].due < day /\ ups[v].due <= ups[u].due
      <4>1. ups[v].due \in dues /\ ups[v].due \in Nat
        BY <1>1
      <4>2. ~ (ups[v].due >= day)
        BY <2>2, <4>1
      <4> QED
        BY <3>1, <3>2, <4>1, <4>2
    <3>4. end(u) = Unset
      BY <1>1, <3>3
    <3>5. start(u) <= day
      <4>1. CASE \E v \in A : ups[v].due < ups[u].due
        BY <1>1, <3>3, <4>1
      <4>2. CASE ~ (\E v \in A : ups[v].due < ups[u].due)
        BY <1>1, <1>5, <3>3, <4>2
      <4> QED
        BY <4>1, <4>2
    <3> QED
      BY <3>4, <3>5
  <2> QED
    BY <2>1, <2>2
<1>7. ASSUME NEW u \in A, NEW v \in A,
             start(u) <= day, end(u) = Unset \/ day < end(u),
             start(v) <= day, end(v) = Unset \/ day < end(v),
             ups[u].due < ups[v].due
      PROVE  FALSE
  <2>1. end(u) = ups[u].due + 1 /\ ups[u].due \in Nat
    BY <1>1, <1>7
  <2>2. day < ups[u].due + 1
    BY <1>7, <2>1
  <2>3. ups[u].due < start(v) /\ start(v) \in Nat
    BY <1>1, <1>7
  <2> QED
    BY <1>7, <2>1, <2>2, <2>3
<1>8. PICK u \in A : start(u) <= day /\ (end(u) = Unset \/ day < end(u))
  BY <1>6
<1>9. \A v \in A : start(v) <= day /\ (end(v) = Unset \/ day < end(v)) => ups[v].due = ups[u].due
  BY <1>1, <1>7, <1>8
<1> QED
  BY <1>2, <1>8, <1>9 DEF A

(* From the first cycle of an account on, every day lies in one cycle.       *)
LEMMA PartitionHolds ==
  ASSUME IsFiniteSet(DOMAIN uploads), uploads \in [DOMAIN uploads -> Upload]
  PROVE  CyclesPartition
<1> SUFFICES ASSUME NEW a \in Accounts, NEW day \in 0..LastDay + 1,
                    NEW first \in Anchors(uploads, a), CycleWindow(uploads, first).start <= day
             PROVE  Cardinality({uploads[u].due :
                      u \in {u \in Anchors(uploads, a) : InWindow(day, CycleWindow(uploads, u))}}) = 1
  BY DEF CyclesPartition
<1> DEFINE held == {uploads[u].due :
                      u \in {u \in Anchors(uploads, a) : InWindow(day, CycleWindow(uploads, u))}}
<1>1. day \in Nat
  BY CardAssumption
<1>2. PICK u \in Anchors(uploads, a) :
        /\ InWindow(day, CycleWindow(uploads, u))
        /\ \A v \in Anchors(uploads, a) :
             InWindow(day, CycleWindow(uploads, v)) => uploads[v].due = uploads[u].due
  BY <1>1, OneCycle
<1>3. held = {uploads[u].due}
  BY <1>2
<1> QED
  BY <1>3, FS_Singleton

-----------------------------------------------------------------------------
(* Types, and what an action does to a row.                                 *)

Ticket == [acct : Accounts \cup {Unset}, day : Nat, amt : CreditAmounts, bill : BOOLEAN]

CardTypes ==
  /\ today \in Nat
  /\ IsFiniteSet(DOMAIN uploads) /\ DOMAIN uploads \subseteq Nat
  /\ uploads \in [DOMAIN uploads -> Upload]
  /\ IsFiniteSet(DOMAIN credits) /\ DOMAIN credits \subseteq Nat
  /\ credits \in [DOMAIN credits -> Ticket]
  /\ DOMAIN basis = DOMAIN uploads
  /\ told \in [DOMAIN uploads -> Nat]

\* The credits that pay a bill of account a within a window, and their sum.
Counted(creds, a, window) ==
  {c \in DOMAIN creds : creds[c].acct = a /\ creds[c].bill /\ InWindow(creds[c].day, window)}
SumIn(creds, a, window) ==
  SumFunctionOnSet([c \in DOMAIN creds |-> creds[c].amt], Counted(creds, a, window))

LEMMA SumInWindow ==
  ASSUME NEW creds, IsFiniteSet(DOMAIN creds), creds \in [DOMAIN creds -> Ticket],
         NEW ups, NEW u
  PROVE  /\ QualifyingSum(ups, creds, u) = SumIn(creds, ups[u].acct, CycleWindow(ups, u))
         /\ QualifyingSum(ups, creds, u) \in Nat
<1>1. QualifyingSum(ups, creds, u) = SumIn(creds, ups[u].acct, CycleWindow(ups, u))
  BY DEF QualifyingSum, SumIn, Counted
<1> DEFINE S == Counted(creds, ups[u].acct, CycleWindow(ups, u))
           w == [c \in DOMAIN creds |-> creds[c].amt]
<1>2. S \subseteq DOMAIN creds /\ IsFiniteSet(S)
  BY FS_Subset DEF Counted
<1>3. \A c \in S : w[c] \in Nat
  BY <1>2, CardAssumption DEF Ticket
<1> HIDE DEF S, w
<1>4. SumFunctionOnSet(w, S) \in Nat
  BY <1>2, <1>3, SumIsNat
<1> QED
  BY <1>1, <1>4 DEF SumIn, S, w

\* What one account is owed does not change with the credits of the others.
LEMMA SumKept ==
  ASSUME NEW creds, IsFiniteSet(DOMAIN creds), NEW others, NEW a, NEW window,
         Counted(creds, a, window) = Counted(others, a, window),
         \A c \in Counted(creds, a, window) : creds[c].amt = others[c].amt
  PROVE  SumIn(creds, a, window) = SumIn(others, a, window)
<1> DEFINE S == Counted(creds, a, window)
           v == [c \in DOMAIN creds |-> creds[c].amt]
           w == [c \in DOMAIN others |-> others[c].amt]
<1>1. S \subseteq DOMAIN creds /\ S \subseteq DOMAIN others /\ IsFiniteSet(S)
  BY FS_Subset DEF Counted
<1>2. \A c \in S : v[c] = w[c]
  BY <1>1
<1> HIDE DEF S, v, w
<1>3. SumFunctionOnSet(v, S) = SumFunctionOnSet(w, S)
  BY <1>1, <1>2, SumSame
<1> QED
  BY <1>3 DEF SumIn, S, v, w

\* A record with the fields of an upload is one.
LEMMA UploadOf ==
  ASSUME NEW n, NEW r \in Upload, DOMAIN n = DOMAIN r, n = [f \in DOMAIN n |-> n[f]],
         n.acct \in Accounts, n.kind = r.kind, n.created = r.created,
         n.due \in Nat \cup {Unset}, n.total \in Int \cup {Unset},
         n.status \in Open \cup {"paid", Unset}, n.sent \in SUBSET Offsets, n.paid \in Int
  PROVE  n \in Upload
<1>1. n = [acct |-> n.acct, kind |-> n.kind, created |-> n.created, due |-> n.due,
           total |-> n.total, status |-> n.status, sent |-> n.sent, paid |-> n.paid]
  BY DEF Upload
<1>2. n.kind \in {"pdf", "summary"} /\ n.created \in Nat
  BY DEF Upload
<1> QED
  BY <1>1, <1>2, Zenon DEF Upload

\* A statement that is summed up from scratch.
LEMMA Resummed ==
  ASSUME NEW ups, ups \in [DOMAIN ups -> Upload], NEW u \in DOMAIN ups,
         NEW creds, IsFiniteSet(DOMAIN creds), creds \in [DOMAIN creds -> Ticket],
         NEW zero \in BOOLEAN, NEW after, after = Recomputed(u, ups, creds, zero)
  PROVE  /\ after \in [DOMAIN ups -> Upload]
         /\ \A v \in DOMAIN ups : v # u => after[v] = ups[v]
         /\ after[u].acct = ups[u].acct
         /\ after[u].sent = ups[u].sent
         /\ after[u].status # Unset
         /\ after[u].paid = SumIn(creds, ups[u].acct, CycleWindow(ups, u))
<1> DEFINE sum == QualifyingSum(ups, creds, u)
           status == IF sum >= ups[u].total THEN "paid"
                     ELSE IF sum > 0 \/ ~zero THEN "partial" ELSE "unpaid"
           row == [ups[u] EXCEPT !.paid = sum, !.status = status]
<1>1. sum = SumIn(creds, ups[u].acct, CycleWindow(ups, u)) /\ sum \in Nat
  BY SumInWindow
<1>2. Recomputed(u, ups, creds, zero) = [ups EXCEPT ![u].paid = sum, ![u].status = status]
  BY DEF Recomputed
<1>3. status \in {"paid", "partial", "unpaid"}
  OBVIOUS
<1> HIDE DEF sum, status
<1>4. Recomputed(u, ups, creds, zero) = [ups EXCEPT ![u] = row]
  BY <1>2
<1>5. /\ row \in Upload /\ row.acct = ups[u].acct /\ row.due = ups[u].due
      /\ row.sent = ups[u].sent /\ row.status = status /\ row.paid = sum
  <2>1. status \in Open \cup {"paid", Unset}
    BY <1>3 DEF Open
  <2>2. ups[u] \in Upload /\ sum \in Int
    BY <1>1
  <2>3. /\ row.acct = ups[u].acct /\ row.kind = ups[u].kind /\ row.created = ups[u].created
        /\ row.due = ups[u].due /\ row.total = ups[u].total
        /\ row.sent = ups[u].sent /\ row.status = status /\ row.paid = sum
    BY <2>2 DEF Upload
  <2>4. DOMAIN row = DOMAIN ups[u] /\ row = [f \in DOMAIN row |-> row[f]]
    BY <2>2 DEF Upload
  <2>5. /\ ups[u].acct \in Accounts /\ ups[u].due \in Nat \cup {Unset}
        /\ ups[u].total \in Int \cup {Unset} /\ ups[u].sent \in SUBSET Offsets
    BY <2>2 DEF Upload
  <2> HIDE DEF row
  <2>6. row \in Upload
    BY <2>1, <2>2, <2>3, <2>4, <2>5, UploadOf
  <2> QED
    BY <2>3, <2>6
<1>6. status # Unset
  <2>1. Unset \notin {"paid", "partial", "unpaid"}
    BY CardAssumption DEF Open
  <2> QED
    BY <1>3, <2>1
<1> QED
  BY <1>1, <1>4, <1>5, <1>6

-----------------------------------------------------------------------------
(* What is paid.                                                            *)

\* A paid amount whose window is recorded is the sum over that window, unless a
\* payment has come that no job has looked at.
FoundedAt(u) ==
  basis[u] # Unset =>
    /\ uploads[u].status # Unset
    /\ \/ <<"check", uploads[u].acct>> \in jobs
       \/ uploads[u].paid = SumIn(credits, uploads[u].acct, basis[u])

Founded == \A u \in DOMAIN uploads : FoundedAt(u)

\* What the reminders see of a statement: no step but the loop's own writes
\* what was sent, unless it starts counting anew.
SteadyAt(u) ==
  \/ /\ u \in DOMAIN uploads
     /\ uploads'[u].sent = uploads[u].sent /\ told'[u] = told[u]
  \/ told'[u] = 0

Steady == \A u \in DOMAIN uploads' : SteadyAt(u)

\* A row whose account and paid amount stay, with the credits they count.
LEMMA FoundedStays ==
  ASSUME NEW u, FoundedAt(u), basis'[u] \in {basis[u], Unset},
         uploads'[u].acct = uploads[u].acct, uploads'[u].paid = uploads[u].paid,
         uploads[u].status # Unset => uploads'[u].status # Unset,
         <<"check", uploads[u].acct>> \in jobs =>
           basis'[u] = Unset \/ <<"check", uploads[u].acct>> \in jobs',
         basis'[u] # Unset =>
           \/ <<"check", uploads[u].acct>> \in jobs'
           \/ SumIn(credits', uploads[u].acct, basis[u]) = SumIn(credits, uploads[u].acct, basis[u])
  PROVE  FoundedAt(u)'
BY DEF FoundedAt

LEMMA CardInitTyped ==
  ASSUME CardInit
  PROVE  CardTypes /\ Founded
<1>1. CardTypes
  <2>1. IsFiniteSet({}) /\ DOMAIN credits = {} /\ credits \in [{} -> Ticket]
    <3>1. credits = <<>>
      BY DEF CardInit
    <3>2. DOMAIN credits = {} /\ credits \in [{} -> Ticket]
      BY <3>1
    <3> QED
      BY <3>2, FS_EmptySet
  <2>2. PICK book \in Books : uploads = book
    BY DEF CardInit
  <2>3. /\ IsFiniteSet(DOMAIN uploads) /\ DOMAIN uploads \subseteq Nat
        /\ uploads \in [DOMAIN uploads -> Upload]
    BY <2>2, CardAssumption
  <2>4. today = 0 /\ DOMAIN basis = DOMAIN uploads /\ told \in [DOMAIN uploads -> Nat]
    BY DEF CardInit
  <2> QED
    BY <2>1, <2>3, <2>4 DEF CardTypes
<1>2. Founded
  BY DEF CardInit, Founded, FoundedAt
<1> QED
  BY <1>1, <1>2

\* A statement that is summed up anew, while no credit comes or goes.
LEMMA RecomputeEffect ==
  ASSUME CardTypes, Founded, NEW u \in DOMAIN uploads, NEW zero \in BOOLEAN,
         Recompute(u, credits, zero),
         today' = today, credits' = credits, told' = told,
         \A a : <<"check", a>> \in jobs => <<"check", a>> \in jobs'
  PROVE  CardTypes' /\ Steady /\ Founded'
<1> DEFINE after == Recomputed(u, uploads, credits, zero)
           window == CycleWindow(uploads, u)
<1>1. uploads' = after /\ basis' = [basis EXCEPT ![u] = window]
  BY DEF Recompute
<1>2. /\ after \in [DOMAIN uploads -> Upload]
      /\ \A v \in DOMAIN uploads : v # u => after[v] = uploads[v]
      /\ after[u].acct = uploads[u].acct
      /\ after[u].sent = uploads[u].sent
      /\ after[u].status # Unset
      /\ after[u].paid = SumIn(credits, uploads[u].acct, window)
  BY Resummed DEF CardTypes
<1> HIDE DEF after, window
<1>3. DOMAIN uploads' = DOMAIN uploads /\ DOMAIN basis' = DOMAIN uploads
  BY <1>1, <1>2 DEF CardTypes
<1>4. CardTypes' /\ Steady
  BY <1>1, <1>2, <1>3 DEF CardTypes, Steady, SteadyAt
<1>5. ASSUME NEW v \in DOMAIN uploads PROVE FoundedAt(v)'
  <2>1. CASE v = u
    <3>1. basis'[u] = window
      BY <1>1 DEF CardTypes
    <3> QED
      BY <1>1, <1>2, <2>1, <3>1 DEF FoundedAt
  <2>2. CASE v # u
    <3>1. FoundedAt(v) /\ basis'[v] = basis[v] /\ uploads'[v] = uploads[v]
      BY <1>1, <1>2, <2>2 DEF Founded, CardTypes
    <3> QED
      BY <3>1 DEF FoundedAt
  <2> QED
    BY <2>1, <2>2
<1> QED
  BY <1>3, <1>4, <1>5 DEF Founded

LEMMA TrackEffect ==
  ASSUME CardTypes, Founded, NEW job, Track(job)
  PROVE  CardTypes' /\ Steady /\ Founded'
<1> DEFINE u == job[2]
<1>1. /\ today' = today /\ credits' = credits /\ told' = told /\ loop' = loop
      /\ jobs' = jobs \ {job} /\ job[1] # "check"
  BY DEF Track
<1>2. \A a : <<"check", a>> \in jobs' <=> <<"check", a>> \in jobs
  BY <1>1
<1>3. CASE UNCHANGED <<uploads, basis>>
  <2>1. Founded'
    BY <1>1, <1>2, <1>3 DEF Founded, FoundedAt
  <2> QED
    BY <1>1, <1>3, <2>1 DEF CardTypes, Steady, SteadyAt
<1>4. ASSUME u \in DOMAIN uploads, InitTracking(u), uploads[u].total # Unset, uploads[u].total <= 0
      PROVE  CardTypes' /\ Steady /\ Founded'
  <2> DEFINE row == [uploads[u] EXCEPT !.status = "paid", !.paid = uploads[u].total]
  <2>1. uploads[u] \in Upload /\ uploads[u].total \in Int
    BY <1>4 DEF CardTypes, Upload
  <2>2. uploads' = [uploads EXCEPT ![u] = row] /\ basis' = [basis EXCEPT ![u] = Unset]
    BY <1>4 DEF InitTracking
  <2>3. row \in Upload /\ row.acct = uploads[u].acct /\ row.sent = uploads[u].sent
    BY <2>1 DEF Upload
  <2>4. Founded'
    <3> SUFFICES ASSUME NEW v \in DOMAIN uploads' PROVE FoundedAt(v)'
      BY DEF Founded
    <3> QED
      BY <1>1, <1>2, <1>4, <2>2 DEF Founded, FoundedAt, CardTypes
  <2>5. CardTypes' /\ Steady
    BY <1>1, <1>4, <2>2, <2>3 DEF CardTypes, Steady, SteadyAt
  <2> QED
    BY <2>4, <2>5
<1>5. ASSUME u \in DOMAIN uploads, Recompute(u, credits, TRUE)
      PROVE  CardTypes' /\ Steady /\ Founded'
  BY <1>1, <1>2, <1>5, RecomputeEffect
<1>6. \/ UNCHANGED <<uploads, basis>>
      \/ u \in DOMAIN uploads /\ Trackable(u) /\ InitTracking(u)
      \/ u \in DOMAIN uploads /\ Recompute(u, credits, TRUE)
  BY DEF Track
<1>7. CASE u \in DOMAIN uploads /\ Trackable(u) /\ InitTracking(u)
  <2>1. CASE uploads[u].total <= 0
    BY <1>4, <1>7, <2>1 DEF Trackable
  <2>2. CASE ~ (uploads[u].total <= 0)
    BY <1>5, <1>7, <2>2 DEF InitTracking
  <2> QED
    BY <2>1, <2>2
<1> QED
  BY <1>3, <1>5, <1>6, <1>7

LEMMA CheckEffect ==
  ASSUME CardTypes, Founded, NEW job, CheckPayment(job)
  PROVE  CardTypes' /\ Steady /\ Founded'
<1> DEFINE a == job[2]
           cycle == {u \in ActiveCycle(a, Open) : uploads[u].total # Unset}
           after(u) == Recomputed(u, uploads, credits, FALSE)
<1>1. /\ today' = today /\ credits' = credits /\ told' = told
      /\ jobs' = jobs \ {job}
      /\ uploads' = [u \in DOMAIN uploads |-> IF u \in cycle THEN after(u)[u] ELSE uploads[u]]
      /\ basis' = [u \in DOMAIN basis |-> IF u \in cycle THEN CycleWindow(uploads, u)
                                          ELSE Unfounded({a})[u]]
  BY DEF CheckPayment
<1>2. \A u \in cycle : u \in DOMAIN uploads /\ uploads[u].acct = a
  BY DEF ActiveCycle
<1>3. ASSUME NEW u \in cycle
      PROVE  /\ after(u)[u] \in Upload
             /\ after(u)[u].acct = uploads[u].acct
             /\ after(u)[u].sent = uploads[u].sent
             /\ after(u)[u].status # Unset
             /\ after(u)[u].paid = SumIn(credits, uploads[u].acct, CycleWindow(uploads, u))
  <2>1. u \in DOMAIN uploads
    BY <1>2
  <2>2. /\ uploads \in [DOMAIN uploads -> Upload]
        /\ IsFiniteSet(DOMAIN credits) /\ credits \in [DOMAIN credits -> Ticket]
    BY DEF CardTypes
  <2>3. \A zero \in BOOLEAN : \A n : n = Recomputed(u, uploads, credits, zero) =>
          /\ n \in [DOMAIN uploads -> Upload]
          /\ n[u].acct = uploads[u].acct
          /\ n[u].sent = uploads[u].sent
          /\ n[u].status # Unset
          /\ n[u].paid = SumIn(credits, uploads[u].acct, CycleWindow(uploads, u))
    BY <2>1, <2>2, Resummed
  <2>4. /\ after(u) \in [DOMAIN uploads -> Upload]
        /\ after(u)[u].acct = uploads[u].acct
        /\ after(u)[u].sent = uploads[u].sent
        /\ after(u)[u].status # Unset
        /\ after(u)[u].paid = SumIn(credits, uploads[u].acct, CycleWindow(uploads, u))
    BY <2>3, Zenon
  <2> QED
    BY <2>1, <2>4
<1> HIDE DEF cycle, after
<1>4. DOMAIN uploads' = DOMAIN uploads /\ DOMAIN basis' = DOMAIN uploads
  BY <1>1 DEF CardTypes
<1>5. uploads' \in [DOMAIN uploads -> Upload]
  BY <1>1, <1>3 DEF CardTypes
<1>6. CardTypes'
  BY <1>1, <1>4, <1>5 DEF CardTypes
<1>7. Steady
  BY <1>1, <1>3, <1>4 DEF Steady, SteadyAt
<1>8. ASSUME NEW u \in DOMAIN uploads PROVE FoundedAt(u)'
  <2>1. CASE u \in cycle
    <3>1. basis'[u] = CycleWindow(uploads, u) /\ uploads'[u] = after(u)[u]
      BY <1>1, <2>1 DEF CardTypes
    <3> QED
      BY <1>1, <1>3, <2>1, <3>1 DEF FoundedAt
  <2>2. CASE u \notin cycle
    <3>1. uploads'[u] = uploads[u] /\ basis'[u] = Unfounded({a})[u]
      BY <1>1, <2>2 DEF CardTypes
    <3>2. Unfounded({a})[u] = IF uploads[u].acct = a THEN Unset ELSE basis[u]
      BY DEF Unfounded, CardTypes
    <3>3. uploads[u].acct # a => <<"check", uploads[u].acct>> # job
      OBVIOUS
    <3>4. FoundedAt(u)
      BY DEF Founded
    <3> QED
      BY <1>1, <3>1, <3>2, <3>3, <3>4 DEF FoundedAt
  <2> QED
    BY <2>1, <2>2
<1> QED
  BY <1>4, <1>6, <1>7, <1>8 DEF Founded

\* The keys of new rows are new.
LEMMA NextIdIsNew ==
  ASSUME NEW f, IsFiniteSet(DOMAIN f), DOMAIN f \subseteq Nat
  PROVE  NextId(f) \in Nat /\ NextId(f) \notin DOMAIN f
<1>1. CASE DOMAIN f = {}
  BY <1>1 DEF NextId
<1>2. CASE DOMAIN f # {}
  <2>1. Max(DOMAIN f) \in DOMAIN f /\ \A x \in DOMAIN f : x <= Max(DOMAIN f)
    BY <1>2, LargestNat
  <2> QED
    BY <1>2, <2>1 DEF NextId
<1> QED
  BY <1>1, <1>2

\* A row more, or one less.
LEMMA WithOne ==
  ASSUME NEW f, NEW T, f \in [DOMAIN f -> T], NEW x \in Nat, NEW value \in T,
         IsFiniteSet(DOMAIN f), DOMAIN f \subseteq Nat,
         NEW more, more = With(f, x, value)
  PROVE  /\ DOMAIN more = DOMAIN f \cup {x}
         /\ IsFiniteSet(DOMAIN more) /\ DOMAIN more \subseteq Nat
         /\ more \in [DOMAIN more -> T]
         /\ more[x] = value
         /\ \A y \in DOMAIN f : y # x => more[y] = f[y]
<1>1. IsFiniteSet(DOMAIN f \cup {x})
  BY FS_AddElement
<1> QED
  BY <1>1 DEF With

LEMMA AddEffect ==
  ASSUME CardTypes, Founded,
         NEW a \in Accounts, NEW kind \in {"pdf", "summary"}, NEW due \in Nat \cup {Unset},
         NEW total \in Int \cup {Unset}, AddUpload(a, kind, due, total)
  PROVE  CardTypes' /\ Steady /\ Founded' /\ loop' = loop
<1> DEFINE u == NextId(uploads)
           row == [acct |-> a, kind |-> kind, created |-> today, due |-> due, total |-> total,
                   status |-> Unset, sent |-> {}, paid |-> 0]
<1>1. /\ today' = today /\ credits' = credits /\ loop' = loop
      /\ uploads' = With(uploads, u, row) /\ basis' = With(basis, u, Unset)
      /\ told' = With(told, u, 0)
      /\ \A c : <<"check", c>> \in jobs => <<"check", c>> \in jobs'
  BY DEF AddUpload
<1>2. u \in Nat /\ u \notin DOMAIN uploads
  BY NextIdIsNew DEF CardTypes
<1>3. row \in Upload
  BY DEF CardTypes, Upload
<1> HIDE DEF u, row
<1>4. /\ DOMAIN uploads' = DOMAIN uploads \cup {u}
      /\ IsFiniteSet(DOMAIN uploads') /\ DOMAIN uploads' \subseteq Nat
      /\ uploads' \in [DOMAIN uploads' -> Upload]
      /\ uploads'[u] = row
      /\ \A v \in DOMAIN uploads : uploads'[v] = uploads[v]
  <2>1. /\ uploads \in [DOMAIN uploads -> Upload]
        /\ IsFiniteSet(DOMAIN uploads) /\ DOMAIN uploads \subseteq Nat
    BY DEF CardTypes
  <2>2. /\ DOMAIN uploads' = DOMAIN uploads \cup {u}
        /\ uploads'[u] = row
        /\ \A v \in DOMAIN uploads : uploads'[v] = uploads[v]
        /\ uploads' = [v \in DOMAIN uploads' |-> uploads'[v]]
    BY <1>1, <1>2 DEF With
  <2>3. IsFiniteSet(DOMAIN uploads \cup {u})
    BY <2>1, FS_AddElement
  <2>4. \A v \in DOMAIN uploads' : uploads'[v] \in Upload
    BY <1>3, <2>1, <2>2
  <2> QED
    BY <1>2, <2>1, <2>2, <2>3, <2>4
<1>5. /\ DOMAIN basis' = DOMAIN uploads'
      /\ basis'[u] = Unset
      /\ \A v \in DOMAIN uploads : basis'[v] = basis[v]
  BY <1>1, <1>2, <1>4 DEF With, CardTypes
<1>6. /\ told' \in [DOMAIN uploads' -> Nat]
      /\ told'[u] = 0
      /\ \A v \in DOMAIN uploads : told'[v] = told[v]
  BY <1>1, <1>2, <1>4 DEF With, CardTypes
<1>7. CardTypes'
  BY <1>1, <1>4, <1>5, <1>6 DEF CardTypes
<1>8. Steady
  BY <1>4, <1>6 DEF Steady, SteadyAt
<1>9. Founded'
  <2> SUFFICES ASSUME NEW v \in DOMAIN uploads' PROVE FoundedAt(v)'
    BY DEF Founded
  <2>1. CASE v = u
    BY <1>5, <2>1 DEF FoundedAt
  <2>2. CASE v # u
    <3>1. FoundedAt(v) /\ uploads'[v] = uploads[v] /\ basis'[v] = basis[v]
      BY <1>4, <1>5, <2>2 DEF Founded
    <3> QED
      BY <1>1, <3>1 DEF FoundedAt
  <2> QED
    BY <2>1, <2>2
<1> QED
  BY <1>1, <1>7, <1>8, <1>9

\* An action that writes one statement, and keeps its account.
LEMMA RowEffect ==
  ASSUME CardTypes, Founded, NEW u \in DOMAIN uploads, NEW row \in Upload,
         row.acct = uploads[u].acct,
         uploads' = [uploads EXCEPT ![u] = row],
         basis' = [basis EXCEPT ![u] = Unset] \/ (/\ basis' = basis
                                                 /\ row.paid = uploads[u].paid
                                                 /\ row.status = uploads[u].status),
         told' = [told EXCEPT ![u] = 0] \/ (told' = told /\ row.sent = uploads[u].sent),
         today' = today, credits' = credits,
         \A c : <<"check", c>> \in jobs => <<"check", c>> \in jobs'
  PROVE  CardTypes' /\ Steady /\ Founded'
<1>1. DOMAIN uploads' = DOMAIN uploads /\ DOMAIN basis' = DOMAIN uploads
  BY DEF CardTypes
<1>2. uploads' \in [DOMAIN uploads -> Upload] /\ told' \in [DOMAIN uploads -> Nat]
  BY DEF CardTypes
<1>3. CardTypes'
  BY <1>1, <1>2 DEF CardTypes
<1>4. Steady
  BY <1>1 DEF CardTypes, Steady, SteadyAt
<1>5. ASSUME NEW v \in DOMAIN uploads PROVE FoundedAt(v)'
  <2>1. CASE v = u
    BY <2>1 DEF Founded, FoundedAt, CardTypes
  <2>2. CASE v # u
    <3>1. FoundedAt(v) /\ basis'[v] = basis[v] /\ uploads'[v] = uploads[v]
      BY <2>2 DEF Founded, CardTypes
    <3> QED
      BY <3>1 DEF FoundedAt
  <2> QED
    BY <2>1, <2>2
<1> QED
  BY <1>1, <1>3, <1>4, <1>5 DEF Founded

LEMMA ReprocessEffect ==
  ASSUME CardTypes, Founded, NEW u \in DOMAIN uploads, NEW n \in Notices, Reprocess(u, n)
  PROVE  CardTypes' /\ Steady /\ Founded'
<1> DEFINE moved == uploads[u].due # n.due \/ uploads[u].total # n.total
           row == [uploads[u] EXCEPT !.due = n.due, !.total = n.total,
                                     !.status = Unset, !.paid = 0, !.sent = {}]
<1>1. /\ today' = today /\ credits' = credits
      /\ \A c : <<"check", c>> \in jobs => <<"check", c>> \in jobs'
      /\ uploads' = [uploads EXCEPT ![u] = IF ~moved THEN @ ELSE row]
      /\ basis' = IF moved THEN [basis EXCEPT ![u] = Unset] ELSE basis
      /\ told' = IF moved THEN [told EXCEPT ![u] = 0] ELSE told
  BY DEF Reprocess
<1>2. /\ uploads[u] \in Upload
      /\ n.due \in Nat \cup {Unset} /\ n.total \in Int \cup {Unset}
  BY CardAssumption DEF CardTypes
<1>3. row \in Upload /\ row.acct = uploads[u].acct
  <2>1. /\ row.acct = uploads[u].acct /\ row.kind = uploads[u].kind
        /\ row.created = uploads[u].created /\ row.due = n.due /\ row.total = n.total
        /\ row.status = Unset /\ row.sent = {} /\ row.paid = 0
        /\ DOMAIN row = DOMAIN uploads[u] /\ row = [f \in DOMAIN row |-> row[f]]
    BY <1>2 DEF Upload
  <2>2. uploads[u].acct \in Accounts
    BY <1>2 DEF Upload
  <2> HIDE DEF row
  <2> QED
    BY <1>2, <2>1, <2>2, UploadOf
<1> HIDE DEF row, moved
<1>4. CASE moved
  <2>1. uploads' = [uploads EXCEPT ![u] = row] /\ basis' = [basis EXCEPT ![u] = Unset]
        /\ told' = [told EXCEPT ![u] = 0]
    BY <1>1, <1>4
  <2> QED
    BY <1>1, <1>3, <2>1, RowEffect
<1>5. CASE ~moved
  <2>1. uploads' = [uploads EXCEPT ![u] = uploads[u]] /\ basis' = basis /\ told' = told
    BY <1>1, <1>5
  <2> QED
    BY <1>1, <1>2, <2>1, RowEffect
<1> QED
  BY <1>4, <1>5

LEMMA RetryEffect ==
  ASSUME CardTypes, Founded, NEW u \in DOMAIN uploads, NEW n \in Notices, Retry(u, n)
  PROVE  CardTypes' /\ Steady /\ Founded'
<1> DEFINE row == [uploads[u] EXCEPT !.due = n.due, !.total = n.total]
<1>1. /\ today' = today /\ credits' = credits /\ basis' = basis /\ told' = told
      /\ \A c : <<"check", c>> \in jobs => <<"check", c>> \in jobs'
      /\ uploads' = [uploads EXCEPT ![u] = row]
  BY DEF Retry
<1>2. /\ uploads[u] \in Upload
      /\ n.due \in Nat \cup {Unset} /\ n.total \in Int \cup {Unset}
  BY CardAssumption DEF CardTypes
<1>3. /\ row \in Upload /\ row.acct = uploads[u].acct
      /\ row.sent = uploads[u].sent /\ row.paid = uploads[u].paid /\ row.status = uploads[u].status
  BY <1>2 DEF Upload
<1> HIDE DEF row
<1> QED
  BY <1>1, <1>3, RowEffect

LEMMA MarkEffect ==
  ASSUME CardTypes, Founded, NEW u \in DOMAIN uploads, MarkPaid(u) \/ MarkUnpaid(u)
  PROVE  CardTypes' /\ Steady /\ Founded'
<1>1. uploads[u] \in Upload
  BY DEF CardTypes
<1>2. CASE MarkPaid(u)
  <2> DEFINE row == [uploads[u] EXCEPT !.status = "paid",
                       !.paid = IF uploads[u].total = Unset THEN @ ELSE uploads[u].total]
  <2>1. /\ today' = today /\ credits' = credits /\ jobs' = jobs /\ told' = told
        /\ basis' = [basis EXCEPT ![u] = Unset]
        /\ uploads' = [uploads EXCEPT ![u] = row]
    BY <1>2 DEF MarkPaid
  <2>2. row \in Upload /\ row.acct = uploads[u].acct /\ row.sent = uploads[u].sent
    BY <1>1 DEF Upload
  <2> HIDE DEF row
  <2> QED
    BY <2>1, <2>2, RowEffect
<1>3. CASE MarkUnpaid(u)
  <2> DEFINE row == [uploads[u] EXCEPT !.status = IF @ = "partial" THEN @ ELSE "unpaid",
                       !.paid = IF uploads[u].status = "partial" THEN @ ELSE 0,
                       !.sent = {}]
  <2>1. /\ today' = today /\ credits' = credits /\ jobs' = jobs
        /\ told' = [told EXCEPT ![u] = 0]
        /\ basis' = [basis EXCEPT ![u] = Unset]
        /\ uploads' = [uploads EXCEPT ![u] = row]
    BY <1>3 DEF MarkUnpaid
  <2>2. row \in Upload /\ row.acct = uploads[u].acct
    <3>1. /\ row.acct = uploads[u].acct /\ row.kind = uploads[u].kind
          /\ row.created = uploads[u].created /\ row.due = uploads[u].due
          /\ row.total = uploads[u].total /\ row.sent = {}
          /\ row.status \in {"partial", "unpaid"}
          /\ row.paid \in {uploads[u].paid, 0}
          /\ DOMAIN row = DOMAIN uploads[u] /\ row = [f \in DOMAIN row |-> row[f]]
      BY <1>1 DEF Upload
    <3>2. /\ uploads[u].acct \in Accounts /\ uploads[u].due \in Nat \cup {Unset}
          /\ uploads[u].total \in Int \cup {Unset} /\ uploads[u].paid \in Int
      BY <1>1 DEF Upload
    <3>3. row.status \in Open \cup {"paid", Unset} /\ row.paid \in Int /\ row.sent \in SUBSET Offsets
      BY <3>1, <3>2 DEF Open
    <3> HIDE DEF row
    <3> QED
      BY <1>1, <3>1, <3>2, <3>3, UploadOf
  <2> HIDE DEF row
  <2> QED
    BY <2>1, <2>2, RowEffect
<1> QED
  BY <1>2, <1>3

LEMMA DeleteEffect ==
  ASSUME CardTypes, Founded, NEW u \in DOMAIN uploads, DeleteUpload(u)
  PROVE  CardTypes' /\ Steady /\ Founded'
<1>1. /\ today' = today /\ credits' = credits /\ jobs' = jobs
      /\ DOMAIN uploads' = DOMAIN uploads \ {u}
      /\ DOMAIN basis' = DOMAIN uploads \ {u}
      /\ DOMAIN told' = DOMAIN uploads \ {u}
      /\ uploads' = [v \in DOMAIN uploads' |-> uploads[v]]
      /\ told' = [v \in DOMAIN uploads' |-> told[v]]
      /\ \A v \in DOMAIN uploads' : basis'[v] = basis[v]
  BY DEF DeleteUpload, Without, CardTypes
<1>2. IsFiniteSet(DOMAIN uploads \ {u})
  BY FS_Subset DEF CardTypes
<1>3. uploads' \in [DOMAIN uploads' -> Upload] /\ told' \in [DOMAIN uploads' -> Nat]
  BY <1>1 DEF CardTypes
<1>4. CardTypes'
  BY <1>1, <1>2, <1>3 DEF CardTypes
<1>5. Steady
  BY <1>1 DEF Steady, SteadyAt
<1>6. Founded'
  BY <1>1 DEF Founded, FoundedAt
<1> QED
  BY <1>4, <1>5, <1>6

\* The same credits but for one that pays no bill of an account.
LEMMA SumElsewhere ==
  ASSUME CardTypes, NEW a, NEW window, NEW c,
         DOMAIN credits \cup {c} = DOMAIN credits' \cup {c},
         \A d \in DOMAIN credits \ {c} : credits'[d] = credits[d],
         c \in DOMAIN credits => \/ ~credits[c].bill \/ credits[c].acct # a
                                 \/ ~InWindow(credits[c].day, window),
         c \in DOMAIN credits' => ~credits'[c].bill \/ credits'[c].acct # a
  PROVE  SumIn(credits', a, window) = SumIn(credits, a, window)
<1>1. Counted(credits, a, window) = Counted(credits', a, window)
  BY DEF Counted
<1>2. c \notin Counted(credits, a, window)
  BY DEF Counted
<1>3. \A d \in Counted(credits, a, window) : credits[d].amt = credits'[d].amt
  BY <1>1, <1>2 DEF Counted
<1>4. IsFiniteSet(DOMAIN credits)
  BY DEF CardTypes
<1> QED
  BY <1>1, <1>3, <1>4, SumKept

\* An action on the credits alone: the accounts it touches have a check to
\* come, or are no longer founded.
LEMMA CreditsEffect ==
  ASSUME CardTypes, Founded, NEW c \in Nat,
         today' = today, uploads' = uploads, told' = told,
         DOMAIN credits \cup {c} = DOMAIN credits' \cup {c},
         credits' \in [DOMAIN credits' -> Ticket],
         \A d \in DOMAIN credits \ {c} : credits'[d] = credits[d],
         DOMAIN basis' = DOMAIN basis,
         \A u \in DOMAIN uploads : basis'[u] \in {basis[u], Unset},
         \A a : <<"check", a>> \in jobs => <<"check", a>> \in jobs',
         \A u \in DOMAIN uploads :
           \/ basis'[u] = Unset
           \/ <<"check", uploads[u].acct>> \in jobs'
           \/ /\ c \in DOMAIN credits => \/ ~credits[c].bill \/ credits[c].acct # uploads[u].acct
                                         \/ ~InWindow(credits[c].day, basis[u])
              /\ c \in DOMAIN credits' => ~credits'[c].bill \/ credits'[c].acct # uploads[u].acct
  PROVE  CardTypes' /\ Steady /\ Founded'
<1>1. IsFiniteSet(DOMAIN credits') /\ DOMAIN credits' \subseteq Nat
  <2>1. IsFiniteSet(DOMAIN credits \cup {c})
    BY FS_AddElement DEF CardTypes
  <2>2. DOMAIN credits' \subseteq DOMAIN credits \cup {c}
    OBVIOUS
  <2> QED
    BY <2>1, <2>2, FS_Subset DEF CardTypes
<1>2. CardTypes'
  BY <1>1 DEF CardTypes
<1>3. Steady
  BY DEF Steady, SteadyAt
<1>4. ASSUME NEW u \in DOMAIN uploads PROVE FoundedAt(u)'
  <2>1. FoundedAt(u)
    BY DEF Founded
  <2>2. CASE basis'[u] = Unset
    BY <2>2 DEF FoundedAt
  <2>3. CASE basis'[u] = basis[u] /\ <<"check", uploads[u].acct>> \in jobs'
    BY <2>1, <2>3 DEF FoundedAt
  <2>4. CASE /\ basis'[u] = basis[u]
             /\ c \in DOMAIN credits => \/ ~credits[c].bill \/ credits[c].acct # uploads[u].acct
                                        \/ ~InWindow(credits[c].day, basis[u])
             /\ c \in DOMAIN credits' => ~credits'[c].bill \/ credits'[c].acct # uploads[u].acct
    <3>1. SumIn(credits', uploads[u].acct, basis[u]) = SumIn(credits, uploads[u].acct, basis[u])
      BY <2>4, SumElsewhere
    <3> QED
      BY <2>1, <2>4, <3>1 DEF FoundedAt
  <2> QED
    BY <2>2, <2>3, <2>4
<1> QED
  BY <1>2, <1>3, <1>4 DEF Founded

LEMMA CreditEffect ==
  ASSUME CardTypes, Founded, NEW linked \in Accounts \cup {Unset}, NEW day \in 0..today,
         NEW amt \in CreditAmounts, NEW bill \in BOOLEAN, Credit(linked, day, amt, bill)
  PROVE  CardTypes' /\ Steady /\ Founded'
<1> DEFINE c == NextId(credits)
<1>1. PICK a \in (IF linked # Unset \/ ~bill THEN {linked} ELSE ResolveAccount(amt)) :
        /\ credits' = With(credits, c, [acct |-> a, day |-> day, amt |-> amt, bill |-> bill])
        /\ jobs' = IF bill /\ a # Unset THEN jobs \cup {<<"check", a>>} ELSE jobs
        /\ today' = today /\ uploads' = uploads /\ basis' = basis /\ told' = told
  BY DEF Credit
<1>2. a \in Accounts \cup {Unset}
  BY <1>1 DEF ResolveAccount, ByTotal, ByOutstanding
<1> DEFINE row == [acct |-> a, day |-> day, amt |-> amt, bill |-> bill]
<1>3. c \in Nat /\ c \notin DOMAIN credits
  BY NextIdIsNew DEF CardTypes
<1>4. row \in Ticket
  BY <1>2 DEF CardTypes, Ticket
<1>5. row.acct = a /\ row.bill = bill
  OBVIOUS
<1> HIDE DEF c, row
<1>6. /\ DOMAIN credits' = DOMAIN credits \cup {c}
      /\ credits' = [d \in DOMAIN credits' |-> credits'[d]]
      /\ credits'[c] = row
      /\ \A d \in DOMAIN credits : credits'[d] = credits[d]
  BY <1>1, <1>3 DEF With, row
<1>7. credits' \in [DOMAIN credits' -> Ticket]
  BY <1>4, <1>6 DEF CardTypes
<1>8. \A b : <<"check", b>> \in jobs => <<"check", b>> \in jobs'
  BY <1>1
<1>9. ASSUME NEW u \in DOMAIN uploads, ~ (<<"check", uploads[u].acct>> \in jobs')
      PROVE  ~credits'[c].bill \/ credits'[c].acct # uploads[u].acct
  <2>1. uploads[u].acct \in Accounts /\ Unset \notin Accounts
    BY CardAssumption DEF CardTypes, Upload
  <2>2. ~ (bill /\ a = uploads[u].acct)
    BY <1>1, <1>9, <2>1
  <2> QED
    BY <1>5, <1>6, <2>2
<1> QED
  BY <1>1, <1>3, <1>6, <1>7, <1>8, <1>9, CreditsEffect DEF CardTypes

LEMMA MoveEffect ==
  ASSUME CardTypes, Founded, NEW c \in DOMAIN credits, NEW a \in Accounts,
         PickAccount(c, a) \/ Relink(c, a)
  PROVE  CardTypes' /\ Steady /\ Founded'
<1> DEFINE row == [credits[c] EXCEPT !.acct = a]
<1>1. /\ today' = today /\ uploads' = uploads /\ told' = told
      /\ credits' = [credits EXCEPT ![c] = row]
      /\ \A b : <<"check", b>> \in jobs => <<"check", b>> \in jobs'
  BY DEF PickAccount, Relink
<1>2. credits[c] \in Ticket /\ c \in Nat
  BY DEF CardTypes
<1>3. row \in Ticket /\ row.acct = a /\ row.bill = credits[c].bill
  BY <1>2 DEF Ticket
<1> HIDE DEF row
<1>4. /\ DOMAIN credits' = DOMAIN credits /\ credits'[c] = row
      /\ credits' \in [DOMAIN credits' -> Ticket]
      /\ \A d \in DOMAIN credits \ {c} : credits'[d] = credits[d]
  BY <1>1, <1>3 DEF CardTypes
<1>5. /\ DOMAIN basis' = DOMAIN basis
      /\ \A u \in DOMAIN uploads : basis'[u] \in {basis[u], Unset}
  BY DEF PickAccount, Relink, Unfounded, CardTypes
<1>6. ASSUME NEW u \in DOMAIN uploads, basis'[u] # Unset,
             ~ (<<"check", uploads[u].acct>> \in jobs')
      PROVE  /\ ~credits[c].bill \/ credits[c].acct # uploads[u].acct
             /\ ~row.bill \/ row.acct # uploads[u].acct
  <2>0. uploads[u].acct \in Accounts /\ Unset \notin Accounts
    BY CardAssumption DEF CardTypes, Upload
  <2>1. CASE PickAccount(c, a)
    <3>1. uploads[u].acct # a
      BY <1>6, <2>1 DEF PickAccount
    <3>2. credits[c].acct # uploads[u].acct
      BY <1>6, <2>0, <2>1, <3>1 DEF PickAccount, Unfounded, CardTypes
    <3> QED
      BY <1>3, <3>1, <3>2
  <2>2. CASE Relink(c, a)
    <3>1. CASE credits[c].acct = Unset
      BY <1>3, <1>6, <2>0, <2>2, <3>1 DEF Relink
    <3>2. CASE credits[c].acct # Unset
      BY <1>3, <1>6, <2>2, <3>2 DEF Relink, Unfounded, CardTypes
    <3> QED
      BY <3>1, <3>2
  <2> QED
    BY <2>1, <2>2
<1> QED
  BY <1>1, <1>2, <1>4, <1>5, <1>6, CreditsEffect

LEMMA CrashEffect ==
  ASSUME CardTypes, Founded, Crash
  PROVE  CardTypes' /\ Steady /\ Founded'
<1>1. /\ today' = today /\ uploads' = uploads /\ credits' = credits /\ told' = told
      /\ basis' = Unfounded({job[2] : job \in {j \in jobs : j[1] = "check"}})
  BY DEF Crash
<1>2. CardTypes' /\ Steady
  BY <1>1 DEF CardTypes, Unfounded, Steady, SteadyAt
<1>3. ASSUME NEW u \in DOMAIN uploads PROVE FoundedAt(u)'
  <2>1. basis'[u] # Unset =>
          basis'[u] = basis[u] /\ <<"check", uploads[u].acct>> \notin jobs
    BY <1>1 DEF Unfounded, CardTypes
  <2>2. FoundedAt(u)
    BY DEF Founded
  <2> QED
    BY <1>1, <2>1, <2>2 DEF FoundedAt
<1> QED
  BY <1>1, <1>2, <1>3 DEF Founded

LEMMA IdleEffect ==
  ASSUME CardTypes, Founded, UNCHANGED <<uploads, credits, jobs, basis, told>>, today' \in Nat
  PROVE  CardTypes' /\ Steady /\ Founded'
BY DEF CardTypes, Steady, SteadyAt, Founded, FoundedAt

\* An account has at most one active statement.
LEMMA OneActive ==
  ASSUME CardTypes, NEW u \in DOMAIN uploads, NEW v \in DOMAIN uploads,
         IsActive(uploads, u), IsActive(uploads, v), uploads[u].acct = uploads[v].acct
  PROVE  u = v
<1>1. /\ u \in Nat /\ v \in Nat
      /\ uploads[u].due \in Nat \cup {Unset} /\ uploads[v].due \in Nat \cup {Unset}
  BY DEF CardTypes, Upload
<1>2. uploads[u].due # Unset /\ uploads[v].due # Unset
  BY DEF IsActive
<1>3. u \in Anchors(uploads, uploads[v].acct) /\ v \in Anchors(uploads, uploads[u].acct)
  BY <1>2 DEF Anchors
<1>4. /\ uploads[v].due < uploads[u].due \/ (uploads[v].due = uploads[u].due /\ v <= u)
      /\ uploads[u].due < uploads[v].due \/ (uploads[u].due = uploads[v].due /\ u <= v)
  BY <1>3 DEF IsActive
<1> QED
  BY <1>1, <1>2, <1>4

LEMMA MergeEffect ==
  ASSUME CardTypes, Founded, NEW keep \in DOMAIN credits, NEW dup \in DOMAIN credits,
         MergeCredits(keep, dup)
  PROVE  CardTypes' /\ Steady /\ Founded'
<1> DEFINE a == credits[dup].acct
           cycle == {u \in ActiveCycle(a, Open \cup {"paid"}) :
                       InWindow(credits[dup].day, CycleWindow(uploads, u))}
<1>1. /\ today' = today /\ jobs' = jobs /\ told' = told
      /\ credits' = Without(credits, dup)
      /\ credits[dup].bill => \A u \in cycle : uploads[u].status # "paid"
  BY DEF MergeCredits
<1>2. /\ DOMAIN credits' = DOMAIN credits \ {dup} /\ dup \in Nat
      /\ credits' = [c \in DOMAIN credits' |-> credits'[c]]
      /\ \A c \in DOMAIN credits' : credits'[c] = credits[c]
  BY <1>1 DEF Without, CardTypes
<1>3. credits' \in [DOMAIN credits' -> Ticket]
  BY <1>2 DEF CardTypes
<1>4. IsFiniteSet(DOMAIN credits') /\ DOMAIN credits' \subseteq Nat
  BY <1>2, FS_Subset DEF CardTypes
<1>5. \A u \in DOMAIN uploads :
        /\ AfterMerge(a)[u] \in {basis[u], Unset}
        /\ AfterMerge(a)[u] # Unset /\ uploads[u].acct = a =>
             /\ IsActive(uploads, u) /\ uploads[u].total # Unset
             /\ basis[u] = CycleWindow(uploads, u)
  BY DEF AfterMerge, CardTypes
<1>6. DOMAIN AfterMerge(a) = DOMAIN uploads
  BY DEF AfterMerge, CardTypes
<1>7. CASE credits[dup].bill /\ \E u \in cycle : Resyncable(u)
  <2>1. PICK u \in cycle : /\ uploads' = Recomputed(u, uploads, credits', TRUE)
                           /\ basis' = [AfterMerge(a) EXCEPT ![u] = CycleWindow(uploads, u)]
    BY <1>7 DEF MergeCredits
  <2>2. u \in DOMAIN uploads /\ uploads[u].acct = a /\ IsActive(uploads, u)
    BY DEF ActiveCycle
  <2>3. \A zero \in BOOLEAN : uploads' = Recomputed(u, uploads, credits', zero) =>
          /\ uploads' \in [DOMAIN uploads -> Upload]
          /\ \A v \in DOMAIN uploads : v # u => uploads'[v] = uploads[v]
          /\ uploads'[u].acct = uploads[u].acct
          /\ uploads'[u].sent = uploads[u].sent
          /\ uploads'[u].status # Unset
          /\ uploads'[u].paid = SumIn(credits', uploads[u].acct, CycleWindow(uploads, u))
    <3>1. uploads \in [DOMAIN uploads -> Upload]
      BY DEF CardTypes
    <3> HIDE DEF cycle
    <3> QED
      BY <1>3, <1>4, <2>2, <3>1, Resummed
  <2>4. /\ uploads' \in [DOMAIN uploads -> Upload]
        /\ \A v \in DOMAIN uploads : v # u => uploads'[v] = uploads[v]
        /\ uploads'[u].acct = uploads[u].acct
        /\ uploads'[u].sent = uploads[u].sent
        /\ uploads'[u].status # Unset
        /\ uploads'[u].paid = SumIn(credits', uploads[u].acct, CycleWindow(uploads, u))
    BY <2>1, <2>3, Zenon
  <2>5. /\ DOMAIN uploads' = DOMAIN uploads /\ DOMAIN basis' = DOMAIN uploads
        /\ basis'[u] = CycleWindow(uploads, u)
        /\ \A v \in DOMAIN uploads : v # u => basis'[v] = AfterMerge(a)[v]
    BY <1>6, <2>1, <2>2, <2>4
  <2> HIDE DEF cycle
  <2>6. CardTypes' /\ Steady
    BY <1>1, <1>3, <1>4, <2>4, <2>5 DEF CardTypes, Steady, SteadyAt
  <2>7. ASSUME NEW v \in DOMAIN uploads PROVE FoundedAt(v)'
    <3>1. CASE v = u
      BY <2>2, <2>4, <2>5, <3>1 DEF FoundedAt
    <3>2. CASE v # u /\ uploads[v].acct = a
      <4>1. AfterMerge(a)[v] = Unset
        BY <1>5, <2>2, <3>2, OneActive
      <4> QED
        BY <2>5, <3>2, <4>1 DEF FoundedAt
    <3>3. CASE v # u /\ uploads[v].acct # a
      <4>1. FoundedAt(v) /\ uploads'[v] = uploads[v] /\ basis'[v] \in {basis[v], Unset}
        BY <1>5, <2>4, <2>5, <3>3 DEF Founded
      <4>2. SumIn(credits', uploads[v].acct, basis[v]) = SumIn(credits, uploads[v].acct, basis[v])
        BY <1>2, <3>3, SumElsewhere
      <4> QED
        BY <1>1, <4>1, <4>2 DEF FoundedAt
    <3> QED
      BY <3>1, <3>2, <3>3
  <2> QED
    BY <2>5, <2>6, <2>7 DEF Founded
<1>8. CASE ~ (credits[dup].bill /\ \E u \in cycle : Resyncable(u))
  <2>1. uploads' = uploads /\ basis' = IF credits[dup].bill THEN AfterMerge(a) ELSE basis
    BY <1>8 DEF MergeCredits
  <2>2. ASSUME NEW u \in DOMAIN uploads, basis'[u] # Unset
        PROVE  \/ ~credits[dup].bill \/ credits[dup].acct # uploads[u].acct
               \/ ~InWindow(credits[dup].day, basis[u])
    <3> SUFFICES ASSUME credits[dup].bill, uploads[u].acct = a,
                        InWindow(credits[dup].day, basis[u])
                 PROVE  FALSE
      OBVIOUS
    <3>1. /\ IsActive(uploads, u) /\ uploads[u].total # Unset
          /\ basis[u] = CycleWindow(uploads, u) /\ basis[u] # Unset
      BY <1>5, <2>1, <2>2
    <3>2. uploads[u].status \in Open \cup {"paid"}
      BY <3>1 DEF Founded, FoundedAt, CardTypes, Upload
    <3>3. u \in cycle
      BY <3>1, <3>2 DEF ActiveCycle
    <3>4. uploads[u].status \in Open
      BY <1>1, <3>2, <3>3
    <3> QED
      BY <1>8, <3>1, <3>3, <3>4 DEF Resyncable
  <2> HIDE DEF cycle
  <2>3. /\ DOMAIN basis' = DOMAIN basis
        /\ \A u \in DOMAIN uploads : basis'[u] \in {basis[u], Unset}
    BY <1>5, <1>6, <2>1 DEF CardTypes
  <2>4. \A c : <<"check", c>> \in jobs => <<"check", c>> \in jobs'
    BY <1>1
  <2>5. /\ DOMAIN credits \cup {dup} = DOMAIN credits' \cup {dup}
        /\ \A c \in DOMAIN credits \ {dup} : credits'[c] = credits[c]
        /\ dup \notin DOMAIN credits'
    BY <1>2
  <2> QED
    BY <1>1, <1>2, <1>3, <2>1, <2>2, <2>3, <2>4, <2>5, CreditsEffect
<1> QED
  BY <1>7, <1>8

-----------------------------------------------------------------------------
(* The reminders. What the loop holds only grows, and the database shows     *)
(* what it read unless the counting started anew.                            *)

LoopRow(u) ==
  /\ loop.was[u].sent \subseteq loop.now[u].sent
  /\ loop.now[u].status # Unset
  /\ loop.told[u] = 1 => loop.was[u].sent # loop.now[u].sent
  /\ u \in DOMAIN uploads => uploads[u].sent = loop.was[u].sent \/ told[u] = 0

Loops ==
  loop # Unset =>
    /\ loop.todo \subseteq DOMAIN loop.now /\ DOMAIN loop.now \subseteq Nat
    /\ loop.was \in [DOMAIN loop.now -> Upload]
    /\ loop.now \in [DOMAIN loop.now -> Upload]
    /\ loop.told \in [DOMAIN loop.now -> {0, 1}]
    /\ \A u \in DOMAIN loop.now : LoopRow(u)

\* Each reminder that is recorded has marked an offset of its own.
Told == \A u \in DOMAIN uploads : told[u] <= Cardinality(uploads[u].sent)

LEMMA SentIsFinite ==
  ASSUME NEW row \in Upload
  PROVE  /\ row.sent \subseteq Offsets /\ IsFiniteSet(row.sent) /\ Cardinality(row.sent) \in Nat
         /\ Cardinality(row.sent) <= Cardinality(Offsets)
<1>1. row.sent \subseteq Offsets /\ IsFiniteSet(Offsets)
  BY CardAssumption DEF Upload
<1> QED
  BY <1>1, FS_Subset, FS_CardinalityType

\* Steps of the others do not disturb the loop.
LEMMA SteadyEffect ==
  ASSUME Loops, Told, CardTypes, CardTypes', Steady, loop' \in {loop, Unset}
  PROVE  Loops' /\ Told'
<1>1. Told'
  <2> SUFFICES ASSUME NEW u \in DOMAIN uploads'
               PROVE  told'[u] <= Cardinality(uploads'[u].sent)
    BY DEF Told
  <2>1. SteadyAt(u)
    BY DEF Steady
  <2>2. CASE u \in DOMAIN uploads /\ uploads'[u].sent = uploads[u].sent /\ told'[u] = told[u]
    BY <2>2 DEF Told
  <2>3. CASE told'[u] = 0
    <3>1. Cardinality(uploads'[u].sent) \in Nat
      BY SentIsFinite DEF CardTypes
    <3> QED
      BY <2>3, <3>1
  <2> QED
    BY <2>1, <2>2, <2>3 DEF SteadyAt
<1>2. Loops'
  <2>1. CASE loop' = Unset
    BY <2>1 DEF Loops
  <2>2. CASE loop' = loop /\ loop # Unset
    <3>1. ASSUME NEW u \in DOMAIN loop.now PROVE LoopRow(u)'
      <4>1. LoopRow(u)
        BY <2>2 DEF Loops
      <4>2. u \in DOMAIN uploads' => SteadyAt(u)
        BY DEF Steady
      <4> QED
        BY <2>2, <4>1, <4>2 DEF LoopRow, SteadyAt
    <3> QED
      BY <2>2, <3>1 DEF Loops
  <2> QED
    BY <2>1, <2>2
<1> QED
  BY <1>1, <1>2

LEMMA LoopReadEffect ==
  ASSUME CardTypes, LoopRead
  PROVE  Loops'
<1> DEFINE open == {u \in DOMAIN uploads : IsActive(uploads, u) /\ uploads[u].status \in Open}
           next == [today |-> today, todo |-> open,
                    was |-> [u \in open |-> uploads[u]], now |-> [u \in open |-> uploads[u]],
                    told |-> [u \in open |-> 0]]
<1>1. loop' = next /\ uploads' = uploads
  BY DEF LoopRead
<1>2. /\ next.todo = open /\ next.was = [u \in open |-> uploads[u]]
      /\ next.now = [u \in open |-> uploads[u]] /\ next.told = [u \in open |-> 0]
  OBVIOUS
<1>3. /\ open \subseteq DOMAIN uploads /\ \A u \in open : uploads[u].status \in Open
  OBVIOUS
<1> HIDE DEF open, next
<1>4. /\ loop'.todo \subseteq DOMAIN loop'.now /\ DOMAIN loop'.now \subseteq Nat
      /\ loop'.was \in [DOMAIN loop'.now -> Upload]
      /\ loop'.now \in [DOMAIN loop'.now -> Upload]
      /\ loop'.told \in [DOMAIN loop'.now -> {0, 1}]
  BY <1>1, <1>2, <1>3 DEF CardTypes
<1>5. ASSUME NEW u \in open PROVE LoopRow(u)'
  <2>1. loop'.was[u] = uploads[u] /\ loop'.now[u] = uploads[u] /\ loop'.told[u] = 0
    BY <1>1, <1>2
  <2>2. uploads[u].status # Unset
    BY <1>3, CardAssumption
  <2> QED
    BY <1>1, <2>1, <2>2 DEF LoopRow
<1>6. DOMAIN loop'.now = open
  BY <1>1, <1>2
<1> QED
  BY <1>4, <1>5, <1>6 DEF Loops

\* What the loop makes of a row keeps the offsets and marks those it sends.
LEMMA JudgedRow ==
  ASSUME NEW row \in Upload, row.status # Unset, NEW day,
         NEW judged, judged = Judged(row, day)
  PROVE  /\ judged.row \in Upload /\ judged.row.status # Unset
         /\ row.sent \subseteq judged.row.sent
         /\ judged.send => \E o \in judged.row.sent : o \notin row.sent
<1> DEFINE late == row.status \in {"unpaid", "partial"} /\ day > row.due
           status == IF late THEN "late" ELSE row.status
           passed == {o \in Offsets : status = "late" /\ o > 0}
           due == {o \in Offsets \ passed : day >= row.due - o}
           stale == [row |-> [row EXCEPT !.status = status], send |-> FALSE]
           none == [row |-> [row EXCEPT !.status = "paid"], send |-> FALSE]
           marked == [row EXCEPT !.status = status, !.sent = @ \cup passed \cup due]
           goes == due \ row.sent # {}
           send == [row |-> marked, send |-> goes]
<1>1. judged \in {stale, none, send}
  BY DEF Judged
<1>2. status \in Open \cup {"paid"} /\ status # Unset
  BY CardAssumption DEF Upload, Open
<1>3. passed \subseteq Offsets /\ due \subseteq Offsets
  OBVIOUS
<1> HIDE DEF status, passed, due
<1>4. /\ row.acct \in Accounts /\ row.due \in Nat \cup {Unset} /\ row.total \in Int \cup {Unset}
      /\ row.paid \in Int /\ row.sent \in SUBSET Offsets
  BY DEF Upload
<1> DEFINE Same(r) == /\ r.acct = row.acct /\ r.kind = row.kind /\ r.created = row.created
                      /\ r.due = row.due /\ r.total = row.total /\ r.paid = row.paid
                      /\ DOMAIN r = DOMAIN row /\ r = [f \in DOMAIN r |-> r[f]]
<1>5. ASSUME NEW r, Same(r), r.status \in Open \cup {"paid"}, r.sent \in SUBSET Offsets
      PROVE  r \in Upload
  BY <1>4, <1>5, UploadOf
<1>6. CASE judged = stale
  <2>1. judged.row = [row EXCEPT !.status = status] /\ judged.send = FALSE
    BY <1>6
  <2>2. Same(judged.row) /\ judged.row.status = status /\ judged.row.sent = row.sent
    BY <2>1 DEF Upload
  <2> QED
    BY <1>2, <1>4, <1>5, <2>1, <2>2
<1>7. CASE judged = none
  <2>1. judged.row = [row EXCEPT !.status = "paid"] /\ judged.send = FALSE
    BY <1>7
  <2>2. Same(judged.row) /\ judged.row.status = "paid" /\ judged.row.sent = row.sent
    BY <2>1 DEF Upload
  <2>3. "paid" # Unset
    BY CardAssumption
  <2> QED
    BY <1>4, <1>5, <2>1, <2>2, <2>3
<1>8. CASE judged = send
  <2>1. judged.row = marked /\ (judged.send <=> goes)
    <3> HIDE DEF marked, goes
    <3> QED
      BY <1>8
  <2>2. Same(judged.row) /\ judged.row.status = status
        /\ judged.row.sent = row.sent \cup passed \cup due
    BY <2>1 DEF Upload
  <2>3. judged.row \in Upload
    BY <1>2, <1>3, <1>4, <1>5, <2>2
  <2> QED
    BY <1>2, <2>1, <2>2, <2>3
<1> QED
  BY <1>1, <1>6, <1>7, <1>8

LEMMA RemindEffect ==
  ASSUME Loops, Remind
  PROVE  Loops'
<1> DEFINE u == Min(loop.todo)
           judged == Judged(loop.now[u], loop.today)
           mark == IF judged.send THEN 1 ELSE 0
           next == [loop EXCEPT !.todo = @ \ {u}, !.now[u] = judged.row, !.told[u] = mark]
<1>1. /\ loop # Unset /\ loop.todo # {} /\ loop' = next
      /\ uploads' = uploads /\ told' = told
  BY DEF Remind
<1>2. /\ loop.todo \subseteq DOMAIN loop.now /\ DOMAIN loop.now \subseteq Nat
      /\ loop.was \in [DOMAIN loop.now -> Upload]
      /\ loop.now \in [DOMAIN loop.now -> Upload]
      /\ loop.told \in [DOMAIN loop.now -> {0, 1}]
      /\ \A v \in DOMAIN loop.now : LoopRow(v)
  BY <1>1 DEF Loops
<1>3. u \in DOMAIN loop.now
  <2>1. loop.todo \subseteq Nat
    BY <1>2
  <2> QED
    BY <1>1, <1>2, <2>1, SmallestNat
<1>4. /\ judged.row \in Upload /\ judged.row.status # Unset
      /\ loop.now[u].sent \subseteq judged.row.sent
      /\ judged.send => \E o \in judged.row.sent : o \notin loop.now[u].sent
  <2>1. loop.now[u] \in Upload /\ loop.now[u].status # Unset
    BY <1>2, <1>3 DEF LoopRow
  <2> QED
    BY <2>1, JudgedRow
<1>5. mark \in {0, 1} /\ (mark = 1 => judged.send)
  OBVIOUS
<1> HIDE DEF judged, mark, u
<1>6. /\ next.was = loop.was /\ next.todo \subseteq loop.todo
      /\ next.now = [loop.now EXCEPT ![u] = judged.row]
      /\ next.told = [loop.told EXCEPT ![u] = mark]
  OBVIOUS
<1> HIDE DEF next
<1>7. /\ loop'.was = loop.was /\ loop'.todo \subseteq loop.todo
      /\ DOMAIN loop'.now = DOMAIN loop.now
      /\ loop'.now \in [DOMAIN loop.now -> Upload]
      /\ loop'.told \in [DOMAIN loop.now -> {0, 1}]
      /\ loop'.now[u] = judged.row /\ loop'.told[u] = mark
      /\ \A v \in DOMAIN loop.now \ {u} : loop'.now[v] = loop.now[v] /\ loop'.told[v] = loop.told[v]
  BY <1>1, <1>2, <1>3, <1>4, <1>5, <1>6
<1>8. ASSUME NEW v \in DOMAIN loop.now PROVE LoopRow(v)'
  <2>1. LoopRow(v)
    BY <1>2
  <2>2. CASE v # u
    BY <1>1, <1>7, <2>1, <2>2 DEF LoopRow
  <2>3. CASE v = u
    <3>1. loop.was[u].sent \subseteq loop'.now[u].sent
      BY <1>4, <1>7, <2>1, <2>3 DEF LoopRow
    <3>2. loop'.told[u] = 1 => loop.was[u].sent # loop'.now[u].sent
      BY <1>4, <1>5, <1>7, <2>1, <2>3 DEF LoopRow
    <3> QED
      BY <1>1, <1>4, <1>7, <2>1, <2>3, <3>1, <3>2 DEF LoopRow
  <2> QED
    BY <2>2, <2>3
<1> QED
  BY <1>2, <1>7, <1>8 DEF Loops

LEMMA LoopCommitEffect ==
  ASSUME CardTypes, Founded, Loops, Told, LoopCommit
  PROVE  CardTypes' /\ Founded' /\ Loops' /\ Told'
<1> DEFINE dirty == {u \in DOMAIN loop.now : loop.now[u] # loop.was[u]}
           status(u) == IF loop.now[u].status = loop.was[u].status THEN uploads[u].status
                        ELSE loop.now[u].status
           sent(u) == IF loop.now[u].sent = loop.was[u].sent THEN uploads[u].sent
                      ELSE loop.now[u].sent
           write(u) == [uploads[u] EXCEPT !.status = status(u), !.sent = sent(u)]
           recorded == dirty \subseteq DOMAIN uploads
           wrote(u) == recorded /\ u \in dirty
<1>1. /\ loop # Unset /\ loop' = Unset
      /\ today' = today /\ credits' = credits /\ jobs' = jobs
      /\ uploads' = [u \in DOMAIN uploads |-> IF wrote(u) THEN write(u) ELSE uploads[u]]
      /\ told' = [u \in DOMAIN told |->
                    IF recorded /\ u \in DOMAIN loop.now THEN told[u] + loop.told[u] ELSE told[u]]
      /\ DOMAIN basis' = DOMAIN basis
      /\ \A u \in DOMAIN basis : basis'[u] \in {basis[u], Unset}
  BY DEF LoopCommit
<1>2. /\ loop.was \in [DOMAIN loop.now -> Upload]
      /\ loop.now \in [DOMAIN loop.now -> Upload]
      /\ loop.told \in [DOMAIN loop.now -> {0, 1}]
      /\ \A u \in DOMAIN loop.now : LoopRow(u)
  BY <1>1 DEF Loops
<1>3. ASSUME NEW u \in DOMAIN uploads, u \in DOMAIN loop.now
      PROVE  /\ write(u) \in Upload /\ write(u).acct = uploads[u].acct
             /\ write(u).paid = uploads[u].paid
             /\ write(u).status = status(u) /\ write(u).sent = sent(u)
             /\ status(u) # Unset \/ uploads[u].status = Unset
  <2>1. /\ uploads[u] \in Upload /\ loop.now[u] \in Upload /\ loop.now[u].status # Unset
    BY <1>2, <1>3 DEF CardTypes, LoopRow
  <2>2. status(u) \in Open \cup {"paid", Unset} /\ sent(u) \in SUBSET Offsets
    BY <2>1 DEF Upload
  <2>3. status(u) # Unset \/ uploads[u].status = Unset
    BY <2>1
  <2> HIDE DEF status, sent
  <2>4. /\ write(u).acct = uploads[u].acct /\ write(u).kind = uploads[u].kind
        /\ write(u).created = uploads[u].created
        /\ write(u).due = uploads[u].due /\ write(u).total = uploads[u].total
        /\ write(u).status = status(u) /\ write(u).sent = sent(u)
        /\ write(u).paid = uploads[u].paid
        /\ DOMAIN write(u) = DOMAIN uploads[u] /\ write(u) = [f \in DOMAIN write(u) |-> write(u)[f]]
    BY <2>1 DEF Upload
  <2>5. /\ uploads[u].acct \in Accounts /\ uploads[u].due \in Nat \cup {Unset}
        /\ uploads[u].total \in Int \cup {Unset} /\ uploads[u].paid \in Int
    BY <2>1 DEF Upload
  <2> HIDE DEF write
  <2>6. write(u) \in Upload
    BY <2>1, <2>2, <2>4, <2>5, UploadOf
  <2> QED
    BY <2>3, <2>4, <2>6
<1>4. \A u : wrote(u) => u \in DOMAIN uploads /\ u \in DOMAIN loop.now
  OBVIOUS
<1>5. ASSUME NEW u \in DOMAIN uploads, recorded, u \in DOMAIN loop.now, ~wrote(u)
      PROVE  loop.told[u] = 0
  <2>1. loop.now[u] = loop.was[u]
    BY <1>5
  <2> QED
    BY <1>2, <1>5, <2>1 DEF LoopRow
<1> HIDE DEF write, dirty
<1>6. CardTypes'
  <2>1. DOMAIN uploads' = DOMAIN uploads /\ DOMAIN basis' = DOMAIN uploads
    BY <1>1 DEF CardTypes
  <2>2. uploads' \in [DOMAIN uploads -> Upload]
    BY <1>1, <1>3, <1>4 DEF CardTypes
  <2>3. told' \in [DOMAIN uploads -> Nat]
    BY <1>1, <1>2 DEF CardTypes
  <2> QED
    BY <1>1, <2>1, <2>2, <2>3 DEF CardTypes
<1>7. ASSUME NEW u \in DOMAIN uploads PROVE FoundedAt(u)'
  <2>1. /\ uploads'[u].acct = uploads[u].acct /\ uploads'[u].paid = uploads[u].paid
        /\ uploads[u].status # Unset => uploads'[u].status # Unset
    <3>1. CASE wrote(u)
      BY <1>1, <1>3, <1>4, <3>1
    <3>2. CASE ~wrote(u)
      BY <1>1, <3>2
    <3> QED
      BY <3>1, <3>2
  <2>2. FoundedAt(u) /\ basis'[u] \in {basis[u], Unset}
    BY <1>1 DEF Founded, CardTypes
  <2> QED
    BY <1>1, <2>1, <2>2 DEF FoundedAt
<1>8. ASSUME NEW u \in DOMAIN uploads PROVE told'[u] <= Cardinality(uploads'[u].sent)
  <2>1. /\ told[u] \in Nat /\ told[u] <= Cardinality(uploads[u].sent) /\ uploads[u] \in Upload
    BY DEF Told, CardTypes
  <2>2. Cardinality(uploads[u].sent) \in Nat
    BY <2>1, SentIsFinite
  <2>3. CASE ~ (recorded /\ u \in DOMAIN loop.now)
    <3>1. told'[u] = told[u] /\ uploads'[u] = uploads[u]
      BY <1>1, <1>4, <2>3 DEF CardTypes
    <3> QED
      BY <2>1, <3>1
  <2>4. CASE recorded /\ u \in DOMAIN loop.now /\ ~wrote(u)
    <3>1. told'[u] = told[u] + 0 /\ uploads'[u] = uploads[u]
      BY <1>1, <1>5, <2>4 DEF CardTypes
    <3> QED
      BY <2>1, <3>1
  <2>5. CASE recorded /\ u \in DOMAIN loop.now /\ wrote(u)
    <3> DEFINE was == loop.was[u]
               now == loop.now[u]
               less == Cardinality(was.sent)
               more == Cardinality(now.sent)
    <3>1. /\ was \in Upload /\ now \in Upload
          /\ was.sent \subseteq now.sent
          /\ loop.told[u] \in {0, 1} /\ (loop.told[u] = 1 => was.sent # now.sent)
          /\ uploads[u].sent = was.sent \/ told[u] = 0
      BY <1>2, <2>5 DEF LoopRow
    <3>2. /\ told'[u] = told[u] + loop.told[u]
          /\ uploads'[u].sent = IF now.sent = was.sent THEN uploads[u].sent ELSE now.sent
      BY <1>1, <1>3, <2>5 DEF CardTypes
    <3>3. /\ less \in Nat /\ more \in Nat /\ less <= more
          /\ was.sent # now.sent => less + 1 <= more
      <4>1. IsFiniteSet(now.sent) /\ IsFiniteSet(was.sent) /\ less \in Nat /\ more \in Nat
        BY <3>1, SentIsFinite
      <4>2. less <= more /\ (less = more => was.sent = now.sent)
        BY <3>1, <4>1, FS_Subset
      <4> QED
        BY <4>1, <4>2
    <3>4. CASE now.sent = was.sent
      <4>1. told'[u] = told[u] + 0
        BY <3>1, <3>2, <3>4
      <4> QED
        BY <2>1, <3>2, <3>4, <4>1
    <3>5. CASE now.sent # was.sent
      <4>1. told[u] <= less
        BY <2>1, <3>1, <3>3
      <4> HIDE DEF less, more
      <4>2. told'[u] <= more
        BY <2>1, <3>1, <3>2, <3>3, <3>5, <4>1
      <4> QED
        BY <3>2, <3>5, <4>2 DEF more
    <3> QED
      BY <3>4, <3>5
  <2> QED
    BY <2>3, <2>4, <2>5
<1>9. DOMAIN uploads' = DOMAIN uploads
  BY <1>1
<1> QED
  BY <1>1, <1>6, <1>7, <1>8, <1>9 DEF Founded, Told, Loops

-----------------------------------------------------------------------------
(* The theorems.                                                            *)

CardInv == CardTypes /\ Founded /\ Loops /\ Told

LEMMA CardInitInv == CardInit => CardInv
<1> SUFFICES ASSUME CardInit PROVE CardInv
  OBVIOUS
<1>1. CardTypes /\ Founded
  BY CardInitTyped
<1>2. Loops
  BY DEF CardInit, Loops
<1>3. Told
  <2> SUFFICES ASSUME NEW u \in DOMAIN uploads PROVE told[u] <= Cardinality(uploads[u].sent)
    BY DEF Told
  <2>1. Cardinality(uploads[u].sent) \in Nat
    BY <1>1, SentIsFinite DEF CardTypes
  <2> QED
    BY <2>1 DEF CardInit
<1> QED
  BY <1>1, <1>2, <1>3 DEF CardInv

LEMMA CardStep == CardInv /\ [CardNext]_cardVars => CardInv'
<1> SUFFICES ASSUME CardInv, [CardNext]_cardVars PROVE CardInv'
  OBVIOUS
<1> USE DEF CardInv
<1>0. ASSUME CardTypes', Founded', Steady, loop' \in {loop, Unset} PROVE CardInv'
  BY <1>0, SteadyEffect
<1>1. ASSUME NextDay \/ UNCHANGED cardVars PROVE CardInv'
  <2>1. UNCHANGED <<uploads, credits, jobs, basis, told, loop>> /\ today' \in Nat
    BY <1>1 DEF NextDay, cardVars, CardTypes
  <2> QED
    BY <1>0, <2>1, IdleEffect
<1>2. ASSUME Crash PROVE CardInv'
  <2>1. loop' = Unset
    BY <1>2 DEF Crash
  <2> QED
    BY <1>0, <1>2, <2>1, CrashEffect
<1>3. ASSUME NEW job \in jobs, Track(job) \/ CheckPayment(job) PROVE CardInv'
  <2>1. loop' = loop
    BY <1>3 DEF Track, CheckPayment
  <2> QED
    BY <1>0, <1>3, <2>1, TrackEffect, CheckEffect
<1>4. ASSUME NEW a \in Accounts, NEW kind \in {"pdf", "summary"}, NEW due \in Nat \cup {Unset},
             NEW total \in Int \cup {Unset}, AddUpload(a, kind, due, total)
      PROVE  CardInv'
  BY <1>0, <1>4, AddEffect
<1>5. ASSUME NEW n \in Notices,
             Mail(n) \/ Summary(n) \/ \E a \in Accounts : ByHand(a, n)
      PROVE  CardInv'
  <2>1. n.due \in Nat \cup {Unset} /\ n.total \in Int \cup {Unset}
    BY CardAssumption
  <2>2. CASE Mail(n)
    <3>1. PICK a \in FindAccount(n.mask) : AddUpload(a, "pdf", n.due, n.total)
      BY <2>2 DEF Mail
    <3>2. a \in Accounts
      BY DEF FindAccount, Answering
    <3> QED
      BY <1>4, <2>1, <3>1, <3>2
  <2>3. CASE Summary(n)
    <3>1. PICK a \in SummaryAccount(n.mask) :
            \/ AddUpload(a, "summary", n.due, n.total)
            \/ /\ UNCHANGED <<today, uploads, credits, loop, basis, told>>
               /\ \A c : <<"check", c>> \in jobs => <<"check", c>> \in jobs'
      BY <2>3 DEF Summary
    <3>2. a \in Accounts
      BY DEF SummaryAccount, FindAccount, Answering
    <3>3. CASE AddUpload(a, "summary", n.due, n.total)
      BY <1>4, <2>1, <3>2, <3>3
    <3>4. CASE /\ UNCHANGED <<today, uploads, credits, loop, basis, told>>
               /\ \A c : <<"check", c>> \in jobs => <<"check", c>> \in jobs'
      <4>1. CardTypes' /\ Steady
        BY <3>4 DEF CardTypes, Steady, SteadyAt
      <4>2. Founded'
        BY <3>4 DEF Founded, FoundedAt
      <4> QED
        BY <1>0, <3>4, <4>1, <4>2
    <3> QED
      BY <3>1, <3>3, <3>4
  <2>4. ASSUME NEW a \in Accounts, ByHand(a, n) PROVE CardInv'
    BY <1>4, <2>1, <2>4 DEF ByHand
  <2> QED
    BY <1>5, <2>2, <2>3, <2>4
<1>6. ASSUME NEW a \in Accounts, Locked(a) PROVE CardInv'
  BY <1>4, <1>6 DEF Locked
<1>7. ASSUME NEW u \in DOMAIN uploads,
             \/ MarkPaid(u) \/ MarkUnpaid(u) \/ DeleteUpload(u)
             \/ \E n \in Notices : Reprocess(u, n) \/ Retry(u, n)
      PROVE  CardInv'
  <2>1. loop' = loop
    BY <1>7 DEF MarkPaid, MarkUnpaid, DeleteUpload, Reprocess, Retry
  <2>2. CASE MarkPaid(u) \/ MarkUnpaid(u)
    BY <1>0, <2>1, <2>2, MarkEffect
  <2>3. CASE DeleteUpload(u)
    BY <1>0, <2>1, <2>3, DeleteEffect
  <2>4. ASSUME NEW n \in Notices, Reprocess(u, n) PROVE CardInv'
    BY <1>0, <2>1, <2>4, ReprocessEffect
  <2>5. ASSUME NEW n \in Notices, Retry(u, n) PROVE CardInv'
    BY <1>0, <2>1, <2>5, RetryEffect
  <2> QED
    BY <1>7, <2>2, <2>3, <2>4, <2>5
<1>8. ASSUME NEW a \in Accounts \cup {Unset}, NEW day \in 0..today, NEW amt \in CreditAmounts,
             NEW bill \in BOOLEAN, Credit(a, day, amt, bill)
      PROVE  CardInv'
  <2>1. loop' = loop
    BY <1>8 DEF Credit
  <2> QED
    BY <1>0, <1>8, <2>1, CreditEffect
<1>9. ASSUME NEW c \in DOMAIN credits, NEW a \in Accounts, PickAccount(c, a) \/ Relink(c, a)
      PROVE  CardInv'
  <2>1. loop' = loop
    BY <1>9 DEF PickAccount, Relink
  <2> QED
    BY <1>0, <1>9, <2>1, MoveEffect
<1>10. ASSUME NEW c \in DOMAIN credits, NEW d \in DOMAIN credits, MergeCredits(c, d)
       PROVE  CardInv'
  <2>1. loop' = loop
    BY <1>10 DEF MergeCredits
  <2> QED
    BY <1>0, <1>10, <2>1, MergeEffect
<1>11. ASSUME LoopRead \/ Remind PROVE CardInv'
  <2>1. UNCHANGED <<today, uploads, credits, jobs, basis, told>>
    BY <1>11 DEF LoopRead, Remind
  <2>2. Loops'
    BY <1>11, LoopReadEffect, RemindEffect
  <2>3. CardTypes' /\ Founded'
    BY <2>1, IdleEffect DEF CardTypes
  <2>4. Told'
    BY <2>1 DEF Told
  <2> QED
    BY <2>2, <2>3, <2>4
<1>12. ASSUME LoopCommit PROVE CardInv'
  BY <1>12, LoopCommitEffect
<1> QED
  <2>1. CASE UNCHANGED cardVars
    BY <1>1, <2>1
  <2>2. CASE CardNext
    BY <1>1, <1>2, <1>3, <1>5, <1>6, <1>7, <1>8, <1>9, <1>10, <1>11, <1>12, <2>2 DEF CardNext
  <2> QED
    BY <2>1, <2>2

\* From the first cycle of an account on, every day lies in exactly one cycle,
\* whatever the statements, in whatever order they come, go and are read again
\* (card_cycle_window).
THEOREM CyclesAlwaysPartition == CardSpec => []CyclesPartition
<1>1. CardInv => CyclesPartition
  BY PartitionHolds DEF CardInv, CardTypes
<1> QED
  BY <1>1, CardInitInv, CardStep, PTL DEF CardSpec

\* The paid amount of the open bill is the sum of the payments of its cycle:
\* payments that come, move, merge and go while jobs and statements race it
\* leave it so, or leave a job that makes it so.
THEOREM OpenAmountIsCounted == CardSpec => []OpenAmountCounted
<1>1. ASSUME CardInv PROVE OpenAmountCounted
  <2> SUFFICES ASSUME NEW u \in DOMAIN uploads, IsActive(uploads, u),
                      basis[u] = CycleWindow(uploads, u),
                      <<"check", uploads[u].acct>> \notin jobs
               PROVE  uploads[u].paid = QualifyingSum(uploads, credits, u)
    BY DEF OpenAmountCounted
  <2>1. CardTypes /\ Founded
    BY <1>1 DEF CardInv
  <2>2. u \in Anchors(uploads, uploads[u].acct)
    BY DEF IsActive, Anchors
  <2>3. CycleWindow(uploads, u).start \in Nat /\ uploads[u].due \in Nat
    BY <2>1, <2>2, Edges DEF CardTypes
  <2>4. CycleWindow(uploads, u) # Unset
    <3>1. CycleWindow(uploads, u).end \in Nat \cup {Unset}
      BY <2>1, <2>2, <2>3, Edges DEF CardTypes
    <3>2. CycleWindow(uploads, u) =
            [start |-> CycleWindow(uploads, u).start, end |-> CycleWindow(uploads, u).end]
      BY DEF CycleWindow
    <3>3. CycleWindow(uploads, u) \in Windows
      BY <2>3, <3>1, <3>2, Zenon DEF Windows
    <3> QED
      BY <3>3, CardAssumption
  <2>5. uploads[u].paid = SumIn(credits, uploads[u].acct, CycleWindow(uploads, u))
    BY <2>1, <2>4 DEF Founded, FoundedAt
  <2> QED
    BY <2>1, <2>5, SumInWindow DEF CardTypes
<1> QED
  BY <1>1, CardInitInv, CardStep, PTL DEF CardSpec

\* A statement is reminded of at most once per offset, between two moments at
\* which its reminders start anew, whatever commits between the read of the
\* reminder loop and its write.
THEOREM RemindedAtMostOnce == CardSpec => []RemindedOnce
<1>1. ASSUME CardInv PROVE RemindedOnce
  <2> SUFFICES ASSUME NEW u \in DOMAIN uploads PROVE told[u] <= Cardinality(Offsets)
    BY DEF RemindedOnce
  <2>1. told[u] \in Nat /\ told[u] <= Cardinality(uploads[u].sent) /\ uploads[u] \in Upload
    BY <1>1 DEF CardInv, CardTypes, Told
  <2>2. /\ Cardinality(uploads[u].sent) \in Nat
        /\ Cardinality(uploads[u].sent) <= Cardinality(Offsets)
    BY <2>1, SentIsFinite
  <2>3. Cardinality(Offsets) \in Nat
    BY CardAssumption, FS_CardinalityType
  <2> QED
    BY <2>1, <2>2, <2>3
<1> QED
  BY <1>1, CardInitInv, CardStep, PTL DEF CardSpec

-----------------------------------------------------------------------------
\* The cash report. Sums of integers.

\* The sum of integers is one.
LEMMA SumIsInt ==
  ASSUME NEW w, NEW S, IsFiniteSet(S), \A x \in S : w[x] \in Int
  PROVE  SumFunctionOnSet(w, S) \in Int
<1> DEFINE Good == {n \in Nat : \A s \in SUBSET S : Cardinality(s) = n => SumFunctionOnSet(w, s) \in Int}
<1>1. \A s \in SUBSET S : IsFiniteSet(s) /\ Cardinality(s) \in Nat /\ (Cardinality(s) = 0 <=> s = {})
  BY FS_Subset, FS_CardinalityType, FS_EmptySet
<1>2. 0 \in Good
  BY <1>1, SumOfNone
<1>3. ASSUME NEW n \in Good PROVE n + 1 \in Good
  <2> SUFFICES ASSUME NEW s \in SUBSET S, Cardinality(s) = n + 1
               PROVE  SumFunctionOnSet(w, s) \in Int
    OBVIOUS
  <2>1. IsFiniteSet(s) /\ s # {}
    BY <1>1
  <2>2. PICK x \in s : SumFunctionOnSet(w, s) = w[x] + SumFunctionOnSet(w, s \ {x})
    BY <2>1, SumOfPick
  <2>3. Cardinality(s \ {x}) = n
    BY <2>1, Smaller
  <2>4. SumFunctionOnSet(w, s \ {x}) \in Int
    BY <2>3
  <2> QED
    BY <2>2, <2>4
<1> HIDE DEF Good
<1>4. Good = Nat
  BY <1>2, <1>3, Induct DEF Good
<1> QED
  BY <1>1, <1>4 DEF Good

\* Any element may be taken first.
LEMMA SumTakesAnyInt ==
  ASSUME NEW w, NEW S, IsFiniteSet(S), \A x \in S : w[x] \in Int, NEW y \in S
  PROVE  SumFunctionOnSet(w, S) = w[y] + SumFunctionOnSet(w, S \ {y})
<1> DEFINE Takes(s) == \A x \in s : SumFunctionOnSet(w, s) = w[x] + SumFunctionOnSet(w, s \ {x})
           Good == {n \in Nat : \A s \in SUBSET S : Cardinality(s) = n => Takes(s)}
<1>1. \A s \in SUBSET S : IsFiniteSet(s) /\ Cardinality(s) \in Nat /\ (Cardinality(s) = 0 <=> s = {})
  BY FS_Subset, FS_CardinalityType, FS_EmptySet
<1>2. 0 \in Good
  BY <1>1
<1>3. ASSUME NEW n \in Good PROVE n + 1 \in Good
  <2> SUFFICES ASSUME NEW s \in SUBSET S, Cardinality(s) = n + 1, NEW x \in s
               PROVE  SumFunctionOnSet(w, s) = w[x] + SumFunctionOnSet(w, s \ {x})
    OBVIOUS
  <2>1. IsFiniteSet(s) /\ s # {}
    BY <1>1
  <2>2. PICK p \in s : SumFunctionOnSet(w, s) = w[p] + SumFunctionOnSet(w, s \ {p})
    BY <2>1, SumOfPick
  <2>3. CASE x = p
    BY <2>2, <2>3
  <2>4. CASE x # p
    <3>1. s \ {x} \in SUBSET S /\ s \ {p} \in SUBSET S /\ x \in s \ {p} /\ p \in s \ {x}
      BY <2>4
    <3>2. Cardinality(s \ {p}) = n /\ Cardinality(s \ {x}) = n
      BY <2>1, Smaller
    <3>3. Takes(s \ {p}) /\ Takes(s \ {x})
      BY <3>1, <3>2
    <3> DEFINE rest == (s \ {p}) \ {x}
    <3>4. rest = (s \ {x}) \ {p} /\ rest \in SUBSET S
      OBVIOUS
    <3>5. SumFunctionOnSet(w, rest) \in Int /\ w[x] \in Int /\ w[p] \in Int
      BY <1>1, <3>4, SumIsInt
    <3>6. SumFunctionOnSet(w, s \ {p}) = w[x] + SumFunctionOnSet(w, rest)
      BY <3>1, <3>3
    <3>7. SumFunctionOnSet(w, s \ {x}) = w[p] + SumFunctionOnSet(w, rest)
      BY <3>1, <3>3, <3>4
    <3> HIDE DEF rest
    <3> QED
      BY <2>2, <3>5, <3>6, <3>7
  <2> QED
    BY <2>3, <2>4
<1> HIDE DEF Good
<1>4. Good = Nat
  BY <1>2, <1>3, Induct DEF Good
<1> QED
  BY <1>1, <1>4 DEF Good

\* A set and what is outside it add up.
LEMMA SumSplits ==
  ASSUME NEW w, NEW S, IsFiniteSet(S), \A x \in S : w[x] \in Int, NEW T \in SUBSET S
  PROVE  SumFunctionOnSet(w, S) = SumFunctionOnSet(w, T) + SumFunctionOnSet(w, S \ T)
<1> DEFINE Splits(t) == SumFunctionOnSet(w, S) = SumFunctionOnSet(w, t) + SumFunctionOnSet(w, S \ t)
           Good == {n \in Nat : \A t \in SUBSET S : Cardinality(t) = n => Splits(t)}
<1>1. \A s \in SUBSET S : /\ IsFiniteSet(s) /\ Cardinality(s) \in Nat /\ (Cardinality(s) = 0 <=> s = {})
                          /\ SumFunctionOnSet(w, s) \in Int
  <2> SUFFICES ASSUME NEW s \in SUBSET S
               PROVE  /\ IsFiniteSet(s) /\ Cardinality(s) \in Nat /\ (Cardinality(s) = 0 <=> s = {})
                      /\ SumFunctionOnSet(w, s) \in Int
    OBVIOUS
  <2>1. IsFiniteSet(s) /\ Cardinality(s) \in Nat /\ (Cardinality(s) = 0 <=> s = {})
    BY FS_Subset, FS_CardinalityType, FS_EmptySet
  <2>2. \A x \in s : w[x] \in Int
    OBVIOUS
  <2> QED
    BY <2>1, <2>2, SumIsInt
<1>2. 0 \in Good
  <2>1. Splits({})
    <3>1. S \ {} = S /\ S \in SUBSET S
      OBVIOUS
    <3>2. SumFunctionOnSet(w, {}) = 0 /\ SumFunctionOnSet(w, S) \in Int
      BY <1>1, <3>1, SumOfNone
    <3> QED
      BY <3>1, <3>2
  <2> HIDE DEF Splits
  <2> QED
    BY <1>1, <2>1
<1>3. ASSUME NEW n \in Good PROVE n + 1 \in Good
  <2> SUFFICES ASSUME NEW t \in SUBSET S, Cardinality(t) = n + 1 PROVE Splits(t)
    OBVIOUS
  <2>1. IsFiniteSet(t) /\ t # {}
    BY <1>1
  <2>2. PICK x \in t : TRUE
    BY <2>1
  <2> DEFINE less == t \ {x}
             more == S \ less
  <2>3. less \in SUBSET S /\ more \in SUBSET S /\ x \in more /\ more \ {x} = S \ t /\ S \ t \in SUBSET S
    OBVIOUS
  <2>4. Cardinality(less) = n
    BY <2>1, Smaller
  <2>5. SumFunctionOnSet(w, S) = SumFunctionOnSet(w, less) + SumFunctionOnSet(w, more)
    BY <2>3, <2>4
  <2>6. SumFunctionOnSet(w, t) = w[x] + SumFunctionOnSet(w, less)
    BY <2>1, SumTakesAnyInt
  <2>7. IsFiniteSet(more) /\ \A y \in more : w[y] \in Int
    BY <1>1, <2>3
  <2> HIDE DEF less, more
  <2>8. SumFunctionOnSet(w, more) = w[x] + SumFunctionOnSet(w, S \ t)
    BY <2>3, <2>7, SumTakesAnyInt
  <2>9. /\ SumFunctionOnSet(w, less) \in Int /\ SumFunctionOnSet(w, S \ t) \in Int /\ w[x] \in Int
        /\ SumFunctionOnSet(w, more) \in Int
    BY <1>1, <2>3
  <2> QED
    BY <2>5, <2>6, <2>8, <2>9
<1> HIDE DEF Good
<1>4. Good = Nat
  BY <1>2, <1>3, Induct DEF Good
<1> QED
  BY <1>1, <1>4 DEF Good

-----------------------------------------------------------------------------
\* The tables of the cash report, and its sums.

CONSTANTS Null, UserExpense, UserIncome, MonthDays

Cash == INSTANCE CashReport

\* NULL is no value of a column, and a month has a day.
CashConstants ==
  /\ Null \notin Int /\ Null \notin BOOLEAN /\ Null \notin Cash!Mapped
  /\ Null \notin {"", "unknown", "credit", "debit", "bank", "unaccounted"}
  /\ MonthDays \in Nat \ {0}

\* The tables as the report finds them: amounts and dates that are stored are
\* numbers. A blank counterparty is none at all: report and list take both alike
\* (is_blank_counterparty), and Null stands for either.
CashTables(db) ==
  /\ IsFiniteSet(db.rows) /\ IsFiniteSet(DOMAIN db.accounts)
  /\ \A r \in db.rows : /\ r.amt \in Int /\ r.day \in Int \cup {Null}
                        /\ r.dir \in {"credit", "debit"} /\ r.party # ""

\* The sum of the movements of a set of rows.
Movement(db, set) == SumFunctionOnSet([r \in db.rows |-> Cash!Flow(r)], set)

\* A movement is a number.
LEMMA FlowIsInt ==
  ASSUME NEW db, CashTables(db), NEW r \in db.rows
  PROVE  Cash!Flow(r) \in Int
<1>1. r.amt \in Int
  BY DEF CashTables
<1> QED
  BY <1>1 DEF Cash!Flow

\* The operator of the community module is one, whichever module takes it.
LEMMA SameSum ==
  ASSUME NEW w, NEW S
  PROVE  Cash!SumFunctionOnSet(w, S) = SumFunctionOnSet(w, S)
BY DEF Cash!SumFunctionOnSet, Cash!FoldFunctionOnSet, Cash!MapThenFoldSet,
       SumFunctionOnSet, FoldFunctionOnSet, MapThenFoldSet

\* A sum over a set of rows does not depend on the function beyond the set.
LEMMA MovementIsSum ==
  ASSUME NEW db, CashTables(db), NEW set \in SUBSET db.rows
  PROVE  /\ SumFunctionOnSet([r \in set |-> Cash!Flow(r)], set) = Movement(db, set)
         /\ Movement(db, set) \in Int
<1> DEFINE w == [r \in db.rows |-> Cash!Flow(r)]
           v == [r \in set |-> Cash!Flow(r)]
<1>1. IsFiniteSet(set)
  BY FS_Subset DEF CashTables
<1>2. \A r \in set : v[r] = w[r] /\ w[r] \in Int
  BY FlowIsInt
<1> HIDE DEF v, w
<1>3. SumFunctionOnSet(v, set) = SumFunctionOnSet(w, set) /\ SumFunctionOnSet(w, set) \in Int
  BY <1>1, <1>2, SumSame, SumIsInt
<1> QED
  BY <1>3 DEF v, w, Movement

\* The movements of a set are those of a part and of the rest.
LEMMA MovementSplits ==
  ASSUME NEW db, CashTables(db), NEW set \in SUBSET db.rows, NEW part \in SUBSET set
  PROVE  Movement(db, set) = Movement(db, part) + Movement(db, set \ part)
<1> DEFINE w == [r \in db.rows |-> Cash!Flow(r)]
<1>1. IsFiniteSet(set)
  BY FS_Subset DEF CashTables
<1>2. \A r \in set : w[r] \in Int
  BY FlowIsInt
<1> HIDE DEF w
<1>3. SumFunctionOnSet(w, set) = SumFunctionOnSet(w, part) + SumFunctionOnSet(w, set \ part)
  BY <1>1, <1>2, SumSplits
<1> QED
  BY <1>3 DEF w, Movement

-----------------------------------------------------------------------------
\* Buckets.

\* What the bucket of a bank row says of its category.
LEMMA BucketSays ==
  ASSUME CashConstants, NEW cat, NEW dir
  PROVE  LET b == Cash!BucketForSlug(cat, "bank", dir) IN
         /\ b = "uncategorized" <=>
              cat \in Cash!Blank \cup {"unknown"}
                \/ cat \notin Cash!Mapped \cup UserExpense \cup UserIncome
         /\ b = "internal" <=> cat \in Cash!BankInternal
         /\ b = "transfers_in" <=> cat = "repayment"
         /\ b = "family" <=> cat = "family"
         /\ b \in {"uncategorized", "internal", "transfers_in", "family", "income", "expense", "investment"}
<1> DEFINE b == Cash!BucketForSlug(cat, "bank", dir)
<1>0. Null \notin Cash!Mapped /\ Null # "" /\ Null # "unknown"
  BY DEF CashConstants
<1>1. CASE cat \in Cash!Blank \cup {"unknown"}
  <2>1. b = "uncategorized"
    BY <1>1 DEF Cash!BucketForSlug
  <2>2. cat \notin Cash!BankInternal /\ cat # "repayment" /\ cat # "family"
    <3>1. Cash!BankInternal \cup {"repayment", "family"} \subseteq Cash!Mapped
      BY DEF Cash!Mapped, Cash!InternalSlugs
    <3>2. Cash!BankInternal \cap {"", "unknown"} = {}
      BY DEF Cash!BankInternal
    <3> QED
      BY <1>0, <1>1, <3>1, <3>2 DEF Cash!Blank
  <2> QED
    BY <1>1, <2>1, <2>2
<1>2. CASE cat \in {"credit_card_payment", "gift", "repayment", "family"}
  <2>1. cat \in Cash!Mapped /\ cat \notin Cash!BankInternal /\ cat # "" /\ cat # "unknown"
    BY <1>2, CashConstants DEF CashConstants, Cash!BankInternal, Cash!Mapped, Cash!ExpenseBucket, Cash!ExpenseGuard, Cash!InternalSlugs
  <2>0. cat \notin Cash!Blank \cup {"unknown"}
    BY <1>0, <2>1 DEF Cash!Blank
  <2>2. b = IF cat = "credit_card_payment" THEN "expense"
            ELSE IF cat = "gift" THEN (IF dir = "credit" THEN "income" ELSE "expense")
            ELSE IF cat = "repayment" THEN "transfers_in" ELSE "family"
    BY <1>2, <2>0, <2>1 DEF Cash!BucketForSlug, Cash!InternalSlugs
  <2> QED
    BY <1>2, <2>0, <2>1, <2>2
<1>3. CASE cat \in Cash!BankInternal
  <2>1. cat \notin Cash!Blank \cup {"unknown", "credit_card_payment", "gift"} /\ cat \in Cash!Mapped
    <3>1. cat \in Cash!Mapped
      BY <1>3 DEF Cash!Mapped, Cash!InternalSlugs
    <3>2. cat \notin {"", "unknown", "credit_card_payment", "gift"}
      BY <1>3 DEF Cash!BankInternal
    <3> QED
      BY <1>0, <3>1, <3>2 DEF Cash!Blank
  <2>2. b = "internal"
    BY <1>3, <2>1 DEF Cash!BucketForSlug, Cash!InternalSlugs
  <2>3. cat # "repayment" /\ cat # "family"
    BY <1>3 DEF Cash!BankInternal
  <2> QED
    BY <1>3, <2>1, <2>2, <2>3
<1>4. CASE /\ cat \notin Cash!Blank \cup {"unknown", "credit_card_payment", "gift", "repayment", "family"}
           /\ cat \notin Cash!BankInternal
  <2>1. b = IF cat \in Cash!InvestmentBucket THEN "investment"
            ELSE IF cat \in Cash!IncomeBucket THEN "income"
            ELSE IF cat \in Cash!ExpenseBucket \ {"gift"} THEN "expense"
            ELSE IF cat \in UserExpense \ Cash!Mapped THEN "expense"
            ELSE IF cat \in UserIncome \ (Cash!Mapped \cup UserExpense) THEN "income" ELSE "uncategorized"
    <3>1. cat \notin Cash!InternalSlugs("bank") /\ cat \notin Cash!Blank \cup {"unknown"}
      BY <1>4 DEF Cash!InternalSlugs
    <3>2. cat # "gift" /\ cat # "repayment" /\ cat # "family" /\ cat # "credit_card_payment"
      BY <1>4
    <3> QED
      BY <3>1, <3>2 DEF Cash!BucketForSlug
  <2>2. cat \in Cash!Mapped <=> cat \in Cash!IncomeBucket \cup Cash!ExpenseBucket \cup Cash!InvestmentBucket
    <3>1. cat \notin Cash!InternalSlugs(Null) \cup {"repayment", "family"}
      BY <1>4 DEF Cash!InternalSlugs
    <3> QED
      BY <3>1 DEF Cash!Mapped
  <2>3. cat # "gift"
    BY <1>4
  <2> QED
    BY <1>4, <2>1, <2>2, <2>3
<1> QED
  BY <1>1, <1>2, <1>3, <1>4

\* But for a gift, the direction is not asked.
LEMMA BucketAnyWay ==
  ASSUME NEW cat, NEW scope, NEW dir, NEW other, cat # "gift"
  PROVE  Cash!BucketForSlug(cat, scope, dir) = Cash!BucketForSlug(cat, scope, other)
BY DEF Cash!BucketForSlug

\* A gift is income or expense by its direction.
LEMMA BucketOfGift ==
  ASSUME CashConstants, NEW scope, NEW dir
  PROVE  Cash!BucketForSlug("gift", scope, dir) = IF dir = "credit" THEN "income" ELSE "expense"
<1>1. "gift" \in Cash!Mapped
  BY DEF Cash!Mapped, Cash!ExpenseBucket, Cash!ExpenseGuard
<1>2. "gift" \notin Cash!Blank \cup {"unknown"}
  BY <1>1 DEF Cash!Blank, CashConstants
<1> QED
  BY <1>2 DEF Cash!BucketForSlug

\* What is in a bucket of the summary has a category.
LEMMA BucketNamed ==
  ASSUME CashConstants, NEW cat, NEW scope, NEW dir,
         Cash!BucketForSlug(cat, scope, dir) \in {"income", "expense", "investment"}
  PROVE  cat \notin Cash!Blank
BY DEF Cash!BucketForSlug

-----------------------------------------------------------------------------
\* The terms of the bridge.

\* The rows that the bridge of a range covers.
Bridged(db, from, to) == {r \in Cash!BankRows(db) : Cash!InRange(r, from, to)}

InKind(db, from, to, kind) == {r \in Bridged(db, from, to) : Cash!FlowKind(r) = kind}

\* Every row of the range is in one term of the bridge.
LEMMA TermsPartition ==
  ASSUME CashConstants, NEW db, NEW from, NEW to
  PROVE  LET all   == Bridged(db, from, to)
             in    == Cash!InBucket(db, from, to, "income")
             out   == Cash!InBucket(db, from, to, "expense")
             moved == Cash!InBucket(db, from, to, "investment")
             back  == Cash!TransfersIn(db, from, to)
             own   == Cash!InternalRows(db, from, to)
             loose == Cash!UncategorizedRows(db, from, to)
             fam   == InKind(db, from, to, "family")
             exc   == InKind(db, from, to, "excluded")
             fgn   == InKind(db, from, to, "non_inr")
         IN  /\ in \subseteq all
             /\ out \subseteq all \ in
             /\ moved \subseteq (all \ in) \ out
             /\ back \subseteq ((all \ in) \ out) \ moved
             /\ own \subseteq (((all \ in) \ out) \ moved) \ back
             /\ loose \subseteq ((((all \ in) \ out) \ moved) \ back) \ own
             /\ fam \subseteq (((((all \ in) \ out) \ moved) \ back) \ own) \ loose
             /\ exc \subseteq ((((((all \ in) \ out) \ moved) \ back) \ own) \ loose) \ fam
             /\ fgn = (((((((all \ in) \ out) \ moved) \ back) \ own) \ loose) \ fam) \ exc
<1> DEFINE B(r) == Cash!BucketForSlug(r.cat, "bank", r.dir)
           Row(r) == r \in db.rows /\ Cash!ScopeOf(db, r) = "bank" /\ ~ r.voided /\ Cash!InRange(r, from, to)
           Loose(r) == Cash!Uncategorized(r)
           Own(r) == r.cat \in Cash!BankInternal
           Rup(r) == Cash!Rupees(r)
           Exc(r) == r.excluded
<1>1. \A r : /\ B(r) = "uncategorized" <=> Loose(r)
             /\ B(r) = "internal" <=> Own(r)
             /\ B(r) = "transfers_in" <=> r.cat = "repayment"
             /\ B(r) = "family" <=> r.cat = "family"
             /\ B(r) \in {"uncategorized", "internal", "transfers_in", "family", "income", "expense", "investment"}
  BY CashConstants, BucketSays DEF Cash!Uncategorized
<1>2. /\ \A r, k : r \in Cash!InBucket(db, from, to, k) <=> Row(r) /\ ~ Exc(r) /\ Rup(r) /\ B(r) = k
      /\ \A r : r \in Bridged(db, from, to) <=> Row(r)
      /\ \A r : r \in Cash!TransfersIn(db, from, to) <=> Row(r) /\ ~ Exc(r) /\ Rup(r) /\ B(r) = "transfers_in"
      /\ \A r : r \in Cash!InternalRows(db, from, to) <=> Row(r) /\ ~ Exc(r) /\ B(r) = "internal"
      /\ \A r : r \in Cash!UncategorizedRows(db, from, to) <=> Row(r) /\ ~ Exc(r) /\ B(r) = "uncategorized"
  BY <1>1 DEF Cash!InBucket, Cash!Headline, Bridged, Cash!BankRows, Cash!InRange, Cash!Included, Cash!TransfersIn,
     Cash!InternalRows, Cash!UncategorizedRows
<1>3. /\ \A r : r \in InKind(db, from, to, "excluded") <=> Row(r) /\ Exc(r)
      /\ \A r : r \in InKind(db, from, to, "family") <=> Row(r) /\ ~ Exc(r) /\ B(r) = "family"
      /\ \A r : r \in InKind(db, from, to, "non_inr")
                  <=> Row(r) /\ ~ Exc(r) /\ ~ Rup(r) /\ B(r) \notin {"family", "internal", "uncategorized"}
  BY <1>1, <1>2 DEF InKind, Cash!FlowKind, Cash!Excluded
<1> HIDE DEF B, Row, Loose, Own, Rup, Exc
<1> QED
  BY <1>1, <1>2, <1>3

\* A sum may be taken account by account.
LEMMA SumByAccount ==
  ASSUME NEW w, NEW R, IsFiniteSet(R), \A r \in R : w[r] \in Int,
         NEW A, IsFiniteSet(A), \A r \in R : r.acct \in A,
         NEW v, \A a \in A : v[a] = SumFunctionOnSet(w, {r \in R : r.acct = a})
  PROVE  SumFunctionOnSet(w, R) = SumFunctionOnSet(v, A)
<1> DEFINE Part(B) == {r \in R : r.acct \in B}
           Adds(B) == SumFunctionOnSet(w, Part(B)) = SumFunctionOnSet(v, B)
           Good == {n \in Nat : \A B \in SUBSET A : Cardinality(B) = n => Adds(B)}
<1>1. \A B \in SUBSET A : IsFiniteSet(B) /\ Cardinality(B) \in Nat /\ (Cardinality(B) = 0 <=> B = {})
  BY FS_Subset, FS_CardinalityType, FS_EmptySet
<1>2. \A S \in SUBSET R : IsFiniteSet(S) /\ SumFunctionOnSet(w, S) \in Int
  <2> SUFFICES ASSUME NEW S \in SUBSET R PROVE IsFiniteSet(S) /\ SumFunctionOnSet(w, S) \in Int
    OBVIOUS
  <2>1. IsFiniteSet(S) /\ \A r \in S : w[r] \in Int
    BY FS_Subset
  <2> QED
    BY <2>1, SumIsInt
<1>3. \A a \in A : v[a] \in Int
  BY <1>2
<1>4. 0 \in Good
  <2>1. Part({}) = {}
    OBVIOUS
  <2>2. Adds({})
    BY <2>1, SumOfNone
  <2> HIDE DEF Adds
  <2> QED
    BY <1>1, <2>2
<1>5. ASSUME NEW n \in Good PROVE n + 1 \in Good
  <2> SUFFICES ASSUME NEW B \in SUBSET A, Cardinality(B) = n + 1 PROVE Adds(B)
    OBVIOUS
  <2>1. IsFiniteSet(B) /\ B # {}
    BY <1>1
  <2>2. PICK a \in B : TRUE
    BY <2>1
  <2> DEFINE less == B \ {a}
             own == {r \in R : r.acct = a}
  <2>3. less \in SUBSET A /\ Cardinality(less) = n
    <3>1. n \in Nat
      OBVIOUS
    <3> HIDE DEF Good
    <3>2. Cardinality(less) = Cardinality(B) - 1
      BY <2>1, Smaller
    <3> QED
      BY <3>1, <3>2
  <2>4. SumFunctionOnSet(w, Part(less)) = SumFunctionOnSet(v, less)
    BY <2>3
  <2>5. own \in SUBSET Part(B) /\ Part(B) \ own = Part(less) /\ Part(B) \in SUBSET R
    OBVIOUS
  <2>6. v[a] = SumFunctionOnSet(w, own)
    OBVIOUS
  <2>7. SumFunctionOnSet(v, B) = v[a] + SumFunctionOnSet(v, less)
    BY <1>3, <2>1, SumTakesAnyInt
  <2>8. IsFiniteSet(Part(B)) /\ \A r \in Part(B) : w[r] \in Int
    BY <1>2, <2>5
  <2> HIDE DEF Part, own, less
  <2>9. SumFunctionOnSet(w, Part(B)) = SumFunctionOnSet(w, own) + SumFunctionOnSet(w, Part(less))
    BY <2>5, <2>8, SumSplits
  <2> QED
    BY <2>4, <2>6, <2>7, <2>9
<1> HIDE DEF Good
<1>6. Good = Nat
  BY <1>4, <1>5, Induct DEF Good
<1>7. Adds(A)
  BY <1>1, <1>6 DEF Good
<1>8. Part(A) = R
  OBVIOUS
<1> QED
  BY <1>7, <1>8

\* The sum of differences is the difference of the sums.
LEMMA SumOfDifferences ==
  ASSUME NEW S, IsFiniteSet(S), NEW u, NEW v, NEW w, NEW z,
         \A x \in S : u[x] \in Int /\ v[x] \in Int /\ w[x] \in Int /\ z[x] = u[x] - v[x] - w[x]
  PROVE  /\ SumFunctionOnSet(z, S) = SumFunctionOnSet(u, S) - SumFunctionOnSet(v, S) - SumFunctionOnSet(w, S)
         /\ SumFunctionOnSet(u, S) \in Int /\ SumFunctionOnSet(v, S) \in Int /\ SumFunctionOnSet(w, S) \in Int
<1> DEFINE Sums(t) == SumFunctionOnSet(z, t) = SumFunctionOnSet(u, t) - SumFunctionOnSet(v, t) - SumFunctionOnSet(w, t)
           Good == {n \in Nat : \A t \in SUBSET S : Cardinality(t) = n => Sums(t)}
<1>1. \A t \in SUBSET S : /\ IsFiniteSet(t) /\ Cardinality(t) \in Nat /\ (Cardinality(t) = 0 <=> t = {})
                          /\ SumFunctionOnSet(u, t) \in Int /\ SumFunctionOnSet(v, t) \in Int /\ SumFunctionOnSet(w, t) \in Int
  <2> SUFFICES ASSUME NEW t \in SUBSET S
               PROVE  /\ IsFiniteSet(t) /\ Cardinality(t) \in Nat /\ (Cardinality(t) = 0 <=> t = {})
                      /\ SumFunctionOnSet(u, t) \in Int /\ SumFunctionOnSet(v, t) \in Int /\ SumFunctionOnSet(w, t) \in Int
    OBVIOUS
  <2>1. IsFiniteSet(t) /\ Cardinality(t) \in Nat /\ (Cardinality(t) = 0 <=> t = {})
    BY FS_Subset, FS_CardinalityType, FS_EmptySet
  <2>2. \A x \in t : u[x] \in Int /\ v[x] \in Int /\ w[x] \in Int
    OBVIOUS
  <2> QED
    BY <2>1, <2>2, SumIsInt
<1>2. 0 \in Good
  <2>1. Sums({})
    BY SumOfNone
  <2> HIDE DEF Sums
  <2> QED
    BY <1>1, <2>1
<1>3. ASSUME NEW n \in Good PROVE n + 1 \in Good
  <2> SUFFICES ASSUME NEW t \in SUBSET S, Cardinality(t) = n + 1 PROVE Sums(t)
    OBVIOUS
  <2>1. IsFiniteSet(t) /\ t # {}
    BY <1>1
  <2>2. PICK x \in t : TRUE
    BY <2>1
  <2> DEFINE less == t \ {x}
  <2>3. less \in SUBSET S /\ Cardinality(less) = n
    BY <2>1, Smaller
  <2>4. Sums(less)
    BY <2>3
  <2>5. \A y \in t : u[y] \in Int /\ v[y] \in Int /\ w[y] \in Int /\ z[y] \in Int
    OBVIOUS
  <2>6. /\ SumFunctionOnSet(u, t) = u[x] + SumFunctionOnSet(u, less)
        /\ SumFunctionOnSet(v, t) = v[x] + SumFunctionOnSet(v, less)
        /\ SumFunctionOnSet(w, t) = w[x] + SumFunctionOnSet(w, less)
        /\ SumFunctionOnSet(z, t) = z[x] + SumFunctionOnSet(z, less)
    BY <2>1, <2>5, SumTakesAnyInt
  <2>7. z[x] = u[x] - v[x] - w[x] /\ u[x] \in Int /\ v[x] \in Int /\ w[x] \in Int
    OBVIOUS
  <2> HIDE DEF less
  <2>8. SumFunctionOnSet(u, less) \in Int /\ SumFunctionOnSet(v, less) \in Int /\ SumFunctionOnSet(w, less) \in Int
    BY <1>1, <2>3
  <2> QED
    BY <2>4, <2>6, <2>7, <2>8
<1> HIDE DEF Good
<1>4. Good = Nat
  BY <1>2, <1>3, Induct DEF Good
<1> QED
  BY <1>1, <1>4 DEF Good

\* What the terms of the bridge add up to: every movement of the range once.
LEMMA TermsAddUp ==
  ASSUME CashConstants, NEW db, CashTables(db), NEW from, NEW to
  PROVE  /\ Cash!NetCashRetained(db, from, to)
              + Cash!SumOf(Cash!Flow, Cash!InternalRows(db, from, to))
              + Cash!SumOf(Cash!Flow, Cash!UncategorizedRows(db, from, to))
              + Cash!Extra(db, from, to, "family") + Cash!Extra(db, from, to, "excluded")
              + Cash!Extra(db, from, to, "non_inr")
            = Movement(db, Bridged(db, from, to))
         /\ Movement(db, Bridged(db, from, to)) \in Int
         /\ Cash!NetCashRetained(db, from, to) \in Int
         /\ Cash!SumOf(Cash!Flow, Cash!InternalRows(db, from, to)) \in Int
         /\ Cash!SumOf(Cash!Flow, Cash!UncategorizedRows(db, from, to)) \in Int
         /\ Cash!Extra(db, from, to, "family") \in Int /\ Cash!Extra(db, from, to, "excluded") \in Int
         /\ Cash!Extra(db, from, to, "non_inr") \in Int
<1> DEFINE all   == Bridged(db, from, to)
           in    == Cash!InBucket(db, from, to, "income")
           out   == Cash!InBucket(db, from, to, "expense")
           moved == Cash!InBucket(db, from, to, "investment")
           back  == Cash!TransfersIn(db, from, to)
           own   == Cash!InternalRows(db, from, to)
           loose == Cash!UncategorizedRows(db, from, to)
           fam   == InKind(db, from, to, "family")
           exc   == InKind(db, from, to, "excluded")
           fgn   == InKind(db, from, to, "non_inr")
<1>1. /\ in \subseteq all
      /\ out \subseteq all \ in
      /\ moved \subseteq (all \ in) \ out
      /\ back \subseteq ((all \ in) \ out) \ moved
      /\ own \subseteq (((all \ in) \ out) \ moved) \ back
      /\ loose \subseteq ((((all \ in) \ out) \ moved) \ back) \ own
      /\ fam \subseteq (((((all \ in) \ out) \ moved) \ back) \ own) \ loose
      /\ exc \subseteq ((((((all \ in) \ out) \ moved) \ back) \ own) \ loose) \ fam
      /\ fgn = (((((((all \ in) \ out) \ moved) \ back) \ own) \ loose) \ fam) \ exc
  BY TermsPartition
<1>2. all \in SUBSET db.rows
  BY DEF Bridged, Cash!BankRows
<1>3. /\ Cash!NetCashRetained(db, from, to) = Movement(db, in) + Movement(db, back) - (-Movement(db, out)) - (-Movement(db, moved))
      /\ Cash!SumOf(Cash!Flow, own) = Movement(db, own)
      /\ Cash!SumOf(Cash!Flow, loose) = Movement(db, loose)
      /\ Cash!Extra(db, from, to, "family") = Movement(db, fam)
      /\ Cash!Extra(db, from, to, "excluded") = Movement(db, exc)
      /\ Cash!Extra(db, from, to, "non_inr") = Movement(db, fgn)
  <2>1. \A S \in SUBSET db.rows :
          Cash!SumFunctionOnSet([x \in S |-> Cash!Flow(x)], S) = Movement(db, S)
    BY MovementIsSum, SameSum
  <2>2. /\ in \in SUBSET db.rows /\ out \in SUBSET db.rows /\ moved \in SUBSET db.rows /\ back \in SUBSET db.rows
        /\ own \in SUBSET db.rows /\ loose \in SUBSET db.rows
        /\ fam \in SUBSET db.rows /\ exc \in SUBSET db.rows /\ fgn \in SUBSET db.rows
    BY <1>2 DEF Cash!InBucket, Cash!Headline, Cash!TransfersIn, Cash!InternalRows, Cash!UncategorizedRows, InKind
  <2>3. \A kind : Cash!Extra(db, from, to, kind)
                    = Cash!SumFunctionOnSet([x \in InKind(db, from, to, kind) |-> Cash!Flow(x)], InKind(db, from, to, kind))
    <3> TAKE kind
    <3>1. InKind(db, from, to, kind)
            = {r \in Cash!BankRows(db) : Cash!InRange(r, from, to) /\ Cash!FlowKind(r) = kind}
      BY DEF InKind, Bridged
    <3> QED
      BY <3>1 DEF Cash!Extra, Cash!SumOf
  <2>4. /\ Cash!NetCashRetained(db, from, to)
             = Cash!SumFunctionOnSet([x \in in |-> Cash!Flow(x)], in)
                 + Cash!SumFunctionOnSet([x \in back |-> Cash!Flow(x)], back)
                 - (-Cash!SumFunctionOnSet([x \in out |-> Cash!Flow(x)], out))
                 - (-Cash!SumFunctionOnSet([x \in moved |-> Cash!Flow(x)], moved))
        /\ Cash!SumOf(Cash!Flow, own) = Cash!SumFunctionOnSet([x \in own |-> Cash!Flow(x)], own)
        /\ Cash!SumOf(Cash!Flow, loose) = Cash!SumFunctionOnSet([x \in loose |-> Cash!Flow(x)], loose)
    BY DEF Cash!NetCashRetained, Cash!Earned, Cash!Spent, Cash!Invested, Cash!SumOf
  <2> HIDE DEF in, out, moved, back, own, loose, fam, exc, fgn
  <2>5. /\ Cash!SumFunctionOnSet([x \in in |-> Cash!Flow(x)], in) = Movement(db, in)
        /\ Cash!SumFunctionOnSet([x \in back |-> Cash!Flow(x)], back) = Movement(db, back)
        /\ Cash!SumFunctionOnSet([x \in out |-> Cash!Flow(x)], out) = Movement(db, out)
        /\ Cash!SumFunctionOnSet([x \in moved |-> Cash!Flow(x)], moved) = Movement(db, moved)
        /\ Cash!SumFunctionOnSet([x \in own |-> Cash!Flow(x)], own) = Movement(db, own)
        /\ Cash!SumFunctionOnSet([x \in loose |-> Cash!Flow(x)], loose) = Movement(db, loose)
    BY <2>1, <2>2
  <2>6. /\ Cash!Extra(db, from, to, "family") = Movement(db, fam)
        /\ Cash!Extra(db, from, to, "excluded") = Movement(db, exc)
        /\ Cash!Extra(db, from, to, "non_inr") = Movement(db, fgn)
    BY <2>1, <2>2, <2>3 DEF fam, exc, fgn
  <2> QED
    BY <2>4, <2>5, <2>6
<1> DEFINE l1 == all \ in
           l2 == l1 \ out
           l3 == l2 \ moved
           l4 == l3 \ back
           l5 == l4 \ own
           l6 == l5 \ loose
           l7 == l6 \ fam
<1>4. /\ l1 \in SUBSET db.rows /\ l2 \in SUBSET db.rows /\ l3 \in SUBSET db.rows /\ l4 \in SUBSET db.rows
      /\ l5 \in SUBSET db.rows /\ l6 \in SUBSET db.rows /\ l7 \in SUBSET db.rows
      /\ in \in SUBSET all /\ out \in SUBSET l1 /\ moved \in SUBSET l2 /\ back \in SUBSET l3 /\ own \in SUBSET l4
      /\ loose \in SUBSET l5 /\ fam \in SUBSET l6 /\ exc \in SUBSET l7 /\ fgn = l7 \ exc
  BY <1>1, <1>2
<1> HIDE DEF all, in, out, moved, back, own, loose, fam, exc, fgn
<1>5. /\ Movement(db, all) = Movement(db, in) + Movement(db, l1)
      /\ Movement(db, l1) = Movement(db, out) + Movement(db, l2)
      /\ Movement(db, l2) = Movement(db, moved) + Movement(db, l3)
      /\ Movement(db, l3) = Movement(db, back) + Movement(db, l4)
      /\ Movement(db, l4) = Movement(db, own) + Movement(db, l5)
      /\ Movement(db, l5) = Movement(db, loose) + Movement(db, l6)
      /\ Movement(db, l6) = Movement(db, fam) + Movement(db, l7)
      /\ Movement(db, l7) = Movement(db, exc) + Movement(db, fgn)
  <2> HIDE DEF l1, l2, l3, l4, l5, l6, l7
  <2>1. Movement(db, all) = Movement(db, in) + Movement(db, l1)
    BY <1>2, <1>4, MovementSplits DEF l1
  <2>2. Movement(db, l1) = Movement(db, out) + Movement(db, l2)
    BY <1>4, MovementSplits DEF l2
  <2>3. Movement(db, l2) = Movement(db, moved) + Movement(db, l3)
    BY <1>4, MovementSplits DEF l3
  <2>4. Movement(db, l3) = Movement(db, back) + Movement(db, l4)
    BY <1>4, MovementSplits DEF l4
  <2>5. Movement(db, l4) = Movement(db, own) + Movement(db, l5)
    BY <1>4, MovementSplits DEF l5
  <2>6. Movement(db, l5) = Movement(db, loose) + Movement(db, l6)
    BY <1>4, MovementSplits DEF l6
  <2>7. Movement(db, l6) = Movement(db, fam) + Movement(db, l7)
    BY <1>4, MovementSplits DEF l7
  <2>8. Movement(db, l7) = Movement(db, exc) + Movement(db, fgn)
    BY <1>4, MovementSplits
  <2> QED
    BY <2>1, <2>2, <2>3, <2>4, <2>5, <2>6, <2>7, <2>8
<1>6. /\ Movement(db, in) \in Int /\ Movement(db, out) \in Int /\ Movement(db, moved) \in Int /\ Movement(db, back) \in Int
      /\ Movement(db, own) \in Int /\ Movement(db, loose) \in Int /\ Movement(db, fam) \in Int
      /\ Movement(db, exc) \in Int /\ Movement(db, fgn) \in Int
  <2> HIDE DEF l1, l2, l3, l4, l5, l6, l7
  <2>1. /\ in \in SUBSET db.rows /\ out \in SUBSET db.rows /\ moved \in SUBSET db.rows /\ back \in SUBSET db.rows
        /\ own \in SUBSET db.rows /\ loose \in SUBSET db.rows /\ fam \in SUBSET db.rows /\ exc \in SUBSET db.rows
        /\ fgn \in SUBSET db.rows
    BY <1>2, <1>4
  <2> QED
    BY <2>1, MovementIsSum
<1> HIDE DEF l1, l2, l3, l4, l5, l6, l7
<1>7. /\ Cash!NetCashRetained(db, from, to) + Cash!SumOf(Cash!Flow, own) + Cash!SumOf(Cash!Flow, loose)
          + Cash!Extra(db, from, to, "family") + Cash!Extra(db, from, to, "excluded")
          + Cash!Extra(db, from, to, "non_inr") = Movement(db, all)
  BY <1>3, <1>5, <1>6
<1>8. Movement(db, all) \in Int
  BY <1>2, MovementIsSum
<1>9. /\ Cash!NetCashRetained(db, from, to) \in Int
      /\ Cash!SumOf(Cash!Flow, own) \in Int /\ Cash!SumOf(Cash!Flow, loose) \in Int
      /\ Cash!Extra(db, from, to, "family") \in Int /\ Cash!Extra(db, from, to, "excluded") \in Int
      /\ Cash!Extra(db, from, to, "non_inr") \in Int
  BY <1>3, <1>6
<1> QED
  BY <1>7, <1>8, <1>9 DEF all, own, loose

\* The movements of the range are those of the accounts.
LEMMA AccountsAddUp ==
  ASSUME CashConstants, NEW db, CashTables(db), NEW from \in Int, NEW to \in Int
  PROVE  /\ \A a \in Cash!BankAccounts(db) : Cash!NetFlow(db, a, from, to) \in Int
         /\ Movement(db, Bridged(db, from, to))
              = SumFunctionOnSet([a \in Cash!BankAccounts(db) |-> Cash!NetFlow(db, a, from, to)],
                                 Cash!BankAccounts(db))
<1> DEFINE w == [r \in db.rows |-> Cash!Flow(r)]
           R == Bridged(db, from, to)
           A == Cash!BankAccounts(db)
           v == [a \in A |-> Cash!NetFlow(db, a, from, to)]
<1>1. IsFiniteSet(R) /\ R \subseteq db.rows /\ \A r \in R : w[r] \in Int
  <2>1. R \subseteq db.rows
    BY DEF Bridged, Cash!BankRows
  <2>2. \A r \in db.rows : w[r] \in Int
    BY FlowIsInt
  <2> HIDE DEF w, R
  <2>3. IsFiniteSet(R)
    BY <2>1, FS_Subset DEF CashTables
  <2> QED
    BY <2>1, <2>2, <2>3
<1>2. IsFiniteSet(A)
  <2>1. A \subseteq DOMAIN db.accounts
    BY DEF Cash!BankAccounts
  <2> HIDE DEF A
  <2> QED
    BY <2>1, FS_Subset DEF CashTables
<1>3. \A r \in R : r.acct \in A
  BY DEF Bridged, Cash!BankRows, Cash!BankAccounts, Cash!ScopeOf
<1>4. ASSUME NEW a \in A
      PROVE  v[a] = SumFunctionOnSet(w, {r \in R : r.acct = a}) /\ v[a] \in Int
  <2> DEFINE own == {r \in Cash!BankRows(db) : r.acct = a /\ from - 1 < r.day /\ r.day =< to}
  <2>1. own = {r \in R : r.acct = a}
    <3>1. \A r \in Cash!BankRows(db) : r.day \in Int
      BY DEF Cash!BankRows, Cash!Dated, CashTables
    <3>2. \A r \in Cash!BankRows(db) : (from - 1 < r.day /\ r.day =< to) <=> Cash!InRange(r, from, to)
      BY <3>1 DEF Cash!InRange, Cash!BankRows
    <3> QED
      BY <3>2 DEF Bridged
  <2>2. own \in SUBSET db.rows
    BY DEF Cash!BankRows
  <2>3. v[a] = Cash!SumFunctionOnSet([r \in own |-> Cash!Flow(r)], own)
    BY DEF Cash!NetFlow, Cash!FlowBetween, Cash!SumOf
  <2> HIDE DEF own, v
  <2>4. v[a] = Movement(db, own) /\ Movement(db, own) \in Int
    BY <2>2, <2>3, SameSum, MovementIsSum
  <2> QED
    BY <2>1, <2>4 DEF Movement
<1> HIDE DEF w, R, A, v
<1>5. SumFunctionOnSet(w, R) = SumFunctionOnSet(v, A)
  BY <1>1, <1>2, <1>3, <1>4, SumByAccount
<1>6. \A a \in A : Cash!NetFlow(db, a, from, to) \in Int
  BY <1>4 DEF v
<1> QED
  BY <1>5, <1>6 DEF Movement, w, R, A, v

\* The bridge, whatever the balances of its accounts are: its terms cover every
\* dated bank row of the range once (ExpectedClosing).
LEMMA BridgeAlwaysAddsUp ==
  ASSUME CashConstants, NEW db, CashTables(db), NEW from \in Int, NEW to \in Int,
         \A a \in Cash!KnownAccounts(db) : /\ Cash!BalanceAt(db, a, to) \in Int
                                           /\ Cash!BalanceAt(db, a, from - 1) \in Int
  PROVE  Cash!BridgeAddsUp(db, from, to)
<1> DEFINE A == Cash!BankAccounts(db)
           K == Cash!KnownAccounts(db)
           net == [a \in A |-> Cash!NetFlow(db, a, from, to)]
           after == [a \in K |-> Cash!BalanceAt(db, a, to)]
           before == [a \in K |-> Cash!BalanceAt(db, a, from - 1)]
           gap == [a \in K |-> Cash!AccountGap(db, a, from, to)]
           rest == [a \in A \ K |-> Cash!NetFlow(db, a, from, to)]
           terms == Cash!NetCashRetained(db, from, to)
              + Cash!SumOf(Cash!Flow, Cash!InternalRows(db, from, to))
              + Cash!SumOf(Cash!Flow, Cash!UncategorizedRows(db, from, to))
              + Cash!Extra(db, from, to, "family") + Cash!Extra(db, from, to, "excluded")
              + Cash!Extra(db, from, to, "non_inr")
<1>1. K \subseteq A /\ IsFiniteSet(A) /\ IsFiniteSet(K) /\ IsFiniteSet(A \ K)
  <2>1. K \subseteq A /\ A \subseteq DOMAIN db.accounts
    BY DEF Cash!KnownAccounts, Cash!BankAccounts
  <2> HIDE DEF A, K
  <2> QED
    BY <2>1, FS_Subset DEF CashTables
<1>2. terms = SumFunctionOnSet(net, A) /\ terms \in Int /\ \A a \in A : net[a] \in Int
  BY AccountsAddUp, TermsAddUp
<1>4. Cash!BridgeAddsUp(db, from, to) <=> Cash!BridgeGap(db, from, to) = SumFunctionOnSet(gap, K)
  <2>1. Cash!BridgeAddsUp(db, from, to) <=> Cash!BridgeGap(db, from, to) = Cash!SumFunctionOnSet(gap, K)
    BY DEF Cash!BridgeAddsUp, Cash!SumOf
  <2> QED
    BY <2>1, SameSum
<1>5. /\ SumFunctionOnSet(gap, K)
           = SumFunctionOnSet(after, K) - SumFunctionOnSet(before, K) - SumFunctionOnSet(net, K)
      /\ SumFunctionOnSet(after, K) \in Int /\ SumFunctionOnSet(before, K) \in Int /\ SumFunctionOnSet(net, K) \in Int
  <2>1. \A a \in K : after[a] \in Int /\ before[a] \in Int /\ net[a] \in Int /\ gap[a] = after[a] - before[a] - net[a]
    <3> SUFFICES ASSUME NEW a \in K
                 PROVE  after[a] \in Int /\ before[a] \in Int /\ net[a] \in Int /\ gap[a] = after[a] - before[a] - net[a]
      OBVIOUS
    <3>1. after[a] \in Int /\ before[a] \in Int /\ net[a] \in Int
      BY <1>1, <1>2
    <3>2. gap[a] = Cash!BalanceAt(db, a, to) - Cash!BalanceAt(db, a, from - 1) - Cash!NetFlow(db, a, from, to)
      BY DEF Cash!AccountGap
    <3>3. net[a] = Cash!NetFlow(db, a, from, to)
      BY <1>1
    <3> QED
      BY <3>1, <3>2, <3>3
  <2> HIDE DEF after, before, net, gap, K, A, rest, terms
  <2>2. IsFiniteSet(K)
    BY <1>1
  <2> QED
    BY <2>1, <2>2, SumOfDifferences, SMTT(60)
<1>6. SumFunctionOnSet(net, A) = SumFunctionOnSet(net, K) + SumFunctionOnSet(net, A \ K)
  <2> HIDE DEF net, A, K
  <2> QED
    BY <1>1, <1>2, SumSplits
<1>7. SumFunctionOnSet(rest, A \ K) = SumFunctionOnSet(net, A \ K) /\ SumFunctionOnSet(net, A \ K) \in Int
  <2>1. \A a \in A \ K : rest[a] = net[a] /\ net[a] \in Int
    BY <1>2
  <2> HIDE DEF net, A, K, rest
  <2> QED
    BY <1>1, <2>1, SumSame, SumIsInt
<1>3. Cash!BridgeGap(db, from, to)
        = SumFunctionOnSet(after, K) - (SumFunctionOnSet(before, K) + terms - SumFunctionOnSet(rest, A \ K))
  <2> DEFINE a1 == Cash!NetCashRetained(db, from, to)
             a2 == Cash!SumOf(Cash!Flow, Cash!InternalRows(db, from, to))
             a3 == Cash!SumOf(Cash!Flow, Cash!UncategorizedRows(db, from, to))
             a4 == Cash!Extra(db, from, to, "family")
             a5 == Cash!Extra(db, from, to, "excluded")
             a6 == Cash!Extra(db, from, to, "non_inr")
  <2>1. Cash!BridgeGap(db, from, to)
          = Cash!SumFunctionOnSet(after, K)
              - (Cash!SumFunctionOnSet(before, K) + a1 + a2 + a3 + a4 + a5 + a6
                  - Cash!SumFunctionOnSet(rest, A \ K))
    BY DEF Cash!BridgeGap, Cash!ExpectedClosing, Cash!SumOf
  <2>2. /\ a1 \in Int /\ a2 \in Int /\ a3 \in Int /\ a4 \in Int /\ a5 \in Int /\ a6 \in Int
        /\ terms = a1 + a2 + a3 + a4 + a5 + a6
    BY TermsAddUp
  <2>3. /\ SumFunctionOnSet(after, K) \in Int /\ SumFunctionOnSet(before, K) \in Int
        /\ SumFunctionOnSet(rest, A \ K) \in Int
    BY <1>5, <1>7
  <2>4. Cash!BridgeGap(db, from, to)
          = SumFunctionOnSet(after, K)
              - (SumFunctionOnSet(before, K) + a1 + a2 + a3 + a4 + a5 + a6 - SumFunctionOnSet(rest, A \ K))
    BY <2>1, SameSum
  <2> HIDE DEF a1, a2, a3, a4, a5, a6, after, before, rest, A, K, terms
  <2> QED
    BY <2>2, <2>3, <2>4
<1> HIDE DEF A, K, net, after, before, gap, rest, terms
<1> QED
  BY <1>2, <1>3, <1>4, <1>5, <1>6, <1>7

-----------------------------------------------------------------------------
\* The trend.

\* The lesser of two numbers.
LEMMA LesserOfTwo ==
  ASSUME NEW a \in Int, NEW b \in Int
  PROVE  Cash!Min({a, b}) = IF a <= b THEN a ELSE b
<1> DEFINE m == IF a <= b THEN a ELSE b
<1>1. m \in {a, b} /\ \A y \in {a, b} : m <= y
  OBVIOUS
<1>2. \A x \in {a, b} : (\A y \in {a, b} : x <= y) => x = m
  OBVIOUS
<1> HIDE DEF m
<1>3. Cash!Min({a, b}) = m
  BY <1>1, <1>2 DEF Cash!Min
<1> QED
  BY <1>3 DEF m

\* The days of a month, and the month a day is of.
LEMMA DaysOfMonth ==
  ASSUME CashConstants, NEW day \in Int, NEW month \in Int
  PROVE  /\ Cash!Month(day) \in Int
         /\ Cash!Month(day) = month <=> month * MonthDays <= day /\ day <= month * MonthDays + MonthDays - 1
<1> DEFINE k == day \div MonthDays
<1>1. MonthDays \in Nat \ {0}
  BY DEF CashConstants
<1>2. k \in Int /\ MonthDays * k <= day /\ day < MonthDays * k + MonthDays
  BY <1>1
<1>3. ASSUME MonthDays * month <= day, day < MonthDays * month + MonthDays PROVE k = month
  BY <1>1, <1>3
<1>4. month * MonthDays = MonthDays * month /\ month * MonthDays \in Int
  BY <1>1
<1> HIDE DEF k
<1>5. k = month <=> MonthDays * month <= day /\ day <= MonthDays * month + MonthDays - 1
  <2>1. MonthDays * month \in Int
    BY <1>4
  <2>2. CASE k = month
    BY <1>1, <1>2, <2>1, <2>2
  <2>3. CASE k # month
    BY <1>1, <1>3, <2>1, <2>3
  <2> QED
    BY <2>2, <2>3
<1> QED
  BY <1>2, <1>4, <1>5 DEF k, Cash!Month

\* A month of the trend counts the rows of the range that clicking it selects.
LEMMA TrendAlwaysSummary ==
  ASSUME CashConstants, NEW db, CashTables(db), NEW months \in Nat \ {0}, NEW current \in Int
  PROVE  Cash!TrendIsSummary(db, months, current)
<1> SUFFICES ASSUME NEW month \in Cash!Month(current) - months + 1 .. Cash!Month(current)
             PROVE  LET range == Cash!TrendRange(month, current)
                    IN  Cash!TrendPoint(db, months, current, month)
                          = [income   |-> Cash!Earned(db, range[1], range[2]),
                             expense  |-> Cash!Spent(db, range[1], range[2]),
                             invested |-> Cash!Invested(db, range[1], range[2])]
  BY DEF Cash!TrendIsSummary
<1> DEFINE range == Cash!TrendRange(month, current)
           first == month * MonthDays
           last == month * MonthDays + MonthDays - 1
           window == (Cash!Month(current) - months + 1) * MonthDays
           rows(bucket) == {r \in Cash!Headline(db, window, current) :
                              Cash!Month(r.day) = month
                                /\ Cash!BucketForSlug(r.cat, "bank", r.dir) = bucket}
<1>1. MonthDays \in Nat \ {0} /\ Cash!Month(current) \in Int /\ month \in Int /\ first \in Int /\ last \in Int
      /\ window \in Int
  <2>1. MonthDays \in Nat \ {0}
    BY DEF CashConstants
  <2>2. Cash!Month(current) \in Int
    BY DaysOfMonth
  <2> QED
    BY <2>1, <2>2
<1>2. window <= first
  <2> DEFINE m0 == Cash!Month(current) - months + 1
  <2>1. m0 \in Int /\ m0 <= month /\ MonthDays \in Nat
    BY <1>1
  <2> HIDE DEF m0
  <2>2. m0 * MonthDays <= month * MonthDays
    BY <1>1, <2>1
  <2> QED
    BY <2>2 DEF m0
<1>3. range[1] = first /\ range[2] = IF last <= current THEN last ELSE current
  <2>1. range[1] = first /\ range[2] = Cash!Min({last, current})
    BY DEF Cash!TrendRange
  <2> HIDE DEF range, first, last
  <2> QED
    BY <1>1, <2>1, LesserOfTwo
<1>4. ASSUME NEW bucket PROVE rows(bucket) = Cash!InBucket(db, range[1], range[2], bucket)
  <2>1. \A r \in db.rows : Cash!Dated(r) => r.day \in Int
    BY DEF CashTables, Cash!Dated
  <2>2. \A r \in db.rows : r.day \in Int =>
          (/\ window <= r.day /\ r.day <= current /\ Cash!Month(r.day) = month
           <=> range[1] <= r.day /\ r.day <= range[2])
    <3> SUFFICES ASSUME NEW day \in Int
                 PROVE  /\ window <= day /\ day <= current /\ Cash!Month(day) = month
                        <=> range[1] <= day /\ day <= range[2]
      OBVIOUS
    <3>1. Cash!Month(day) = month <=> first <= day /\ day <= last
      BY <1>1, DaysOfMonth
    <3> HIDE DEF first, last, window, range
    <3> QED
      BY <1>1, <1>2, <1>3, <3>1
  <2> HIDE DEF range, window
  <2>3. \A r \in db.rows : (/\ Cash!InRange(r, window, current) /\ Cash!Month(r.day) = month)
                             <=> Cash!InRange(r, range[1], range[2])
    BY <2>1, <2>2 DEF Cash!InRange
  <2> QED
    BY <2>3 DEF Cash!Headline, Cash!InBucket
<1>5. Cash!TrendPoint(db, months, current, month)
        = [income   |-> Cash!SumOf(Cash!Flow, rows("income")),
           expense  |-> -Cash!SumOf(Cash!Flow, rows("expense")),
           invested |-> -Cash!SumOf(Cash!Flow, rows("investment"))]
  BY DEF Cash!TrendPoint, Cash!SumOf
<1>6. /\ Cash!Earned(db, range[1], range[2]) = Cash!SumOf(Cash!Flow, Cash!InBucket(db, range[1], range[2], "income"))
      /\ Cash!Spent(db, range[1], range[2]) = -Cash!SumOf(Cash!Flow, Cash!InBucket(db, range[1], range[2], "expense"))
      /\ Cash!Invested(db, range[1], range[2])
           = -Cash!SumOf(Cash!Flow, Cash!InBucket(db, range[1], range[2], "investment"))
  BY DEF Cash!Earned, Cash!Spent, Cash!Invested
<1>7. /\ rows("income") = Cash!InBucket(db, range[1], range[2], "income")
      /\ rows("expense") = Cash!InBucket(db, range[1], range[2], "expense")
      /\ rows("investment") = Cash!InBucket(db, range[1], range[2], "investment")
  BY <1>4
<1> HIDE DEF rows, range
<1> QED
  BY <1>5, <1>6, <1>7 DEF Cash!SumOf, range

-----------------------------------------------------------------------------
\* The lines and the lists they link to.

\* The links that name a direction, and those that name a counterparty.
OneWay(link, c, way) == [link EXCEPT !.cat = c, !.dir = way]
OfParty(link, p)     == [link EXCEPT !.cat = "repayment", !.party = IF p = Null THEN "" ELSE p]

\* What separates an absent filter from one that is there.
LEMMA Filters ==
  ASSUME CashConstants, NEW db, CashTables(db), NEW from \in Int, NEW to \in Int
  PROVE  /\ from # Null /\ to # Null /\ TRUE # Null /\ FALSE # Null
         /\ Null \notin {"", "bank", "unaccounted", "credit", "debit", "gift", "repayment", "family"}
         /\ \A r \in db.rows : r.day # Null => r.day \in Int
<1>1. \A r \in db.rows : r.day # Null => r.day \in Int
  BY DEF CashTables
<1>2. {"gift", "repayment", "family"} \subseteq Cash!Mapped
  BY DEF Cash!Mapped, Cash!ExpenseBucket, Cash!ExpenseGuard
<1> QED
  BY <1>1, <1>2 DEF CashConstants

\* The link of a category over the bank.
LEMMA CoreLists ==
  ASSUME CashConstants, NEW db, CashTables(db), NEW from \in Int, NEW to \in Int, NEW c, c # Null
  PROVE  Cash!Listed(db, [Cash!CoreQuery(from, to) EXCEPT !.cat = c])
           = {r \in Cash!Headline(db, from, to) : r.cat = c}
<1> DEFINE q == [Cash!CoreQuery(from, to) EXCEPT !.cat = c]
<1>1. /\ q.from = from
      /\ q.to = to
      /\ q.cat = c
      /\ q.dir = Null
      /\ q.party = Null
      /\ ~ q.uncategorized
      /\ ~ q.noCategory
      /\ ~ q.internal
      /\ ~ q.undated
      /\ q.rupees = TRUE
      /\ q.excluded = FALSE
      /\ q.scope = "bank"
  BY DEF OneWay, OfParty, Cash!CoreQuery, Cash!DetailQuery, Cash!BankQuery, Cash!RangeQuery, Cash!AnyRow
<1> HIDE DEF q
<1>2. \A r \in db.rows : r \in Cash!Listed(db, q) <=> r \in {s \in Cash!Headline(db, from, to) : s.cat = c}
  BY <1>1, Filters DEF Cash!Listed, Cash!InRange, Cash!Dated, Cash!Headline
<1> QED
  BY <1>2 DEF q, Cash!Listed, Cash!Headline

\* The link of a category's debits or credits.
LEMMA CoreListsDirection ==
  ASSUME CashConstants, NEW db, CashTables(db), NEW from \in Int, NEW to \in Int, NEW c, c # Null,
         NEW way \in {"credit", "debit"}
  PROVE  Cash!Listed(db, OneWay(Cash!CoreQuery(from, to), c, way))
           = {r \in Cash!Headline(db, from, to) : r.cat = c /\ r.dir = way}
<1> DEFINE q == OneWay(Cash!CoreQuery(from, to), c, way)
<1>1. /\ q.from = from
      /\ q.to = to
      /\ q.cat = c
      /\ q.dir = way
      /\ q.party = Null
      /\ ~ q.uncategorized
      /\ ~ q.noCategory
      /\ ~ q.internal
      /\ ~ q.undated
      /\ q.rupees = TRUE
      /\ q.excluded = FALSE
      /\ q.scope = "bank"
  BY DEF OneWay, OfParty, Cash!CoreQuery, Cash!DetailQuery, Cash!BankQuery, Cash!RangeQuery, Cash!AnyRow
<1> HIDE DEF q
<1>2. \A r \in db.rows : r \in Cash!Listed(db, q) <=> r \in {s \in Cash!Headline(db, from, to) : s.cat = c /\ s.dir = way}
  BY <1>1, Filters DEF Cash!Listed, Cash!InRange, Cash!Dated, Cash!Headline
<1> QED
  BY <1>2 DEF q, Cash!Listed, Cash!Headline

\* The link of a counterparty's repayments.
LEMMA CoreListsParty ==
  ASSUME CashConstants, NEW db, CashTables(db), NEW from \in Int, NEW to \in Int, NEW t \in db.rows
  PROVE  Cash!Listed(db, OfParty(Cash!CoreQuery(from, to), t.party))
           = {r \in Cash!TransfersIn(db, from, to) : r.party = t.party}
<1> DEFINE q == OfParty(Cash!CoreQuery(from, to), t.party)
<1>1. /\ q.from = from
      /\ q.to = to
      /\ q.cat = "repayment"
      /\ q.dir = Null
      /\ q.party = IF t.party = Null THEN "" ELSE t.party
      /\ ~ q.uncategorized
      /\ ~ q.noCategory
      /\ ~ q.internal
      /\ ~ q.undated
      /\ q.rupees = TRUE
      /\ q.excluded = FALSE
      /\ q.scope = "bank"
  BY DEF OneWay, OfParty, Cash!CoreQuery, Cash!DetailQuery, Cash!BankQuery, Cash!RangeQuery, Cash!AnyRow
<1>0. t.party # ""
  BY DEF CashTables
<1> HIDE DEF q
<1>2. \A r \in db.rows : r \in Cash!Listed(db, q) <=> r \in {s \in Cash!TransfersIn(db, from, to) : s.party = t.party}
  BY <1>0, <1>1, Filters DEF Cash!Listed, Cash!InRange, Cash!Dated, Cash!Headline, Cash!TransfersIn, CashTables
<1> QED
  BY <1>2 DEF q, Cash!Listed, Cash!Headline, Cash!TransfersIn, CashTables

\* The link of an unknown category.
LEMMA BankLists ==
  ASSUME CashConstants, NEW db, CashTables(db), NEW from \in Int, NEW to \in Int, NEW c, c # Null
  PROVE  Cash!Listed(db, [Cash!BankQuery(from, to) EXCEPT !.cat = c])
           = {r \in db.rows : Cash!InRange(r, from, to) /\ Cash!Included(r) /\ Cash!ScopeOf(db, r) = "bank" /\ r.cat = c}
<1> DEFINE q == [Cash!BankQuery(from, to) EXCEPT !.cat = c]
<1>1. /\ q.from = from
      /\ q.to = to
      /\ q.cat = c
      /\ q.dir = Null
      /\ q.party = Null
      /\ ~ q.uncategorized
      /\ ~ q.noCategory
      /\ ~ q.internal
      /\ ~ q.undated
      /\ q.rupees = Null
      /\ q.excluded = FALSE
      /\ q.scope = "bank"
  BY DEF OneWay, OfParty, Cash!CoreQuery, Cash!DetailQuery, Cash!BankQuery, Cash!RangeQuery, Cash!AnyRow
<1> HIDE DEF q
<1>2. \A r \in db.rows : r \in Cash!Listed(db, q) <=> r \in {s \in db.rows : Cash!InRange(s, from, to) /\ Cash!Included(s) /\ Cash!ScopeOf(db, s) = "bank" /\ s.cat = c}
  BY <1>1, Filters DEF Cash!Listed, Cash!InRange, Cash!Dated, Cash!Included
<1> QED
  BY <1>2 DEF q, Cash!Listed, Cash!Included

\* The link of a category over every account.
LEMMA DetailLists ==
  ASSUME CashConstants, NEW db, CashTables(db), NEW from \in Int, NEW to \in Int, NEW c, c # Null
  PROVE  Cash!Listed(db, [Cash!DetailQuery(from, to) EXCEPT !.cat = c])
           = {r \in db.rows : Cash!InRange(r, from, to) /\ Cash!Rupees(r) /\ Cash!Included(r) /\ r.cat = c}
<1> DEFINE q == [Cash!DetailQuery(from, to) EXCEPT !.cat = c]
<1>1. /\ q.from = from
      /\ q.to = to
      /\ q.cat = c
      /\ q.dir = Null
      /\ q.party = Null
      /\ ~ q.uncategorized
      /\ ~ q.noCategory
      /\ ~ q.internal
      /\ ~ q.undated
      /\ q.rupees = TRUE
      /\ q.excluded = FALSE
      /\ q.scope = Null
  BY DEF OneWay, OfParty, Cash!CoreQuery, Cash!DetailQuery, Cash!BankQuery, Cash!RangeQuery, Cash!AnyRow
<1> HIDE DEF q
<1>2. \A r \in db.rows : r \in Cash!Listed(db, q) <=> r \in {s \in db.rows : Cash!InRange(s, from, to) /\ Cash!Rupees(s) /\ Cash!Included(s) /\ s.cat = c}
  BY <1>1, Filters DEF Cash!Listed, Cash!InRange, Cash!Dated, Cash!Included
<1> QED
  BY <1>2 DEF q, Cash!Listed, Cash!Included

\* The link of a category's debits or credits over every account.
LEMMA DetailListsDirection ==
  ASSUME CashConstants, NEW db, CashTables(db), NEW from \in Int, NEW to \in Int, NEW c, c # Null,
         NEW way \in {"credit", "debit"}
  PROVE  Cash!Listed(db, OneWay(Cash!DetailQuery(from, to), c, way))
           = {r \in db.rows : Cash!InRange(r, from, to) /\ Cash!Rupees(r) /\ Cash!Included(r) /\ r.cat = c /\ r.dir = way}
<1> DEFINE q == OneWay(Cash!DetailQuery(from, to), c, way)
<1>1. /\ q.from = from
      /\ q.to = to
      /\ q.cat = c
      /\ q.dir = way
      /\ q.party = Null
      /\ ~ q.uncategorized
      /\ ~ q.noCategory
      /\ ~ q.internal
      /\ ~ q.undated
      /\ q.rupees = TRUE
      /\ q.excluded = FALSE
      /\ q.scope = Null
  BY DEF OneWay, OfParty, Cash!CoreQuery, Cash!DetailQuery, Cash!BankQuery, Cash!RangeQuery, Cash!AnyRow
<1> HIDE DEF q
<1>2. \A r \in db.rows : r \in Cash!Listed(db, q) <=> r \in {s \in db.rows : Cash!InRange(s, from, to) /\ Cash!Rupees(s) /\ Cash!Included(s) /\ s.cat = c /\ s.dir = way}
  BY <1>1, Filters DEF Cash!Listed, Cash!InRange, Cash!Dated, Cash!Included
<1> QED
  BY <1>2 DEF q, Cash!Listed, Cash!Included

\* The link of the rows without a category.
LEMMA BlankLists ==
  ASSUME CashConstants, NEW db, CashTables(db), NEW from \in Int, NEW to \in Int
  PROVE  Cash!Listed(db, [Cash!BankQuery(from, to) EXCEPT !.noCategory = TRUE])
           = {r \in Cash!UncategorizedRows(db, from, to) : r.cat \in Cash!Blank}
<1> DEFINE q == [Cash!BankQuery(from, to) EXCEPT !.noCategory = TRUE]
<1>1. /\ q.from = from
      /\ q.to = to
      /\ q.cat = Null
      /\ q.dir = Null
      /\ q.party = Null
      /\ ~ q.uncategorized
      /\ q.noCategory = TRUE
      /\ ~ q.internal
      /\ ~ q.undated
      /\ q.rupees = Null
      /\ q.excluded = FALSE
      /\ q.scope = "bank"
  BY DEF OneWay, OfParty, Cash!CoreQuery, Cash!DetailQuery, Cash!BankQuery, Cash!RangeQuery, Cash!AnyRow
<1> HIDE DEF q
<1>2. \A r \in db.rows : r \in Cash!Listed(db, q) <=> r \in {s \in Cash!UncategorizedRows(db, from, to) : s.cat \in Cash!Blank}
  BY <1>1, Filters DEF Cash!Listed, Cash!InRange, Cash!Dated, Cash!UncategorizedRows, Cash!Uncategorized
<1> QED
  BY <1>2 DEF q, Cash!Listed, Cash!UncategorizedRows, Cash!Uncategorized

\* The link of the uncategorized rows.
LEMMA UncategorizedLists ==
  ASSUME CashConstants, NEW db, CashTables(db), NEW from \in Int, NEW to \in Int
  PROVE  Cash!Listed(db, [Cash!BankQuery(from, to) EXCEPT !.uncategorized = TRUE])
           = Cash!UncategorizedRows(db, from, to)
<1> DEFINE q == [Cash!BankQuery(from, to) EXCEPT !.uncategorized = TRUE]
<1>1. /\ q.from = from
      /\ q.to = to
      /\ q.cat = Null
      /\ q.dir = Null
      /\ q.party = Null
      /\ q.uncategorized = TRUE
      /\ ~ q.noCategory
      /\ ~ q.internal
      /\ ~ q.undated
      /\ q.rupees = Null
      /\ q.excluded = FALSE
      /\ q.scope = "bank"
  BY DEF OneWay, OfParty, Cash!CoreQuery, Cash!DetailQuery, Cash!BankQuery, Cash!RangeQuery, Cash!AnyRow
<1> HIDE DEF q
<1>2. \A r \in db.rows : r \in Cash!Listed(db, q) <=> r \in Cash!UncategorizedRows(db, from, to)
  BY <1>1, Filters DEF Cash!Listed, Cash!InRange, Cash!Dated, Cash!UncategorizedRows
<1> QED
  BY <1>2 DEF q, Cash!Listed, Cash!UncategorizedRows

\* The link of the internal movements.
LEMMA InternalLists ==
  ASSUME CashConstants, NEW db, CashTables(db), NEW from \in Int, NEW to \in Int
  PROVE  Cash!Listed(db, [Cash!BankQuery(from, to) EXCEPT !.internal = TRUE])
           = Cash!InternalRows(db, from, to)
<1> DEFINE q == [Cash!BankQuery(from, to) EXCEPT !.internal = TRUE]
<1>1. /\ q.from = from
      /\ q.to = to
      /\ q.cat = Null
      /\ q.dir = Null
      /\ q.party = Null
      /\ ~ q.uncategorized
      /\ ~ q.noCategory
      /\ q.internal = TRUE
      /\ ~ q.undated
      /\ q.rupees = Null
      /\ q.excluded = FALSE
      /\ q.scope = "bank"
  BY DEF OneWay, OfParty, Cash!CoreQuery, Cash!DetailQuery, Cash!BankQuery, Cash!RangeQuery, Cash!AnyRow
<1> HIDE DEF q
<1>2. \A r \in db.rows : r \in Cash!Listed(db, q) <=> r \in Cash!InternalRows(db, from, to)
  BY <1>1, Filters DEF Cash!Listed, Cash!InRange, Cash!Dated, Cash!InternalRows, Cash!InternalSlugs
<1> QED
  BY <1>2 DEF q, Cash!Listed, Cash!InternalRows, Cash!InternalSlugs

\* The link of the rows in another currency.
LEMMA ForeignLists ==
  ASSUME CashConstants, NEW db, CashTables(db), NEW from \in Int, NEW to \in Int
  PROVE  Cash!Listed(db, [Cash!BankQuery(from, to) EXCEPT !.rupees = FALSE])
           = Cash!ForeignRows(db, from, to)
<1> DEFINE q == [Cash!BankQuery(from, to) EXCEPT !.rupees = FALSE]
<1>1. /\ q.from = from
      /\ q.to = to
      /\ q.cat = Null
      /\ q.dir = Null
      /\ q.party = Null
      /\ ~ q.uncategorized
      /\ ~ q.noCategory
      /\ ~ q.internal
      /\ ~ q.undated
      /\ q.rupees = FALSE
      /\ q.excluded = FALSE
      /\ q.scope = "bank"
  BY DEF OneWay, OfParty, Cash!CoreQuery, Cash!DetailQuery, Cash!BankQuery, Cash!RangeQuery, Cash!AnyRow
<1> HIDE DEF q
<1>2. \A r \in db.rows : r \in Cash!Listed(db, q) <=> r \in Cash!ForeignRows(db, from, to)
  <2>1. \A r \in db.rows : q.rupees = Cash!Rupees(r) <=> ~ Cash!Rupees(r)
    <3> SUFFICES ASSUME NEW r \in db.rows PROVE q.rupees = Cash!Rupees(r) <=> ~ Cash!Rupees(r)
      OBVIOUS
    <3>1. CASE r.ccy \in {Null, "INR"}
      <4>1. Cash!Rupees(r) = TRUE
        BY <3>1 DEF Cash!Rupees
      <4> QED
        BY <1>1, <4>1
    <3>2. CASE r.ccy \notin {Null, "INR"}
      <4>1. Cash!Rupees(r) = FALSE
        BY <3>2 DEF Cash!Rupees
      <4> QED
        BY <1>1, <4>1
    <3> QED
      BY <3>1, <3>2
  <2>2. \A r \in db.rows : q.rupees = Null \/ q.rupees = Cash!Rupees(r) <=> ~ Cash!Rupees(r)
    BY <1>1, <2>1, Filters
  <2> QED
    BY <1>1, <2>2, Filters DEF Cash!Listed, Cash!InRange, Cash!Dated, Cash!ForeignRows
<1> QED
  BY <1>2 DEF q, Cash!Listed, Cash!ForeignRows

\* The link of the rows without a date.
LEMMA UndatedLists ==
  ASSUME CashConstants, NEW db, CashTables(db), NEW from \in Int, NEW to \in Int
  PROVE  Cash!Listed(db, [Cash!AnyRow EXCEPT !.undated = TRUE])
           = Cash!UndatedRows(db)
<1> DEFINE q == [Cash!AnyRow EXCEPT !.undated = TRUE]
<1>1. /\ q.from = Null
      /\ q.to = Null
      /\ q.cat = Null
      /\ q.dir = Null
      /\ q.party = Null
      /\ ~ q.uncategorized
      /\ ~ q.noCategory
      /\ ~ q.internal
      /\ q.undated = TRUE
      /\ q.rupees = Null
      /\ q.excluded = Null
      /\ q.scope = Null
  BY DEF OneWay, OfParty, Cash!CoreQuery, Cash!DetailQuery, Cash!BankQuery, Cash!RangeQuery, Cash!AnyRow
<1> HIDE DEF q
<1>2. \A r \in db.rows : r \in Cash!Listed(db, q) <=> r \in Cash!UndatedRows(db)
  BY <1>1, Filters DEF Cash!Listed, Cash!InRange, Cash!Dated, Cash!UndatedRows
<1> QED
  BY <1>2 DEF q, Cash!Listed, Cash!UndatedRows

\* The link of the family's rows.
LEMMA FamilyLists ==
  ASSUME CashConstants, NEW db, CashTables(db), NEW from \in Int, NEW to \in Int
  PROVE  Cash!Listed(db, [Cash!RangeQuery(from, to) EXCEPT !.cat = "family", !.excluded = FALSE])
           = Cash!FamilyRows(db, from, to)
<1> DEFINE q == [Cash!RangeQuery(from, to) EXCEPT !.cat = "family", !.excluded = FALSE]
<1>1. /\ q.from = from
      /\ q.to = to
      /\ q.cat = "family"
      /\ q.dir = Null
      /\ q.party = Null
      /\ ~ q.uncategorized
      /\ ~ q.noCategory
      /\ ~ q.internal
      /\ ~ q.undated
      /\ q.rupees = Null
      /\ q.excluded = FALSE
      /\ q.scope = Null
  BY DEF OneWay, OfParty, Cash!CoreQuery, Cash!DetailQuery, Cash!BankQuery, Cash!RangeQuery, Cash!AnyRow
<1> HIDE DEF q
<1>2. \A r \in db.rows : r \in Cash!Listed(db, q) <=> r \in Cash!FamilyRows(db, from, to)
  BY <1>1, Filters DEF Cash!Listed, Cash!InRange, Cash!Dated, Cash!FamilyRows
<1> QED
  BY <1>2 DEF q, Cash!Listed, Cash!FamilyRows

\* The link of the rows of no account.
LEMMA UnaccountedLists ==
  ASSUME CashConstants, NEW db, CashTables(db), NEW from \in Int, NEW to \in Int
  PROVE  Cash!Listed(db, [Cash!RangeQuery(from, to) EXCEPT !.scope = "unaccounted", !.excluded = FALSE])
           = Cash!UnaccountedRows(db, from, to)
<1> DEFINE q == [Cash!RangeQuery(from, to) EXCEPT !.scope = "unaccounted", !.excluded = FALSE]
<1>1. /\ q.from = from
      /\ q.to = to
      /\ q.cat = Null
      /\ q.dir = Null
      /\ q.party = Null
      /\ ~ q.uncategorized
      /\ ~ q.noCategory
      /\ ~ q.internal
      /\ ~ q.undated
      /\ q.rupees = Null
      /\ q.excluded = FALSE
      /\ q.scope = "unaccounted"
  BY DEF OneWay, OfParty, Cash!CoreQuery, Cash!DetailQuery, Cash!BankQuery, Cash!RangeQuery, Cash!AnyRow
<1> HIDE DEF q
<1>2. \A r \in db.rows : r \in Cash!Listed(db, q) <=> r \in Cash!UnaccountedRows(db, from, to)
  BY <1>1, Filters DEF Cash!Listed, Cash!InRange, Cash!Dated, Cash!UnaccountedRows
<1> QED
  BY <1>2 DEF q, Cash!Listed, Cash!UnaccountedRows

\* The link of the excluded rows.
LEMMA ExcludedLists ==
  ASSUME CashConstants, NEW db, CashTables(db), NEW from \in Int, NEW to \in Int
  PROVE  Cash!Listed(db, [Cash!RangeQuery(from, to) EXCEPT !.excluded = TRUE])
           = Cash!ExcludedRows(db, from, to)
<1> DEFINE q == [Cash!RangeQuery(from, to) EXCEPT !.excluded = TRUE]
<1>1. /\ q.from = from
      /\ q.to = to
      /\ q.cat = Null
      /\ q.dir = Null
      /\ q.party = Null
      /\ ~ q.uncategorized
      /\ ~ q.noCategory
      /\ ~ q.internal
      /\ ~ q.undated
      /\ q.rupees = Null
      /\ q.excluded = TRUE
      /\ q.scope = Null
  BY DEF OneWay, OfParty, Cash!CoreQuery, Cash!DetailQuery, Cash!BankQuery, Cash!RangeQuery, Cash!AnyRow
<1> HIDE DEF q
<1>2. \A r \in db.rows : r \in Cash!Listed(db, q) <=> r \in Cash!ExcludedRows(db, from, to)
  BY <1>1, Filters DEF Cash!Listed, Cash!InRange, Cash!Dated, Cash!ExcludedRows
<1> QED
  BY <1>2 DEF q, Cash!Listed, Cash!ExcludedRows

\* A line links to the list of just the rows it counts.
Leads(db, line) == line.rows = Cash!Listed(db, line.link)

\* The lines of a bucket, by category.
LEMMA CategoryLinesLead ==
  ASSUME CashConstants, NEW db, CashTables(db), NEW from \in Int, NEW to \in Int,
         NEW bucket \in {"income", "expense"},
         NEW line \in Cash!ByCategory(Cash!InBucket(db, from, to, bucket), Cash!CoreQuery(from, to))
  PROVE  Leads(db, line)
<1> DEFINE set == Cash!InBucket(db, from, to, bucket)
<1>1. PICK r \in set : /\ r.cat # "gift"
                       /\ line = [rows |-> {s \in set : s.cat = r.cat},
                                  link |-> [Cash!CoreQuery(from, to) EXCEPT !.cat = r.cat]]
  BY DEF Cash!ByCategory
<1>2. Cash!BucketForSlug(r.cat, "bank", r.dir) = bucket
  BY DEF Cash!InBucket
<1>3. r.cat \notin Cash!Blank
  BY <1>2, BucketNamed
<1>4. r.cat # Null
  BY <1>3 DEF Cash!Blank
<1>5. \A s \in Cash!Headline(db, from, to) : s.cat = r.cat => Cash!BucketForSlug(s.cat, "bank", s.dir) = bucket
  BY <1>1, <1>2, BucketAnyWay
<1>6. {s \in set : s.cat = r.cat} = {s \in Cash!Headline(db, from, to) : s.cat = r.cat}
  BY <1>5 DEF Cash!InBucket
<1> HIDE DEF set
<1>7. Cash!Listed(db, line.link) = {s \in Cash!Headline(db, from, to) : s.cat = r.cat}
  BY <1>1, <1>4, CoreLists
<1> QED
  BY <1>1, <1>6, <1>7 DEF Leads

\* A gift, by its direction.
LEMMA GiftLinesLead ==
  ASSUME CashConstants, NEW db, CashTables(db), NEW from \in Int, NEW to \in Int,
         NEW way \in {"credit", "debit"}, NEW bucket, bucket = (IF way = "credit" THEN "income" ELSE "expense"),
         NEW line \in Cash!GiftLines(Cash!InBucket(db, from, to, bucket), way, Cash!CoreQuery(from, to))
  PROVE  Leads(db, line)
<1> DEFINE set == Cash!InBucket(db, from, to, bucket)
<1>1. line = [rows |-> {s \in set : s.cat = "gift"},
              link |-> [Cash!CoreQuery(from, to) EXCEPT !.cat = "gift", !.dir = way]]
  BY DEF Cash!GiftLines
<1>2. \A s \in Cash!Headline(db, from, to) : s.dir \in {"credit", "debit"}
  BY DEF Cash!Headline, CashTables
<1>3. \A s \in Cash!Headline(db, from, to) :
        s.cat = "gift" => (Cash!BucketForSlug(s.cat, "bank", s.dir) = bucket <=> s.dir = way)
  BY <1>2, BucketOfGift
<1>4. {s \in set : s.cat = "gift"} = {s \in Cash!Headline(db, from, to) : s.cat = "gift" /\ s.dir = way}
  BY <1>3 DEF Cash!InBucket
<1> HIDE DEF set
<1>5. "gift" # Null
  BY Filters
<1>6. Cash!Listed(db, line.link) = {s \in Cash!Headline(db, from, to) : s.cat = "gift" /\ s.dir = way}
  <2>1. line.link = OneWay(Cash!CoreQuery(from, to), "gift", way)
    BY <1>1 DEF OneWay
  <2> QED
    BY <1>5, <2>1, CoreListsDirection
<1> QED
  BY <1>1, <1>4, <1>6 DEF Leads

\* Investments, by category and direction.
LEMMA InvestmentLinesLead ==
  ASSUME CashConstants, NEW db, CashTables(db), NEW from \in Int, NEW to \in Int,
         NEW r \in Cash!InBucket(db, from, to, "investment"), NEW line,
         line = [rows |-> {s \in Cash!InBucket(db, from, to, "investment") : s.cat = r.cat /\ s.dir = r.dir},
                 link |-> [Cash!CoreQuery(from, to) EXCEPT !.cat = r.cat, !.dir = r.dir]]
  PROVE  Leads(db, line)
<1>1. Cash!BucketForSlug(r.cat, "bank", r.dir) = "investment" /\ r \in db.rows
  BY DEF Cash!InBucket, Cash!Headline
<1>2. r.cat \notin Cash!Blank
  BY <1>1, BucketNamed
<1>3. r.cat # Null
  BY <1>2 DEF Cash!Blank
<1>4. r.dir \in {"credit", "debit"}
  BY <1>1 DEF CashTables
<1>5. {s \in Cash!InBucket(db, from, to, "investment") : s.cat = r.cat /\ s.dir = r.dir}
        = {s \in Cash!Headline(db, from, to) : s.cat = r.cat /\ s.dir = r.dir}
  BY <1>1 DEF Cash!InBucket
<1>6. Cash!Listed(db, line.link) = {s \in Cash!Headline(db, from, to) : s.cat = r.cat /\ s.dir = r.dir}
  <2>1. line.link = OneWay(Cash!CoreQuery(from, to), r.cat, r.dir)
    BY DEF OneWay
  <2> QED
    BY <1>3, <1>4, <2>1, CoreListsDirection
<1> QED
  BY <1>5, <1>6 DEF Leads

\* Repayments, by counterparty.
LEMMA RepaymentLinesLead ==
  ASSUME CashConstants, NEW db, CashTables(db), NEW from \in Int, NEW to \in Int,
         NEW r \in Cash!TransfersIn(db, from, to), NEW line,
         line = [rows |-> {s \in Cash!TransfersIn(db, from, to) : s.party = r.party},
                 link |-> [Cash!CoreQuery(from, to) EXCEPT !.cat = "repayment",
                             !.party = IF r.party = Null THEN "" ELSE r.party]]
  PROVE  Leads(db, line)
<1>1. line.link = OfParty(Cash!CoreQuery(from, to), r.party)
  BY DEF OfParty
<1>2. r \in db.rows
  BY DEF Cash!TransfersIn, Cash!Headline
<1>3. Cash!Listed(db, line.link) = {s \in Cash!TransfersIn(db, from, to) : s.party = r.party}
  BY <1>1, <1>2, CoreListsParty
<1> QED
  BY <1>3 DEF Leads

\* Unknown categories.
LEMMA UnknownLinesLead ==
  ASSUME CashConstants, NEW db, CashTables(db), NEW from \in Int, NEW to \in Int,
         NEW line \in Cash!ByCategory({r \in Cash!UncategorizedRows(db, from, to) : r.cat \notin Cash!Blank},
                                      Cash!BankQuery(from, to))
  PROVE  Leads(db, line)
<1> DEFINE set == {r \in Cash!UncategorizedRows(db, from, to) : r.cat \notin Cash!Blank}
<1>1. PICK r \in set : line = [rows |-> {s \in set : s.cat = r.cat},
                               link |-> [Cash!BankQuery(from, to) EXCEPT !.cat = r.cat]]
  BY DEF Cash!ByCategory
<1>2. r.cat # Null /\ r.cat \notin Cash!Blank /\ Cash!Uncategorized(r)
  BY DEF Cash!Blank, Cash!UncategorizedRows
<1>3. \A s : s.cat = r.cat => Cash!Uncategorized(s)
  BY <1>2 DEF Cash!Uncategorized
<1>4. {s \in set : s.cat = r.cat}
        = {s \in db.rows : Cash!InRange(s, from, to) /\ Cash!Included(s) /\ Cash!ScopeOf(db, s) = "bank"
                             /\ s.cat = r.cat}
  BY <1>2, <1>3 DEF Cash!UncategorizedRows
<1> HIDE DEF set
<1>5. Cash!Listed(db, line.link)
        = {s \in db.rows : Cash!InRange(s, from, to) /\ Cash!Included(s) /\ Cash!ScopeOf(db, s) = "bank"
                             /\ s.cat = r.cat}
  BY <1>1, <1>2, BankLists
<1> QED
  BY <1>1, <1>4, <1>5 DEF Leads

\* What was bought, over every account.
LEMMA BoughtLinesLead ==
  ASSUME CashConstants, NEW db, CashTables(db), NEW from \in Int, NEW to \in Int,
         NEW line \in Cash!ByCategory(Cash!Bought(db, from, to), Cash!DetailQuery(from, to))
                        \cup Cash!GiftLines(Cash!Bought(db, from, to), "debit", Cash!DetailQuery(from, to))
  PROVE  Leads(db, line)
<1> DEFINE set == Cash!Bought(db, from, to)
           all == {s \in db.rows : Cash!InRange(s, from, to) /\ Cash!Rupees(s) /\ Cash!Included(s)}
<1>1. set = {s \in all : Cash!BucketForSlug(s.cat, Null, s.dir) = "expense"}
  BY DEF Cash!Bought
<1>2. CASE line \in Cash!ByCategory(set, Cash!DetailQuery(from, to))
  <2>1. PICK r \in set : /\ r.cat # "gift"
                         /\ line = [rows |-> {s \in set : s.cat = r.cat},
                                    link |-> [Cash!DetailQuery(from, to) EXCEPT !.cat = r.cat]]
    BY <1>2 DEF Cash!ByCategory
  <2>2. Cash!BucketForSlug(r.cat, Null, r.dir) = "expense"
    BY <1>1
  <2>3. r.cat \notin Cash!Blank
    BY <2>2, BucketNamed
  <2>4. r.cat # Null
    BY <2>3 DEF Cash!Blank
  <2>5. \A s : s.cat = r.cat => Cash!BucketForSlug(s.cat, Null, s.dir) = "expense"
    BY <2>1, <2>2, BucketAnyWay
  <2>6. {s \in set : s.cat = r.cat} = {s \in all : s.cat = r.cat}
    BY <1>1, <2>5
  <2>7. Cash!Listed(db, line.link)
          = {s \in db.rows : Cash!InRange(s, from, to) /\ Cash!Rupees(s) /\ Cash!Included(s) /\ s.cat = r.cat}
    BY <2>1, <2>4, DetailLists
  <2> QED
    BY <2>1, <2>6, <2>7 DEF Leads
<1>3. CASE line \in Cash!GiftLines(set, "debit", Cash!DetailQuery(from, to))
  <2>1. line = [rows |-> {s \in set : s.cat = "gift"},
                link |-> [Cash!DetailQuery(from, to) EXCEPT !.cat = "gift", !.dir = "debit"]]
    BY <1>3 DEF Cash!GiftLines
  <2>2. \A s \in all : s.dir \in {"credit", "debit"}
    BY DEF CashTables
  <2>3. \A s \in all : s.cat = "gift" => (Cash!BucketForSlug(s.cat, Null, s.dir) = "expense" <=> s.dir = "debit")
    BY <2>2, BucketOfGift
  <2>4. {s \in set : s.cat = "gift"} = {s \in all : s.cat = "gift" /\ s.dir = "debit"}
    BY <1>1, <2>3
  <2>5. "gift" # Null
    BY Filters
  <2>6. Cash!Listed(db, line.link)
          = {s \in db.rows : Cash!InRange(s, from, to) /\ Cash!Rupees(s) /\ Cash!Included(s)
                               /\ s.cat = "gift" /\ s.dir = "debit"}
    <3>1. line.link = OneWay(Cash!DetailQuery(from, to), "gift", "debit")
      BY <2>1 DEF OneWay
    <3> QED
      BY <2>5, <3>1, DetailListsDirection
  <2> QED
    BY <2>1, <2>4, <2>6 DEF Leads
<1> QED
  BY <1>2, <1>3

\* The lines that are alone of their kind.
OtherLines(db, from, to) ==
  {[rows |-> {r \in Cash!UncategorizedRows(db, from, to) : r.cat \in Cash!Blank},
    link |-> [Cash!BankQuery(from, to) EXCEPT !.noCategory = TRUE]],
   [rows |-> Cash!UncategorizedRows(db, from, to), link |-> [Cash!BankQuery(from, to) EXCEPT !.uncategorized = TRUE]],
   [rows |-> Cash!InternalRows(db, from, to), link |-> [Cash!BankQuery(from, to) EXCEPT !.internal = TRUE]],
   [rows |-> Cash!ForeignRows(db, from, to), link |-> [Cash!BankQuery(from, to) EXCEPT !.rupees = FALSE]],
   [rows |-> Cash!UndatedRows(db), link |-> [Cash!AnyRow EXCEPT !.undated = TRUE]],
   [rows |-> Cash!FamilyRows(db, from, to),
    link |-> [Cash!RangeQuery(from, to) EXCEPT !.cat = "family", !.excluded = FALSE]],
   [rows |-> Cash!UnaccountedRows(db, from, to),
    link |-> [Cash!RangeQuery(from, to) EXCEPT !.scope = "unaccounted", !.excluded = FALSE]],
   [rows |-> Cash!ExcludedRows(db, from, to), link |-> [Cash!RangeQuery(from, to) EXCEPT !.excluded = TRUE]]}

\* Each of them leads to its rows.
LEMMA OtherLinesLead ==
  ASSUME CashConstants, NEW db, CashTables(db), NEW from \in Int, NEW to \in Int,
         NEW line \in OtherLines(db, from, to)
  PROVE  Leads(db, line)
<1>1. CASE line = [rows |-> {r \in Cash!UncategorizedRows(db, from, to) : r.cat \in Cash!Blank},
            link |-> [Cash!BankQuery(from, to) EXCEPT !.noCategory = TRUE]]
  BY <1>1, BlankLists DEF Leads
<1>2. CASE line = [rows |-> Cash!UncategorizedRows(db, from, to),
            link |-> [Cash!BankQuery(from, to) EXCEPT !.uncategorized = TRUE]]
  BY <1>2, UncategorizedLists DEF Leads
<1>3. CASE line = [rows |-> Cash!InternalRows(db, from, to),
            link |-> [Cash!BankQuery(from, to) EXCEPT !.internal = TRUE]]
  BY <1>3, InternalLists DEF Leads
<1>4. CASE line = [rows |-> Cash!ForeignRows(db, from, to),
            link |-> [Cash!BankQuery(from, to) EXCEPT !.rupees = FALSE]]
  BY <1>4, ForeignLists DEF Leads
<1>5. CASE line = [rows |-> Cash!UndatedRows(db),
            link |-> [Cash!AnyRow EXCEPT !.undated = TRUE]]
  BY <1>5, UndatedLists DEF Leads
<1>6. CASE line = [rows |-> Cash!FamilyRows(db, from, to),
            link |-> [Cash!RangeQuery(from, to) EXCEPT !.cat = "family", !.excluded = FALSE]]
  BY <1>6, FamilyLists DEF Leads
<1>7. CASE line = [rows |-> Cash!UnaccountedRows(db, from, to),
            link |-> [Cash!RangeQuery(from, to) EXCEPT !.scope = "unaccounted", !.excluded = FALSE]]
  BY <1>7, UnaccountedLists DEF Leads
<1>8. CASE line = [rows |-> Cash!ExcludedRows(db, from, to),
            link |-> [Cash!RangeQuery(from, to) EXCEPT !.excluded = TRUE]]
  BY <1>8, ExcludedLists DEF Leads
<1> QED
  BY <1>1, <1>2, <1>3, <1>4, <1>5, <1>6, <1>7, <1>8 DEF OtherLines

\* And so does every line of the page.
LEMMA LinesAlwaysLead ==
  ASSUME CashConstants, NEW db, CashTables(db), NEW from \in Int, NEW to \in Int
  PROVE  Cash!LinesLeadToTheirRows(db, from, to)
<1> SUFFICES ASSUME NEW line \in Cash!Lines(db, from, to) PROVE Leads(db, line)
  BY DEF Cash!LinesLeadToTheirRows, Leads
<1> DEFINE core   == Cash!CoreQuery(from, to)
           gains  == Cash!InBucket(db, from, to, "income")
           spend  == Cash!InBucket(db, from, to, "expense")
           moved  == Cash!InBucket(db, from, to, "investment")
           backed == Cash!TransfersIn(db, from, to)
           bought == Cash!Bought(db, from, to)
<1>1. \/ line \in Cash!ByCategory(gains, core)
      \/ line \in Cash!GiftLines(gains, "credit", core)
      \/ line \in Cash!ByCategory(spend, core)
      \/ line \in Cash!GiftLines(spend, "debit", core)
      \/ \E r \in moved : line = [rows |-> {s \in moved : s.cat = r.cat /\ s.dir = r.dir},
                                  link |-> [core EXCEPT !.cat = r.cat, !.dir = r.dir]]
      \/ \E r \in backed : line = [rows |-> {s \in backed : s.party = r.party},
                                   link |-> [core EXCEPT !.cat = "repayment",
                                               !.party = IF r.party = Null THEN "" ELSE r.party]]
      \/ line \in Cash!ByCategory({r \in Cash!UncategorizedRows(db, from, to) : r.cat \notin Cash!Blank},
                                  Cash!BankQuery(from, to))
      \/ line \in Cash!ByCategory(bought, Cash!DetailQuery(from, to))
                    \cup Cash!GiftLines(bought, "debit", Cash!DetailQuery(from, to))
      \/ line \in OtherLines(db, from, to)
  BY DEF Cash!Lines, OtherLines
<1>2. CASE line \in Cash!ByCategory(gains, core)
  BY <1>2, CategoryLinesLead
<1>3. CASE line \in Cash!GiftLines(gains, "credit", core)
  BY <1>3, GiftLinesLead
<1>4. CASE line \in Cash!ByCategory(spend, core)
  BY <1>4, CategoryLinesLead
<1>5. CASE line \in Cash!GiftLines(spend, "debit", core)
  BY <1>5, GiftLinesLead
<1>6. CASE \E r \in moved : line = [rows |-> {s \in moved : s.cat = r.cat /\ s.dir = r.dir},
                                    link |-> [core EXCEPT !.cat = r.cat, !.dir = r.dir]]
  BY <1>6, InvestmentLinesLead
<1>7. CASE \E r \in backed : line = [rows |-> {s \in backed : s.party = r.party},
                                     link |-> [core EXCEPT !.cat = "repayment",
                                                 !.party = IF r.party = Null THEN "" ELSE r.party]]
  BY <1>7, RepaymentLinesLead
<1> QED
  BY <1>1, <1>2, <1>3, <1>4, <1>5, <1>6, <1>7, UnknownLinesLead, BoughtLinesLead, OtherLinesLead

\* The figures of the cash report agree with each other, for any rows: each line
\* leads to the rows it counts, a month of the trend is the summary of its range,
\* and the bridge leaves open what its accounts leave open, whatever balances they
\* have (services/cashflow).
THEOREM CashFiguresAgree ==
  ASSUME CashConstants, NEW db, CashTables(db), NEW from \in Int, NEW to \in Int
  PROVE  /\ Cash!LinesLeadToTheirRows(db, from, to)
         /\ \A months \in Nat \ {0}, current \in Int : Cash!TrendIsSummary(db, months, current)
         /\ (\A a \in Cash!KnownAccounts(db) : /\ Cash!BalanceAt(db, a, to) \in Int
                                               /\ Cash!BalanceAt(db, a, from - 1) \in Int)
              => Cash!BridgeAddsUp(db, from, to)
BY LinesAlwaysLead, TrendAlwaysSummary, BridgeAlwaysAddsUp
=============================================================================
