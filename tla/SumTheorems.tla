---------------------------- MODULE SumTheorems ----------------------------
(***************************************************************************)
(* What Sum computes, for every list of amounts.  The provers cannot       *)
(* instantiate the induction theorems of the library (they take an         *)
(* operator), so induction is restated here over a SET of naturals and     *)
(* derived from the well-foundedness of strict inclusion on finite sets.   *)
(***************************************************************************)
EXTENDS Sums, Sequences, FiniteSetTheorems, WellFoundedInduction, TLAPS

(* Every inhabited set of naturals has a least element. *)
LEMMA LeastNat ==
  ASSUME NEW T \in SUBSET Nat, T # {}
  PROVE  \E x \in T : \A y \in T : x <= y
<1> DEFINE D == {0..n : n \in T}
<1>1. ASSUME NEW n \in Nat PROVE 0..n \in FiniteSubsetsOf(Nat)
  <2>1. IsFiniteSet(0..n)  BY FS_Interval
  <2>2. 0..n \in SUBSET Nat  OBVIOUS
  <2> QED BY <2>1, <2>2 DEF FiniteSubsetsOf
<1>2. D \subseteq FiniteSubsetsOf(Nat)
  BY <1>1
<1>3. D # {}
  OBVIOUS
<1>4. PICK d \in D : \A e \in D : ~(<<e, d>> \in StrictSubsetOrdering(Nat))
  <2> HIDE DEF D
  <2> QED BY <1>2, <1>3, FS_StrictSubsetOrderingWellFounded, WFMin
<1>5. PICK x \in T : d = 0..x
  OBVIOUS
<1>6. ASSUME NEW y \in T, y < x PROVE FALSE
  <2>1. 0..y \in D /\ 0..y \in SUBSET Nat /\ 0..x \in SUBSET Nat
    OBVIOUS
  <2>2. 0..y \subseteq 0..x /\ x \notin 0..y /\ x \in 0..x
    BY <1>6
  <2>3. <<0..y, 0..x>> \in StrictSubsetOrdering(Nat)
    BY <2>1, <2>2 DEF StrictSubsetOrdering
  <2> QED BY <2>1, <2>3, <1>4, <1>5
<1> QED BY <1>6

(* Induction: a set of naturals with 0 and closed under successor is Nat. *)
LEMMA SetInduction ==
  ASSUME NEW S \in SUBSET Nat, 0 \in S, \A n \in S : n + 1 \in S
  PROVE  S = Nat
<1>1. SUFFICES ASSUME Nat \ S # {} PROVE FALSE
  OBVIOUS
<1>2. PICK x \in Nat \ S : \A y \in Nat \ S : x <= y
  BY <1>1, LeastNat
<1>3. x # 0 /\ x - 1 \in Nat /\ x - 1 \in S
  BY <1>2
<1> QED BY <1>2, <1>3

-----------------------------------------------------------------------------
IsSum(s, f, k) == s = [i \in 0..k |-> IF i = 0 THEN 0 ELSE s[i-1] + f[i]]

(* The recursion that defines Sum has a solution for every length. *)
LEMMA SumExists ==
  ASSUME NEW f, NEW k \in Nat
  PROVE  \E s : IsSum(s, f, k)
<1> DEFINE S == {n \in Nat : \E s : IsSum(s, f, n)}
<1>1. 0 \in S
  <2>1. IsSum([i \in 0..0 |-> 0], f, 0)  BY DEF IsSum
  <2> QED BY <2>1
<1>2. ASSUME NEW n \in S PROVE n + 1 \in S
  <2>1. PICK s : IsSum(s, f, n)  BY <1>2
  <2> DEFINE t == [i \in 0..(n+1) |-> IF i = n + 1 THEN s[n] + f[i] ELSE s[i]]
  <2>2. IsSum(t, f, n + 1)
    <3>1. ASSUME NEW i \in 0..(n+1)
          PROVE  t[i] = IF i = 0 THEN 0 ELSE t[i-1] + f[i]
      BY <2>1, n \in Nat DEF IsSum
    <3> QED BY <3>1 DEF IsSum
  <2> QED BY <2>2
<1>3. S = Nat
  <2>1. S \in SUBSET Nat  OBVIOUS
  <2> HIDE DEF S
  <2> QED BY <1>1, <1>2, <2>1, SetInduction
<1> QED BY <1>3

(* Two solutions agree on their common prefix. *)
LEMMA SumUnique ==
  ASSUME NEW f, NEW j \in Nat, NEW k \in Nat, NEW s, NEW t,
         IsSum(s, f, j), IsSum(t, f, k)
  PROVE  \A i \in Nat : i <= j /\ i <= k => s[i] = t[i]
<1> DEFINE S == {n \in Nat : n <= j /\ n <= k => s[n] = t[n]}
<1>1. 0 \in S
  BY DEF IsSum
<1>2. ASSUME NEW n \in S PROVE n + 1 \in S
  <2>1. SUFFICES ASSUME n + 1 <= j, n + 1 <= k PROVE s[n+1] = t[n+1]
    OBVIOUS
  <2>2. s[n] = t[n]
    BY <2>1
  <2>3. s[n+1] = s[n] + f[n+1]
    BY <2>1, n + 1 \in 0..j, n + 1 # 0, (n + 1) - 1 = n DEF IsSum
  <2>4. t[n+1] = t[n] + f[n+1]
    BY <2>1, n + 1 \in 0..k, n + 1 # 0, (n + 1) - 1 = n DEF IsSum
  <2> QED BY <2>2, <2>3, <2>4
<1>3. S = Nat
  <2>1. S \in SUBSET Nat  OBVIOUS
  <2> HIDE DEF S
  <2> QED BY <1>1, <1>2, <2>1, SetInduction
<1> QED BY <1>3

(* The value of Sum is the last entry of any solution. *)
LEMMA SumValue ==
  ASSUME NEW f, NEW k \in Nat, NEW s, IsSum(s, f, k)
  PROVE  Sum(f, k) = s[k]
<1> DEFINE c == CHOOSE t : IsSum(t, f, k)
<1>1. IsSum(c, f, k)
  BY SumExists
<1>2. Sum(f, k) = c[k]
  BY DEF Sum, IsSum
<1>3. c[k] = s[k]
  <2> HIDE DEF c
  <2> QED BY <1>1, SumUnique
<1> QED BY <1>2, <1>3

(* The two recursion equations. *)
LEMMA SumZero == \A f : Sum(f, 0) = 0
<1> SUFFICES ASSUME NEW f PROVE Sum(f, 0) = 0
  OBVIOUS
<1>1. PICK s : IsSum(s, f, 0)  BY SumExists
<1>2. Sum(f, 0) = s[0]
  BY <1>1, SumValue
<1>3. s[0] = 0
  BY <1>1, 0 \in 0..0 DEF IsSum
<1> QED BY <1>2, <1>3

LEMMA SumStep ==
  ASSUME NEW f, NEW k \in Nat
  PROVE  Sum(f, k + 1) = Sum(f, k) + f[k + 1]
<1>1. PICK s : IsSum(s, f, k + 1)  BY SumExists, k + 1 \in Nat
<1>2. PICK t : IsSum(t, f, k)  BY SumExists
<1>3. s[k] = t[k]
  BY <1>1, <1>2, SumUnique, k + 1 \in Nat
<1>4. s[k+1] = s[k] + f[k+1]
  BY <1>1, k + 1 \in 0..(k+1), k + 1 # 0, (k + 1) - 1 = k DEF IsSum
<1>5. Sum(f, k + 1) = s[k+1] /\ Sum(f, k) = t[k]
  BY <1>1, <1>2, SumValue, k + 1 \in Nat
<1> QED BY <1>3, <1>4, <1>5

-----------------------------------------------------------------------------
(* A sum of naturals is a natural. *)
LEMMA SumNat ==
  ASSUME NEW k \in Nat, NEW f, \A i \in 1..k : f[i] \in Nat
  PROVE  Sum(f, k) \in Nat
<1> DEFINE S == {n \in Nat : n <= k => Sum(f, n) \in Nat}
<1>1. 0 \in S
  BY SumZero
<1>2. ASSUME NEW n \in S PROVE n + 1 \in S
  <2>1. Sum(f, n + 1) = Sum(f, n) + f[n + 1]
    BY SumStep
  <2> QED BY <2>1
<1>3. S = Nat
  <2>1. S \in SUBSET Nat  OBVIOUS
  <2> HIDE DEF S
  <2> QED BY <1>1, <1>2, <2>1, SetInduction
<1> QED BY <1>3

(* Lists that agree have the same sum. *)
LEMMA SumEq ==
  ASSUME NEW k \in Nat, NEW f, NEW g, \A i \in 1..k : f[i] = g[i]
  PROVE  Sum(f, k) = Sum(g, k)
<1> DEFINE S == {n \in Nat : n <= k => Sum(f, n) = Sum(g, n)}
<1>1. 0 \in S
  BY SumZero
<1>2. ASSUME NEW n \in S PROVE n + 1 \in S
  <2>1. SUFFICES ASSUME n + 1 <= k PROVE Sum(f, n + 1) = Sum(g, n + 1)
    OBVIOUS
  <2>2. Sum(f, n + 1) = Sum(f, n) + f[n + 1] /\ Sum(g, n + 1) = Sum(g, n) + g[n + 1]
    BY SumStep
  <2> QED BY <2>1, <2>2
<1>3. S = Nat
  <2>1. S \in SUBSET Nat  OBVIOUS
  <2> HIDE DEF S
  <2> QED BY <1>1, <1>2, <2>1, SetInduction
<1> QED BY <1>3

(* Sums add up: h = f + g entry by entry. *)
LEMMA SumAdd ==
  ASSUME NEW k \in Nat, NEW f, NEW g, NEW h,
         \A i \in 1..k : f[i] \in Nat /\ g[i] \in Nat /\ h[i] = f[i] + g[i]
  PROVE  Sum(h, k) = Sum(f, k) + Sum(g, k)
<1> DEFINE S == {n \in Nat : n <= k => /\ Sum(f, n) \in Nat
                                       /\ Sum(g, n) \in Nat
                                       /\ Sum(h, n) = Sum(f, n) + Sum(g, n)}
<1>1. 0 \in S
  BY SumZero
<1>2. ASSUME NEW n \in S PROVE n + 1 \in S
  <2>2. /\ Sum(f, n + 1) = Sum(f, n) + f[n + 1]
        /\ Sum(g, n + 1) = Sum(g, n) + g[n + 1]
        /\ Sum(h, n + 1) = Sum(h, n) + h[n + 1]
    BY SumStep
  <2> QED BY <2>2
<1>3. S = Nat
  <2>1. S \in SUBSET Nat  OBVIOUS
  <2> HIDE DEF S
  <2> QED BY <1>1, <1>2, <2>1, SetInduction
<1> QED BY <1>3

(* A sum is monotone in every entry. *)
LEMMA SumLe ==
  ASSUME NEW k \in Nat, NEW f, NEW g,
         \A i \in 1..k : f[i] \in Nat /\ g[i] \in Nat /\ f[i] <= g[i]
  PROVE  Sum(f, k) <= Sum(g, k)
<1> DEFINE S == {n \in Nat : n <= k => /\ Sum(f, n) \in Nat
                                       /\ Sum(g, n) \in Nat
                                       /\ Sum(f, n) <= Sum(g, n)}
<1>1. 0 \in S
  BY SumZero
<1>2. ASSUME NEW n \in S PROVE n + 1 \in S
  <2>2. /\ Sum(f, n + 1) = Sum(f, n) + f[n + 1]
        /\ Sum(g, n + 1) = Sum(g, n) + g[n + 1]
    BY SumStep
  <2> QED BY <2>2
<1>3. S = Nat
  <2>1. S \in SUBSET Nat  OBVIOUS
  <2> HIDE DEF S
  <2> QED BY <1>1, <1>2, <2>1, SetInduction
<1> QED BY <1>3

(* A common factor moves out of a sum. *)
LEMMA SumScale ==
  ASSUME NEW k \in Nat, NEW f, NEW g, NEW c \in Nat,
         \A i \in 1..k : f[i] \in Nat /\ g[i] = c * f[i]
  PROVE  Sum(g, k) = c * Sum(f, k)
<1> DEFINE S == {n \in Nat : n <= k => Sum(f, n) \in Nat /\ Sum(g, n) = c * Sum(f, n)}
<1>1. 0 \in S
  BY SumZero
<1>2. ASSUME NEW n \in S PROVE n + 1 \in S
  <2>1. SUFFICES ASSUME n + 1 <= k
                 PROVE Sum(f, n + 1) \in Nat /\ Sum(g, n + 1) = c * Sum(f, n + 1)
    OBVIOUS
  <2>2. /\ Sum(f, n + 1) = Sum(f, n) + f[n + 1]
        /\ Sum(g, n + 1) = Sum(g, n) + g[n + 1]
    BY SumStep
  <2>3. Sum(f, n) \in Nat /\ Sum(g, n) = c * Sum(f, n)
    BY <2>1
  <2>4. f[n + 1] \in Nat /\ g[n + 1] = c * f[n + 1]
    BY <2>1
  <2>5. ASSUME NEW a \in Nat, NEW b \in Nat PROVE c * a + c * b = c * (a + b)
    OBVIOUS
  <2> QED BY <2>2, <2>3, <2>4, <2>5
<1>3. S = Nat
  <2>1. S \in SUBSET Nat  OBVIOUS
  <2> HIDE DEF S
  <2> QED BY <1>1, <1>2, <2>1, SetInduction
<1> QED BY <1>3

(* Changing one entry changes the sum by the difference. *)
LEMMA SumUpdate ==
  ASSUME NEW k \in Nat, NEW f, NEW g, NEW j \in 1..k,
         \A i \in 1..k : f[i] \in Nat /\ g[i] \in Nat,
         \A i \in 1..k : i # j => g[i] = f[i]
  PROVE  Sum(g, k) + f[j] = Sum(f, k) + g[j]
<1> DEFINE S == {n \in Nat : n <= k => /\ Sum(f, n) \in Nat
                                       /\ Sum(g, n) \in Nat
                                       /\ n < j => Sum(g, n) = Sum(f, n)
                                       /\ n >= j => Sum(g, n) + f[j] = Sum(f, n) + g[j]}
<1>1. 0 \in S
  BY SumZero
<1>2. ASSUME NEW n \in S PROVE n + 1 \in S
  <2>1. SUFFICES ASSUME n + 1 <= k
                 PROVE /\ Sum(f, n + 1) \in Nat
                       /\ Sum(g, n + 1) \in Nat
                       /\ n + 1 < j => Sum(g, n + 1) = Sum(f, n + 1)
                       /\ n + 1 >= j => Sum(g, n + 1) + f[j] = Sum(f, n + 1) + g[j]
    OBVIOUS
  <2>2. /\ Sum(f, n + 1) = Sum(f, n) + f[n + 1]
        /\ Sum(g, n + 1) = Sum(g, n) + g[n + 1]
    BY SumStep
  <2>3. n + 1 \in 1..k
    BY <2>1
  <2> QED BY <2>1, <2>2, <2>3
<1>3. S = Nat
  <2>1. S \in SUBSET Nat  OBVIOUS
  <2> HIDE DEF S
  <2> QED BY <1>1, <1>2, <2>1, SetInduction
<1> QED BY <1>3

(* One entry is at most the sum. *)
LEMMA SumMember ==
  ASSUME NEW k \in Nat, NEW f, NEW j \in 1..k, \A i \in 1..k : f[i] \in Nat
  PROVE  f[j] <= Sum(f, k)
<1> DEFINE g == [i \in 1..k |-> IF i = j THEN 0 ELSE f[i]]
<1>1. Sum(g, k) + f[j] = Sum(f, k) + g[j]
  <2>1. \A i \in 1..k : f[i] \in Nat /\ g[i] \in Nat
    OBVIOUS
  <2>2. \A i \in 1..k : i # j => g[i] = f[i]
    OBVIOUS
  <2> HIDE DEF g
  <2> QED BY <2>1, <2>2, SumUpdate
<1>2. Sum(g, k) \in Nat /\ Sum(f, k) \in Nat
  <2>1. \A i \in 1..k : g[i] \in Nat
    OBVIOUS
  <2> HIDE DEF g
  <2> QED BY <2>1, SumNat
<1> QED BY <1>1, <1>2

(* A list of zeros sums to zero. *)
LEMMA SumZeros ==
  ASSUME NEW k \in Nat, NEW f, \A i \in 1..k : f[i] = 0
  PROVE  Sum(f, k) = 0
<1>1. \A i \in 1..k : f[i] \in Nat /\ f[i] = 0 * f[i]
  OBVIOUS
<1>2. Sum(f, k) = 0 * Sum(f, k)
  BY <1>1, SumScale
<1>3. Sum(f, k) \in Nat
  BY <1>1, SumNat
<1> QED BY <1>2, <1>3

(* A list with one entry that is not 0 sums to that entry. *)
LEMMA SumSingle ==
  ASSUME NEW k \in Nat, NEW j \in 1..k, NEW f, NEW x \in Nat,
         \A i \in 1..k : f[i] = IF i = j THEN x ELSE 0
  PROVE  Sum(f, k) = x
<1> DEFINE z == [i \in 1..k |-> 0]
<1>1. \A i \in 1..k : z[i] \in Nat /\ z[i] = z[i] + z[i]
  OBVIOUS
<1>2. z[j] = 0 /\ f[j] = x /\ \A i \in 1..k : i # j => f[i] = z[i]
  OBVIOUS
<1>3. \A i \in 1..k : f[i] \in Nat
  OBVIOUS
<1>4. \A i \in 1..k : z[i] \in Nat /\ f[i] \in Nat
  BY <1>1, <1>3
<1> HIDE DEF z
<1>5. Sum(z, k) = Sum(z, k) + Sum(z, k)
  BY <1>1, SumAdd
<1>6. Sum(z, k) \in Nat
  BY <1>1, SumNat
<1>7. Sum(f, k) \in Nat
  BY <1>3, SumNat
<1>8. \A i \in 1..k : i # j => f[i] = z[i]
  BY <1>2
<1>9. Sum(f, k) + z[j] = Sum(z, k) + f[j]
  BY <1>4, <1>8, SumUpdate
<1>10. Sum(z, k) = 0
  <2>1. \A a \in Nat : a = a + a => a = 0
    OBVIOUS
  <2> QED BY <1>5, <1>6, <2>1
<1>11. z[j] = 0 /\ f[j] = x
  BY <1>2
<1>12. Sum(f, k) + 0 = 0 + x
  BY <1>9, <1>10, <1>11
<1> QED BY <1>7, <1>12

-----------------------------------------------------------------------------
(* Lists and quotients, as the proofs about the settlers use them.         *)

LEMMA FunIsSeq ==
  ASSUME NEW S, NEW n \in Nat, NEW f \in [1..n -> S]
  PROVE  f \in Seq(S) /\ Len(f) = n
OBVIOUS

LEMMA SeqIsFun ==
  ASSUME NEW S, NEW s \in Seq(S)
  PROVE  Len(s) \in Nat /\ s \in [1..Len(s) -> S]
OBVIOUS

LEMMA AppendIsFun ==
  ASSUME NEW S, NEW s \in Seq(S), NEW e \in S
  PROVE  /\ Append(s, e) \in Seq(S)
         /\ Len(Append(s, e)) = Len(s) + 1
         /\ \A i \in 1..Len(s) : Append(s, e)[i] = s[i]
         /\ Append(s, e)[Len(s) + 1] = e
OBVIOUS

LEMMA DivType ==
  ASSUME NEW a \in Nat, NEW b \in Nat, b > 0
  PROVE  a \div b \in Nat /\ b * (a \div b) <= a
OBVIOUS

LEMMA QuotientAtLeast ==
  ASSUME NEW a \in Nat, NEW b \in Nat, b > 0, NEW c \in Nat, b * a <= c
  PROVE  a <= c \div b
OBVIOUS

=============================================================================
