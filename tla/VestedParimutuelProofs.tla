----------------------- MODULE VestedParimutuelProofs -----------------------
(***************************************************************************)
(* What holds of VestedParimutuel for every number of outcomes, scale,     *)
(* width, seed, coefficient, amount and bound: the seed clamp, the types   *)
(* and the ledger of every branch, what an accepted stake can count on,    *)
(* the capacity a vintage is rationed to, the batching rule, where the     *)
(* money of a market is, and that every function is a step of the          *)
(* settlement interface.                                                   *)
(***************************************************************************)
EXTENDS VestedRefinement, SeedRule, SumTheorems

-----------------------------------------------------------------------------
(* What _seedClamp returns, for every number of outcomes, every bound on   *)
(* the passes, every offered seed and every coefficient.                   *)

Legs == [Outcomes -> Nat]
Kappa == Nat \cup {KAPPA_UNBOUNDED}

LEMMA MinNat ==
  ASSUME NEW S \in SUBSET Nat, S # {}
  PROVE  Min(S) \in S /\ \A y \in S : Min(S) <= y
<1>1. \E x \in S : \A y \in S : x =< y
  BY LeastNat
<1> QED BY <1>1 DEF Min

LEMMA TimesType ==
  ASSUME NEW k \in Kappa, NEW x \in Nat
  PROVE  Times(k, x) \in Kappa
BY DEF Times, Kappa, KAPPA_UNBOUNDED

LEMMA CutType ==
  ASSUME NEW x \in Nat, NEW cap \in Kappa
  PROVE  Cut(x, cap) \in Nat /\ Cut(x, cap) <= x
BY DEF Cut, Kappa, KAPPA_UNBOUNDED

LEMMA ClampLegType ==
  ASSUME NEW offered \in Legs, NEW acc \in Legs, NEW o \in Outcomes, NEW k \in Kappa
  PROVE  /\ ClampLeg(offered, acc, o, k) \in Nat
         /\ ClampLeg(offered, acc, o, k) <= offered[o]
<1> DEFINE S == {Cut(offered[o], Times(k, acc[w])) : w \in Outcomes \ {o}}
<1>1. \A w \in Outcomes : /\ Cut(offered[o], Times(k, acc[w])) \in Nat
                          /\ Cut(offered[o], Times(k, acc[w])) <= offered[o]
  BY TimesType, CutType DEF Legs
<1>2. PICK w \in Outcomes : w # o
  BY SizeAssumption, 1 \in Outcomes, 2 \in Outcomes DEF Outcomes
<1>3. S # {} /\ S \in SUBSET Nat
  BY <1>1, <1>2
<1>4. Min(S) \in S
  <2> HIDE DEF S
  <2> QED BY <1>3, MinNat
<1> QED BY <1>1, <1>4 DEF ClampLeg

(* s lists the iterates of step from d: s[0] = d, s[i] = step[i][s[i-1]]. *)
IsIter(s, d, step, k) == s = [i \in 0..k |-> IF i = 0 THEN d ELSE step[i][s[i-1]]]

(* Iterating a total step over a domain: a solution exists and stays in it. *)
LEMMA IterExists ==
  ASSUME NEW D, NEW d \in D, NEW step \in [Nat -> [D -> D]], NEW k \in Nat
  PROVE  \E s : IsIter(s, d, step, k)
<1> DEFINE S == {m \in Nat : \E s : IsIter(s, d, step, m)}
<1>1. 0 \in S
  <2>1. IsIter([i \in 0..0 |-> d], d, step, 0)  BY DEF IsIter
  <2> QED BY <2>1
<1>2. ASSUME NEW n \in S PROVE n + 1 \in S
  <2>1. PICK s : IsIter(s, d, step, n)  BY <1>2
  <2> DEFINE t == [i \in 0..(n+1) |-> IF i = n + 1 THEN step[i][s[n]] ELSE s[i]]
  <2>2. IsIter(t, d, step, n + 1)
    <3>1. ASSUME NEW i \in 0..(n+1)
          PROVE  t[i] = IF i = 0 THEN d ELSE step[i][t[i-1]]
      <4>1. CASE i \in 0..n
        <5>1. t[i] = s[i] /\ (i # 0 => t[i-1] = s[i-1])
          BY <4>1, n \in Nat
        <5>2. s[i] = IF i = 0 THEN d ELSE step[i][s[i-1]]
          BY <2>1, <4>1 DEF IsIter
        <5> QED BY <5>1, <5>2
      <4>2. CASE i = n + 1
        <5>1. i # 0 /\ i - 1 = n /\ n \in 0..(n+1) /\ n # n + 1 /\ n \in Nat
          BY <4>2, n \in Nat
        <5>2. t[i] = step[i][s[n]] /\ t[n] = s[n]
          BY <4>2, <5>1
        <5> QED BY <5>1, <5>2
      <4> QED BY <4>1, <4>2, n \in Nat
    <3> QED BY <3>1 DEF IsIter
  <2> QED BY <2>2
<1>3. S = Nat
  <2>1. S \in SUBSET Nat  OBVIOUS
  <2> HIDE DEF S
  <2> QED BY <1>1, <1>2, <2>1, SetInduction
<1> QED BY <1>3

LEMMA IterType ==
  ASSUME NEW D, NEW d \in D, NEW step \in [Nat -> [D -> D]], NEW k \in Nat, NEW s,
         IsIter(s, d, step, k)
  PROVE  \A i \in 0..k : s[i] \in D
<1> DEFINE S == {m \in Nat : m <= k => s[m] \in D}
<1>1. 0 \in S
  BY DEF IsIter
<1>2. ASSUME NEW n \in S PROVE n + 1 \in S
  <2>1. SUFFICES ASSUME n + 1 <= k PROVE s[n+1] \in D
    OBVIOUS
  <2>2. s[n+1] = step[n+1][s[n]]
    BY <2>1, n + 1 \in 0..k, n + 1 # 0, (n + 1) - 1 = n DEF IsIter
  <2>3. s[n] \in D
    BY <2>1
  <2> QED BY <2>2, <2>3
<1>3. S = Nat
  <2>1. S \in SUBSET Nat  OBVIOUS
  <2> HIDE DEF S
  <2> QED BY <1>1, <1>2, <2>1, SetInduction
<1> QED BY <1>3

(* The legs while one pass runs: leg[o] is the vector once o legs are updated. *)
IsPass(leg, offered, acc, k) ==
  leg = [o \in 0..N |-> IF o = 0 THEN acc
           ELSE [leg[o-1] EXCEPT ![o] = ClampLeg(offered, leg[o-1], o, k)]]

LEMMA PassSteps ==
  ASSUME NEW offered \in Legs, NEW acc \in Legs, NEW k \in Kappa, NEW leg,
         IsPass(leg, offered, acc, k)
  PROVE  \A o \in 0..N : leg[o] \in Legs
<1> DEFINE S == {m \in Nat : m <= N => leg[m] \in Legs}
<1>1. 0 \in S
  BY SizeAssumption DEF IsPass
<1>2. ASSUME NEW n \in S PROVE n + 1 \in S
  <2>1. SUFFICES ASSUME n + 1 <= N PROVE leg[n+1] \in Legs
    OBVIOUS
  <2>2. leg[n+1] = [leg[n] EXCEPT ![n+1] = ClampLeg(offered, leg[n], n+1, k)]
    BY <2>1, n + 1 \in 0..N, n + 1 # 0, (n + 1) - 1 = n, SizeAssumption DEF IsPass
  <2>3. leg[n] \in Legs /\ n + 1 \in Outcomes
    BY <2>1, SizeAssumption DEF Outcomes
  <2>4. ClampLeg(offered, leg[n], n + 1, k) \in Nat
    BY <2>3, ClampLegType
  <2> QED BY <2>2, <2>3, <2>4 DEF Legs
<1>3. S = Nat
  <2>1. S \in SUBSET Nat  OBVIOUS
  <2> HIDE DEF S
  <2> QED BY <1>1, <1>2, <2>1, SetInduction
<1> QED BY <1>3, SizeAssumption

LEMMA PassExists ==
  ASSUME NEW offered \in Legs, NEW acc \in Legs, NEW k \in Kappa
  PROVE  \E leg : IsPass(leg, offered, acc, k)
<1> DEFINE step == [o \in Nat |-> [a \in Legs |->
                      IF o \in Outcomes THEN [a EXCEPT ![o] = ClampLeg(offered, a, o, k)]
                                        ELSE a]]
<1>1. step \in [Nat -> [Legs -> Legs]]
  <2>1. ASSUME NEW o \in Outcomes, NEW a \in Legs
        PROVE  [a EXCEPT ![o] = ClampLeg(offered, a, o, k)] \in Legs
    BY ClampLegType DEF Legs
  <2> QED BY <2>1
<1>2. PICK s : IsIter(s, acc, step, N)
  <2> HIDE DEF step
  <2> QED BY <1>1, IterExists, SizeAssumption
<1>3. \A o \in 0..N : s[o] \in Legs
  <2> HIDE DEF step
  <2> QED BY <1>1, <1>2, IterType, SizeAssumption
<1>4. ASSUME NEW o \in 0..N
      PROVE  s[o] = IF o = 0 THEN acc
                    ELSE [s[o-1] EXCEPT ![o] = ClampLeg(offered, s[o-1], o, k)]
  <2>1. CASE o = 0
    BY <1>2, <2>1, SizeAssumption DEF IsIter
  <2>2. CASE o # 0
    <3>1. s[o] = step[o][s[o-1]]
      <4> HIDE DEF step
      <4> QED BY <1>2, <2>2, SizeAssumption DEF IsIter
    <3>2. s[o-1] \in Legs /\ o \in Outcomes /\ o \in Nat
      BY <1>3, <2>2, SizeAssumption DEF Outcomes
    <3> QED BY <2>2, <3>1, <3>2
  <2> QED BY <2>1, <2>2
<1> DEFINE t == [o \in 0..N |-> s[o]]
<1>5. t = s
  BY <1>2 DEF IsIter
<1>6. IsPass(s, offered, acc, k)
  BY <1>4, <1>5 DEF IsPass
<1> QED BY <1>6

LEMMA ClampPassType ==
  ASSUME NEW offered \in Legs, NEW acc \in Legs, NEW k \in Kappa
  PROVE  ClampPass(offered, acc, k) \in Legs
<1> DEFINE leg == CHOOSE s : IsPass(s, offered, acc, k)
<1>1. IsPass(leg, offered, acc, k)
  BY PassExists
<1>2. ClampPass(offered, acc, k) = leg[N]
  BY DEF ClampPass, IsPass
<1>3. leg[N] \in Legs
  <2> HIDE DEF leg
  <2> QED BY <1>1, PassSteps, SizeAssumption
<1> QED BY <1>2, <1>3

IsClamp(pass, offered, k, p) ==
  pass = [i \in 0..p |-> IF i = 0 THEN offered ELSE ClampPass(offered, pass[i-1], k)]

LEMMA ClampExists ==
  ASSUME NEW offered \in Legs, NEW k \in Kappa, NEW p \in Nat
  PROVE  \E pass : IsClamp(pass, offered, k, p)
<1> DEFINE step == [i \in Nat |-> [a \in Legs |-> ClampPass(offered, a, k)]]
<1>1. step \in [Nat -> [Legs -> Legs]]
  BY ClampPassType
<1>2. ASSUME NEW s, IsIter(s, offered, step, p) PROVE IsClamp(s, offered, k, p)
  <2>1. \A i \in 0..p : s[i] \in Legs
    <3> HIDE DEF step
    <3> QED BY <1>1, <1>2, IterType
  <2>2. ASSUME NEW i \in 0..p
        PROVE  s[i] = IF i = 0 THEN offered ELSE ClampPass(offered, s[i-1], k)
    <3>1. CASE i = 0
      BY <1>2, <3>1 DEF IsIter
    <3>2. CASE i # 0
      <4>1. s[i] = step[i][s[i-1]]
        <5> HIDE DEF step
        <5> QED BY <1>2, <3>2 DEF IsIter
      <4> QED BY <2>1, <3>2, <4>1
    <3> QED BY <3>1, <3>2
  <2>3. s = [i \in 0..p |-> s[i]]
    BY <1>2 DEF IsIter
  <2> QED BY <2>2, <2>3 DEF IsClamp
<1>3. \E s : IsIter(s, offered, step, p)
  <2> HIDE DEF step
  <2> QED BY <1>1, IterExists
<1> QED BY <1>2, <1>3

(* The legs after p passes are the last of a list of passes. *)
LEMMA ClampIsLast ==
  ASSUME NEW offered \in Legs, NEW k \in Kappa, NEW p \in Nat
  PROVE  \E pass : IsClamp(pass, offered, k, p) /\ ClampAfter(offered, k, p) = pass[p]
<1> DEFINE pass == CHOOSE s : IsClamp(s, offered, k, p)
<1>1. IsClamp(pass, offered, k, p)
  BY ClampExists
<1>2. ClampAfter(offered, k, p) = pass[p]
  BY DEF ClampAfter, IsClamp
<1> QED BY <1>1, <1>2

LEMMA ClampStep ==
  ASSUME NEW offered, NEW k, NEW p \in Nat, NEW pass, IsClamp(pass, offered, k, p)
  PROVE  /\ pass[0] = offered
         /\ \A i \in Nat : i + 1 <= p => pass[i+1] = ClampPass(offered, pass[i], k)
<1>1. pass[0] = offered
  BY 0 \in 0..p DEF IsClamp
<1>2. ASSUME NEW i \in Nat, i + 1 <= p PROVE pass[i+1] = ClampPass(offered, pass[i], k)
  BY <1>2, i + 1 \in 0..p, i + 1 # 0, (i + 1) - 1 = i DEF IsClamp
<1> QED BY <1>1, <1>2

(* The legs after any number of passes are natural numbers, outcome by outcome. *)
LEMMA ClampAfterType ==
  ASSUME NEW offered \in Legs, NEW k \in Kappa, NEW p \in Nat
  PROVE  ClampAfter(offered, k, p) \in Legs
<1>1. PICK pass : IsClamp(pass, offered, k, p) /\ ClampAfter(offered, k, p) = pass[p]
  BY ClampIsLast
<1> DEFINE S == {m \in Nat : m <= p => pass[m] \in Legs}
<1>2. 0 \in S
  BY <1>1, ClampStep
<1>3. ASSUME NEW n \in S PROVE n + 1 \in S
  <2>1. SUFFICES ASSUME n + 1 <= p PROVE pass[n+1] \in Legs
    OBVIOUS
  <2>2. pass[n+1] = ClampPass(offered, pass[n], k)
    BY <1>1, <1>3, <2>1, ClampStep
  <2>3. pass[n] \in Legs
    BY <1>3, <2>1
  <2> QED BY <2>2, <2>3, ClampPassType
<1>4. S = Nat
  <2>1. S \in SUBSET Nat  OBVIOUS
  <2> HIDE DEF S
  <2> QED BY <1>2, <1>3, <2>1, SetInduction
<1> QED BY <1>1, <1>4

LEMMA SeedClampType ==
  ASSUME NEW offered \in Legs, NEW k \in Kappa
  PROVE  SeedClamp(offered, k) \in Legs
BY ClampAfterType, PassAssumption DEF SeedClamp

(* The least leg of a vector, and the vector the clamp finds: every leg cut to
   kappa times the least. *)
LeastLeg(legs) == Min({legs[w] : w \in Outcomes})
Clamped(offered, k) == [o \in Outcomes |-> Cut(offered[o], Times(k, LeastLeg(offered)))]

LEMMA TimesMonotone ==
  ASSUME NEW k \in Nat, NEW m \in Nat, NEW y \in Nat, m <= y
  PROVE  k * m <= k * y
<1>1. PICK d \in Nat : y = m + d
  BY y - m \in Nat, y = m + (y - m)
<1>2. k * y = k * m + k * d
  BY <1>1
<1>3. k * d \in Nat /\ k * m \in Nat /\ k * y \in Nat
  OBVIOUS
<1> QED BY <1>2, <1>3

(* A larger leg allows at least as much. *)
LEMMA CutMonotone ==
  ASSUME NEW k \in Kappa, NEW x \in Nat, NEW m \in Nat, NEW y \in Nat, m <= y
  PROVE  Cut(x, Times(k, m)) <= Cut(x, Times(k, y))
<1>1. CASE k = KAPPA_UNBOUNDED
  BY <1>1 DEF Cut, Times, KAPPA_UNBOUNDED
<1>2. CASE k \in Nat
  <2>1. k * m <= k * y /\ k * m \in Nat /\ k * y \in Nat
    BY <1>2, TimesMonotone
  <2>2. Times(k, m) = k * m /\ Times(k, y) = k * y
    BY <1>2 DEF Times, KAPPA_UNBOUNDED
  <2> QED BY <2>1, <2>2 DEF Cut, KAPPA_UNBOUNDED
<1> QED BY <1>1, <1>2 DEF Kappa

LEMMA CutGrows ==
  ASSUME NEW cap \in Kappa, NEW x \in Nat, NEW y \in Nat, x <= y
  PROVE  Cut(x, cap) <= Cut(y, cap)
BY DEF Cut, Kappa, KAPPA_UNBOUNDED

LEMMA CutTwice ==
  ASSUME NEW cap \in Kappa, NEW x \in Nat
  PROVE  Cut(Cut(x, cap), cap) = Cut(x, cap)
BY DEF Cut, Kappa, KAPPA_UNBOUNDED

(* A coefficient of at least one never cuts a leg below another it is cut to. *)
LEMMA CutAbove ==
  ASSUME NEW k \in Kappa, k # 0, NEW x \in Nat, NEW m \in Nat, m <= x
  PROVE  m <= Cut(x, Times(k, m))
<1>1. CASE k = KAPPA_UNBOUNDED
  BY <1>1 DEF Cut, Times, KAPPA_UNBOUNDED
<1>2. CASE k \in Nat
  <2>1. 1 * m <= k * m
    BY <1>2, TimesMonotone, m * 1 <= m * k, 1 <= k
  <2>2. Times(k, m) = k * m /\ k * m \in Nat
    BY <1>2 DEF Times, KAPPA_UNBOUNDED
  <2> QED BY <2>1, <2>2 DEF Cut, KAPPA_UNBOUNDED
<1> QED BY <1>1, <1>2 DEF Kappa

LEMMA CutToNothing ==
  ASSUME NEW x \in Nat, NEW y \in Nat
  PROVE  Cut(x, Times(0, y)) = 0
BY DEF Cut, Times, KAPPA_UNBOUNDED

LEMMA LeastLegIs ==
  ASSUME NEW legs \in Legs
  PROVE  /\ LeastLeg(legs) \in Nat
         /\ \A w \in Outcomes : LeastLeg(legs) <= legs[w]
         /\ \E w \in Outcomes : LeastLeg(legs) = legs[w]
<1> DEFINE S == {legs[w] : w \in Outcomes}
<1>1. S \in SUBSET Nat /\ S # {}
  BY SizeAssumption, 1 \in Outcomes DEF Legs, Outcomes
<1>2. Min(S) \in S /\ \A y \in S : Min(S) <= y
  <2> HIDE DEF S
  <2> QED BY <1>1, MinNat
<1> QED BY <1>1, <1>2 DEF LeastLeg

LEMMA AnotherOutcome ==
  ASSUME NEW o \in Outcomes
  PROVE  \E w \in Outcomes : w # o
BY SizeAssumption, 1 \in Outcomes, 2 \in Outcomes DEF Outcomes

LEMMA ClampedType ==
  ASSUME NEW offered \in Legs, NEW k \in Kappa
  PROVE  /\ Clamped(offered, k) \in Legs
         /\ \A o \in Outcomes : Clamped(offered, k)[o] <= offered[o]
         /\ k # 0 => \A o \in Outcomes : LeastLeg(offered) <= Clamped(offered, k)[o]
         /\ k = 0 => \A o \in Outcomes : Clamped(offered, k)[o] = 0
<1> DEFINE m == LeastLeg(offered)
<1>1. m \in Nat /\ \A o \in Outcomes : m <= offered[o] /\ offered[o] \in Nat
  BY LeastLegIs DEF Legs
<1>2. Times(k, m) \in Kappa
  BY <1>1, TimesType
<1>3. \A o \in Outcomes : Clamped(offered, k)[o] = Cut(offered[o], Times(k, m))
  BY DEF Clamped
<1> HIDE DEF m
<1>4. ASSUME NEW o \in Outcomes
      PROVE  /\ Clamped(offered, k)[o] \in Nat
             /\ Clamped(offered, k)[o] <= offered[o]
             /\ k # 0 => m <= Clamped(offered, k)[o]
             /\ k = 0 => Clamped(offered, k)[o] = 0
  BY <1>1, <1>2, <1>3, CutType, CutAbove, CutToNothing
<1> QED BY <1>4 DEF Clamped, Legs, m

(* A leg updated from a vector in which some legs are clamped already. *)
LEMMA ClampLegIs ==
  ASSUME NEW offered \in Legs, NEW k \in Kappa, NEW acc \in Legs, NEW o \in Outcomes,
         \A w \in Outcomes : acc[w] \in {offered[w], Clamped(offered, k)[w]}
  PROVE  ClampLeg(offered, acc, o, k) = Clamped(offered, k)[o]
<1> DEFINE m == LeastLeg(offered)
           g == Clamped(offered, k)
           C(w) == Cut(offered[o], Times(k, acc[w]))
           S == {C(w) : w \in Outcomes \ {o}}
<1>1. m \in Nat /\ \A w \in Outcomes : m <= offered[w]
  BY LeastLegIs
<1>2. /\ g \in [Outcomes -> Nat]
      /\ \A w \in Outcomes : g[w] <= offered[w]
      /\ k # 0 => \A w \in Outcomes : m <= g[w]
      /\ k = 0 => \A w \in Outcomes : g[w] = 0
  BY ClampedType DEF Legs
<1>3. g[o] = Cut(offered[o], Times(k, m))
  BY DEF Clamped
<1>4. offered \in [Outcomes -> Nat] /\ acc \in [Outcomes -> Nat]
  BY DEF Legs
<1>5. \A w \in Outcomes : C(w) \in Nat
  BY <1>4, TimesType, CutType
<1>6. \A w \in Outcomes : g[o] <= C(w)
  <2> SUFFICES ASSUME NEW w \in Outcomes PROVE g[o] <= C(w)
    OBVIOUS
  <2>1. CASE k = 0
    BY <1>2, <1>5, <2>1
  <2>2. CASE k # 0
    <3>1. m <= acc[w]
      BY <1>1, <1>2, <2>2
    <3> QED BY <1>1, <1>3, <1>4, <3>1, CutMonotone
  <2> QED BY <2>1, <2>2
<1>7. \E w \in Outcomes \ {o} : C(w) = g[o]
  <2>1. CASE k = 0
    <3>1. PICK w \in Outcomes : w # o
      BY AnotherOutcome
    <3>2. C(w) = 0
      BY <1>4, <2>1, CutToNothing
    <3> QED BY <1>2, <2>1, <3>1, <3>2
  <2>2. CASE k # 0 /\ \E j \in Outcomes \ {o} : offered[j] = m
    <3>1. PICK j \in Outcomes \ {o} : offered[j] = m
      BY <2>2
    <3>2. acc[j] = m
      BY <1>1, <1>2, <1>4, <2>2, <3>1
    <3> QED BY <1>3, <3>1, <3>2
  <2>3. CASE k # 0 /\ offered[o] = m
    <3>1. PICK w \in Outcomes : w # o
      BY AnotherOutcome
    <3>2. C(w) <= m
      BY <1>4, <2>3, TimesType, CutType
    <3>3. m <= g[o] /\ g[o] <= C(w)
      BY <1>2, <1>6, <2>3
    <3> QED BY <1>1, <1>2, <1>5, <3>1, <3>2, <3>3
  <2>4. \E j \in Outcomes : offered[j] = m
    BY LeastLegIs
  <2> QED BY <2>1, <2>2, <2>3, <2>4
<1>8. /\ S \in SUBSET Nat /\ S # {}
      /\ g[o] \in S /\ g[o] \in Nat /\ \A y \in S : g[o] <= y
  BY <1>2, <1>5, <1>6, <1>7
<1>9. Min(S) \in S /\ \A y \in S : Min(S) <= y
  <2> HIDE DEF S
  <2> QED BY <1>8, MinNat
<1>10. Min(S) = g[o]
  <2>1. Min(S) \in Nat /\ g[o] <= Min(S) /\ Min(S) <= g[o]
    <3> HIDE DEF S, g
    <3> QED BY <1>8, <1>9
  <2> QED BY <1>8, <2>1
<1> QED BY <1>10 DEF ClampLeg

LEMMA PassStep ==
  ASSUME NEW offered, NEW acc, NEW k, NEW leg, IsPass(leg, offered, acc, k)
  PROVE  \A n \in Nat : n + 1 <= N =>
           leg[n+1] = [leg[n] EXCEPT ![n+1] = ClampLeg(offered, leg[n], n+1, k)]
<1>1. ASSUME NEW n \in Nat, n + 1 <= N
      PROVE  leg[n+1] = [leg[n] EXCEPT ![n+1] = ClampLeg(offered, leg[n], n+1, k)]
  BY <1>1, n + 1 \in 0..N, n + 1 # 0, (n + 1) - 1 = n, SizeAssumption DEF IsPass
<1> QED BY <1>1

(* One pass over such a vector clamps all of it. *)
LEMMA ClampPassIs ==
  ASSUME NEW offered \in Legs, NEW k \in Kappa, NEW acc \in Legs,
         \A w \in Outcomes : acc[w] \in {offered[w], Clamped(offered, k)[w]}
  PROVE  ClampPass(offered, acc, k) = Clamped(offered, k)
<1> DEFINE g == Clamped(offered, k)
           leg == CHOOSE s : IsPass(s, offered, acc, k)
           S == {i \in Nat : i <= N => /\ leg[i] \in Legs
                                       /\ \A w \in Outcomes : leg[i][w] \in {offered[w], g[w]}
                                       /\ \A w \in Outcomes : w <= i => leg[i][w] = g[w]}
<1>1. IsPass(leg, offered, acc, k)
  BY PassExists
<1>2. ClampPass(offered, acc, k) = leg[N]
  BY DEF ClampPass, IsPass
<1> HIDE DEF leg
<1>3. 0 \in S
  <2>1. leg[0] = acc
    BY <1>1, SizeAssumption, 0 \in 0..N DEF IsPass
  <2>2. \A w \in Outcomes : ~(w <= 0)
    BY SizeAssumption DEF Outcomes
  <2> QED BY <2>1, <2>2
<1>4. ASSUME NEW i \in S PROVE i + 1 \in S
  <2> SUFFICES ASSUME i + 1 <= N
               PROVE  /\ leg[i+1] \in Legs
                      /\ \A w \in Outcomes : leg[i+1][w] \in {offered[w], g[w]}
                      /\ \A w \in Outcomes : w <= i + 1 => leg[i+1][w] = g[w]
    OBVIOUS
  <2>1. leg[i+1] = [leg[i] EXCEPT ![i+1] = ClampLeg(offered, leg[i], i+1, k)]
    <3>1. \A n \in Nat : n + 1 <= N =>
            leg[n+1] = [leg[n] EXCEPT ![n+1] = ClampLeg(offered, leg[n], n+1, k)]
      BY <1>1, PassStep
    <3> QED BY <3>1
  <2>2. i + 1 \in Outcomes /\ i \in Nat
    BY SizeAssumption DEF Outcomes
  <2>3. /\ leg[i] \in Legs
        /\ \A w \in Outcomes : leg[i][w] \in {offered[w], g[w]}
        /\ \A w \in Outcomes : w <= i => leg[i][w] = g[w]
    BY <2>2, SizeAssumption
  <2>4. ClampLeg(offered, leg[i], i+1, k) = g[i+1]
    BY <2>2, <2>3, ClampLegIs
  <2>5. g \in Legs
    BY ClampedType
  <2>6. leg[i+1] = [leg[i] EXCEPT ![i+1] = g[i+1]]
    BY <2>1, <2>4
  <2> HIDE DEF g
  <2>7. \A w \in Outcomes : leg[i+1][w] = IF w = i + 1 THEN g[w] ELSE leg[i][w]
    BY <2>2, <2>3, <2>6 DEF Legs
  <2>8. leg[i+1] \in Legs
    BY <2>2, <2>3, <2>5, <2>6 DEF Legs
  <2> QED BY <2>2, <2>3, <2>7, <2>8, SizeAssumption DEF Outcomes
<1>5. S = Nat
  <2>1. S \in SUBSET Nat  OBVIOUS
  <2> HIDE DEF S
  <2> QED BY <1>3, <1>4, <2>1, SetInduction
<1>6. leg[N] \in Legs /\ \A w \in Outcomes : leg[N][w] = g[w]
  BY <1>5, SizeAssumption DEF Outcomes
<1>7. g \in Legs
  BY ClampedType
<1> QED BY <1>2, <1>6, <1>7 DEF Legs

(* From the first pass on, the clamp has found it. *)
LEMMA ClampAfterIs ==
  ASSUME NEW offered \in Legs, NEW k \in Kappa, NEW p \in Nat, p > 0
  PROVE  ClampAfter(offered, k, p) = Clamped(offered, k)
<1>1. PICK pass : IsClamp(pass, offered, k, p) /\ ClampAfter(offered, k, p) = pass[p]
  BY ClampIsLast
<1> DEFINE g == Clamped(offered, k)
           S == {i \in Nat : i + 1 <= p => pass[i+1] = g}
<1>2. g \in Legs /\ ClampPass(offered, g, k) = g /\ ClampPass(offered, offered, k) = g
  BY ClampedType, ClampPassIs
<1> HIDE DEF g
<1>3. 0 \in S
  BY <1>1, <1>2, ClampStep, 0 + 1 <= p
<1>4. ASSUME NEW i \in S PROVE i + 1 \in S
  <2>1. SUFFICES ASSUME (i + 1) + 1 <= p PROVE pass[(i+1)+1] = g
    OBVIOUS
  <2>2. pass[(i+1)+1] = ClampPass(offered, pass[i+1], k)
    <3>1. i + 1 \in Nat /\ IsClamp(pass, offered, k, p)
      BY <1>1
    <3>2. \A n \in Nat : n + 1 <= p => pass[n+1] = ClampPass(offered, pass[n], k)
      BY <3>1, ClampStep
    <3> QED BY <2>1, <3>1, <3>2
  <2> QED BY <1>2, <2>1, <2>2
<1>5. S = Nat
  <2>1. S \in SUBSET Nat  OBVIOUS
  <2> HIDE DEF S
  <2> QED BY <1>3, <1>4, <2>1, SetInduction
<1>6. pass[(p - 1) + 1] = g
  <2>1. p - 1 \in Nat /\ (p - 1) + 1 <= p
    OBVIOUS
  <2>2. p - 1 \in S
    BY <1>5, <2>1
  <2> QED BY <2>1, <2>2
<1>7. (p - 1) + 1 = p
  OBVIOUS
<1> QED BY <1>1, <1>6, <1>7 DEF g

(* It keeps Rule 2, and nothing else that does is above it anywhere. *)
LEMMA ClampedKeepsRule ==
  ASSUME NEW offered \in Legs, NEW k \in Kappa
  PROVE  RuleTwo(Clamped(offered, k), offered, k)
<1> DEFINE m == LeastLeg(offered)
           g == Clamped(offered, k)
<1>1. m \in Nat
  BY LeastLegIs
<1>2. /\ g \in [Outcomes -> Nat]
      /\ \A w \in Outcomes : g[w] <= offered[w]
      /\ k # 0 => \A w \in Outcomes : m <= g[w]
      /\ k = 0 => \A w \in Outcomes : g[w] = 0
  BY ClampedType DEF Legs
<1>3. ASSUME NEW o \in Outcomes, NEW w \in Outcomes PROVE Cut(g[o], Times(k, g[w])) = g[o]
  <2>1. CASE k = 0
    BY <1>2, <2>1, CutToNothing
  <2>2. CASE k # 0
    <3>1. Cut(g[o], Times(k, m)) = g[o]
      BY <1>1, TimesType, CutTwice DEF Clamped, Legs
    <3>2. Cut(g[o], Times(k, m)) <= Cut(g[o], Times(k, g[w]))
      BY <1>1, <1>2, <2>2, CutMonotone
    <3>3. Cut(g[o], Times(k, g[w])) \in Nat /\ Cut(g[o], Times(k, g[w])) <= g[o]
      BY <1>2, TimesType, CutType
    <3>4. g[o] \in Nat
      BY <1>2
    <3> QED BY <3>1, <3>2, <3>3, <3>4
  <2> QED BY <2>1, <2>2
<1> QED BY <1>2, <1>3 DEF RuleTwo

LEMMA ClampedIsGreatest ==
  ASSUME NEW offered \in Legs, NEW k \in Kappa, NEW other \in Legs,
         RuleTwo(other, offered, k), NEW o \in Outcomes
  PROVE  other[o] <= Clamped(offered, k)[o]
<1> DEFINE m == LeastLeg(offered)
<1>1. m \in Nat /\ \A w \in Outcomes : m <= offered[w]
  BY LeastLegIs
<1>2. PICK j \in Outcomes : offered[j] = m
  BY LeastLegIs
<1>3. \A w \in Outcomes : other[w] \in Nat /\ offered[w] \in Nat /\ other[w] <= offered[w]
  BY DEF RuleTwo, Legs
<1>4. Clamped(offered, k)[o] = Cut(offered[o], Times(k, m))
  BY DEF Clamped
<1>5. Times(k, m) \in Kappa
  BY <1>1, TimesType
<1> HIDE DEF m
<1>6. CASE o # j
  <2>1. Cut(other[o], Times(k, other[j])) = other[o]
    BY <1>6 DEF RuleTwo
  <2>2. Cut(other[o], Times(k, other[j])) <= Cut(other[o], Times(k, m))
    BY <1>1, <1>2, <1>3, CutMonotone
  <2>3. Cut(other[o], Times(k, m)) <= Cut(offered[o], Times(k, m))
    BY <1>3, <1>5, CutGrows
  <2>4. Cut(other[o], Times(k, m)) \in Nat /\ Cut(offered[o], Times(k, m)) \in Nat
    BY <1>3, <1>5, CutType
  <2> QED BY <1>3, <1>4, <2>1, <2>2, <2>3, <2>4
<1>7. CASE o = j /\ k # 0
  <2>1. m <= Cut(offered[o], Times(k, m))
    BY <1>1, <1>3, <1>7, CutAbove
  <2>2. Cut(offered[o], Times(k, m)) \in Nat
    BY <1>3, <1>5, CutType
  <2> QED BY <1>1, <1>2, <1>3, <1>4, <1>7, <2>1, <2>2
<1>8. CASE k = 0
  <2>1. PICK w \in Outcomes : w # o
    BY AnotherOutcome
  <2>2. other[o] = 0
    BY <1>3, <1>8, <2>1, CutToNothing DEF RuleTwo
  <2>3. Cut(offered[o], Times(k, m)) \in Nat
    BY <1>3, <1>5, CutType
  <2> QED BY <1>4, <2>2, <2>3
<1> QED BY <1>6, <1>7, <1>8

(* create's comment on the clamp, for any number of outcomes, any offer and any
   coefficient: the legs it keeps are the greatest that Rule 2 allows.  The loop
   finds them in its first pass and sees that it has in the second. *)
LEMMA SeedClampIsGreatest ==
  ASSUME NEW offered \in Legs, NEW k \in Kappa
  PROVE  /\ Converged(offered, k)
         /\ ClampAfter(offered, k, 2) = SeedClamp(offered, k)
         /\ RuleTwo(SeedClamp(offered, k), offered, k)
         /\ \A other \in Legs :
              RuleTwo(other, offered, k) => \A o \in Outcomes : other[o] <= SeedClamp(offered, k)[o]
<1>1. SeedClamp(offered, k) = Clamped(offered, k)
  BY ClampAfterIs, PassAssumption DEF SeedClamp
<1>2. /\ ClampAfter(offered, k, 2) = Clamped(offered, k)
      /\ ClampAfter(offered, k, MAX_CLAMP_PASSES - 1) = Clamped(offered, k)
  BY ClampAfterIs, PassAssumption
<1> QED BY <1>1, <1>2, ClampedKeepsRule, ClampedIsGreatest DEF Converged

(* The clamp of create is the greatest seed within Rule 2, on every offer. *)
THEOREM GreatestSeed == Spec => []ClampIsGreatest
<1>1. ClampIsGreatest
  <2> SUFFICES ASSUME NEW offered \in [Outcomes -> 0..MaxSeed], NEW k \in Kappas
               PROVE  /\ Converged(offered, k)
                      /\ ClampAfter(offered, k, 2) = SeedClamp(offered, k)
                      /\ RuleTwo(SeedClamp(offered, k), offered, k)
                      /\ \A other \in [Outcomes -> 0..MaxSeed] :
                           RuleTwo(other, offered, k)
                             => \A o \in Outcomes : other[o] <= SeedClamp(offered, k)[o]
    BY DEF ClampIsGreatest
  <2>1. k \in Kappa
    BY InputAssumption DEF Kappa
  <2>2. \A legs \in [Outcomes -> 0..MaxSeed] : legs \in Legs
    BY MaxSeedAssumption DEF Legs
  <2> QED BY <2>1, <2>2, SeedClampIsGreatest
<1> QED BY <1>1, PTL

-----------------------------------------------------------------------------
(* The operators of a vintage, on well-typed books and positions.          *)

(* What the vintage operators rely on: typed books, each with some principal. *)
LedgerType ==
  /\ kappa \in Kappa
  /\ books \in [Outcomes -> Book]
  /\ positions \in Seq(Position)
  /\ pending \subseteq 1..Count
  /\ acceptedPool \in Nat
  /\ \A w \in Outcomes : books[w].principal > 0

LEMMA CountNat == ASSUME LedgerType PROVE Count \in Nat
BY SeqIsFun DEF LedgerType, Count

LEMMA PositionAt ==
  ASSUME LedgerType, NEW i \in 1..Count
  PROVE  /\ positions[i] \in Position
         /\ positions[i].outcome \in Outcomes
         /\ positions[i].offered \in Nat /\ positions[i].accepted \in Nat
         /\ positions[i].entryAcc \in Nat /\ positions[i].vintage \in Nat
<1>1. positions \in [1..Len(positions) -> Position]
  BY SeqIsFun DEF LedgerType
<1> QED BY <1>1 DEF Count, Position

LEMMA BookAt ==
  ASSUME LedgerType, NEW w \in Outcomes
  PROVE  /\ books[w] \in Book
         /\ books[w].principal \in Nat /\ books[w].principal > 0
         /\ books[w].acc \in Nat /\ books[w].vested \in Nat /\ books[w].demand \in Nat
         /\ books[w].live \in Int /\ books[w].capacity \in Kappa
BY DEF LedgerType, Book, Kappa

LEMMA HeadroomType ==
  ASSUME NEW b \in Book
  PROVE  Headroom(b) \in Kappa
BY DEF Headroom, Book, Kappa, KAPPA_UNBOUNDED

(* A rationed entry is accepted at a natural number of units, at most its offer. *)
LEMMA AcceptedType ==
  ASSUME LedgerType, NEW p \in Position
  PROVE  Accepted(p) \in Nat /\ Accepted(p) <= p.offered
<1> DEFINE Share(w) == (p.offered * Headroom(books[w])) \div books[w].demand
           S == {p.offered} \cup {Share(w) : w \in RationingBooks(p.outcome)}
<1>1. p.offered \in Nat
  BY DEF Position
<1>2. ASSUME NEW w \in RationingBooks(p.outcome) PROVE Share(w) \in Nat
  <2>1. /\ w \in Outcomes /\ books[w].demand \in Nat
        /\ Headroom(books[w]) \in Nat /\ books[w].demand > 0
    BY BookAt, HeadroomType DEF RationingBooks, Kappa
  <2>2. p.offered * Headroom(books[w]) \in Nat
    BY <1>1, <2>1
  <2> QED BY <2>1, <2>2, DivType
<1>3. S \in SUBSET Nat /\ S # {} /\ p.offered \in S
  BY <1>1, <1>2
<1>4. Min(S) \in Nat /\ Min(S) <= p.offered
  <2> HIDE DEF S
  <2> QED BY <1>3, MinNat
<1> QED BY <1>4 DEF Accepted

LEMMA AcceptedNowType ==
  ASSUME LedgerType
  PROVE  /\ AcceptedNow \in [1..Count -> Nat]
         /\ \A i \in 1..Count : AcceptedNow[i] <= positions[i].offered
<1>1. ASSUME NEW i \in 1..Count
      PROVE  /\ Accepted(positions[i]) \in Nat
             /\ Accepted(positions[i]) <= positions[i].offered
             /\ positions[i].offered \in Nat
  BY AcceptedType, PositionAt
<1> QED BY <1>1 DEF AcceptedNow

LEMMA VintageSums ==
  ASSUME LedgerType, NEW w \in Outcomes
  PROVE  /\ Inflow(w) \in Nat /\ Stake(w) \in Nat /\ Joiners(w) \in Nat
         /\ Sum(AcceptedNow, Count) \in Nat
         /\ Sum(AcceptedNow, Count) = Stake(w) + Inflow(w)
<1> DEFINE on == [i \in 1..Count |-> IF positions[i].outcome = w THEN AcceptedNow[i] ELSE 0]
           off == [i \in 1..Count |-> IF positions[i].outcome # w THEN AcceptedNow[i] ELSE 0]
           one == [i \in 1..Count |->
                     IF positions[i].outcome = w /\ AcceptedNow[i] > 0 THEN 1 ELSE 0]
<1>1. Count \in Nat /\ \A i \in 1..Count : AcceptedNow[i] \in Nat
  BY CountNat, AcceptedNowType
<1>2. \A i \in 1..Count : /\ on[i] \in Nat /\ off[i] \in Nat /\ one[i] \in Nat
                          /\ AcceptedNow[i] = on[i] + off[i]
  BY <1>1
<1> HIDE DEF on, off, one
<1>3. Sum(AcceptedNow, Count) = Sum(on, Count) + Sum(off, Count)
  BY <1>1, <1>2, SumAdd
<1>4. Sum(on, Count) \in Nat /\ Sum(off, Count) \in Nat /\ Sum(one, Count) \in Nat
  BY <1>1, <1>2, SumNat
<1> QED BY <1>3, <1>4 DEF on, off, one, Inflow, Stake, Joiners

(* The accumulator never falls, and hands out at most the inflow. *)
LEMMA AccAfterType ==
  ASSUME LedgerType, NEW w \in Outcomes
  PROVE  /\ AccAfter(w) \in Nat
         /\ AccAfter(w) >= books[w].acc
         /\ books[w].principal * (AccAfter(w) - books[w].acc) <= Inflow(w) * SCALE
<1>1. /\ books[w].principal \in Nat /\ books[w].principal > 0
      /\ books[w].acc \in Nat /\ Inflow(w) \in Nat /\ SCALE \in Nat
  BY BookAt, VintageSums, ScaleAssumption
<1>2. Inflow(w) * SCALE \in Nat
  BY <1>1
<1>3. /\ (Inflow(w) * SCALE) \div books[w].principal \in Nat
      /\ books[w].principal * ((Inflow(w) * SCALE) \div books[w].principal) <= Inflow(w) * SCALE
  BY <1>1, <1>2, DivType
<1>4. CASE Inflow(w) > 0
  <2>1. AccAfter(w) = books[w].acc + (Inflow(w) * SCALE) \div books[w].principal
    BY <1>4 DEF AccAfter
  <2> QED BY <1>1, <1>3, <2>1
<1>5. CASE ~(Inflow(w) > 0)
  <2>1. AccAfter(w) = books[w].acc
    BY <1>5 DEF AccAfter
  <2>2. books[w].principal * (books[w].acc - books[w].acc) = 0
    BY <1>1
  <2> QED BY <1>1, <1>2, <2>1, <2>2
<1> QED BY <1>4, <1>5

LEMMA AddCapacityType ==
  ASSUME NEW c \in Kappa, NEW d \in Kappa
  PROVE  AddCapacity(c, d) \in Kappa
BY DEF AddCapacity, Kappa, KAPPA_UNBOUNDED

LEMMA FinalBooksType ==
  ASSUME LedgerType
  PROVE  /\ FinalBooks \in [Outcomes -> Book]
         /\ \A w \in Outcomes : FinalBooks[w].principal > 0
<1>1. ASSUME NEW w \in Outcomes
      PROVE  /\ books[w].principal + Stake(w) \in Nat
             /\ books[w].principal + Stake(w) > 0
             /\ AccAfter(w) \in Nat
             /\ AddCapacity(books[w].capacity, Times(kappa, Stake(w))) \in Kappa
             /\ books[w].vested + Inflow(w) \in Nat
             /\ books[w].live + Joiners(w) \in Int
  <2>1. Times(kappa, Stake(w)) \in Kappa
    BY VintageSums, TimesType DEF LedgerType
  <2> QED BY <2>1, BookAt, VintageSums, AccAfterType, AddCapacityType
<1> QED BY <1>1 DEF FinalBooks, Book, Kappa

LEMMA FinalPositionsType ==
  ASSUME LedgerType
  PROVE  FinalPositions \in Seq(Position) /\ Len(FinalPositions) = Count
<1>1. ASSUME NEW i \in 1..Count PROVE FinalPositions[i] \in Position
  <2>1. AccAfter(positions[i].outcome) \in Nat /\ AcceptedNow[i] \in Nat
    BY PositionAt, AccAfterType, AcceptedNowType
  <2> QED BY <2>1, PositionAt DEF FinalPositions, Position
<1>2. FinalPositions \in [1..Count -> Position]
  BY <1>1, Zenon DEF FinalPositions
<1> QED BY <1>2, CountNat, FunIsSeq

-----------------------------------------------------------------------------
(* The ledger invariant, on any books and positions: the contract rolls a    *)
(* vintage and then appends an entry in one call, so both steps are shown to *)
(* preserve it apart.                                                        *)

StakeOn(p, w) == [i \in 1..Len(p) |-> IF p[i].outcome = w THEN p[i].accepted ELSE 0]
StakeOff(p, w) == [i \in 1..Len(p) |-> IF p[i].outcome # w THEN p[i].accepted ELSE 0]
WeightOn(b, p, w) ==
  [i \in 1..Len(p) |-> IF p[i].outcome = w
                       THEN p[i].accepted * (SCALE + b[p[i].outcome].acc - p[i].entryAcc)
                       ELSE 0]

(* The positions that are not finalized are the pending ones, and hold nothing. *)
PendingOK(b, p, pend) ==
  \A i \in 1..Len(p) : /\ i \in pend <=> ~p[i].finalized
                       /\ i \in pend => p[i].accepted = 0
                       /\ p[i].entryAcc <= b[p[i].outcome].acc

SplitOK(b, p, pool) ==
  \A w \in Outcomes : /\ b[w].principal = Sum(StakeOn(p, w), Len(p))
                      /\ b[w].vested = Sum(StakeOff(p, w), Len(p))
                      /\ b[w].principal + b[w].vested = pool

CoveredOK(b, p, pool) ==
  \A w \in Outcomes : Sum(WeightOn(b, p, w), Len(p)) <= SCALE * pool

LedgerOK(b, p, pool, pend) ==
  /\ PendingOK(b, p, pend)
  /\ SplitOK(b, p, pool)
  /\ CoveredOK(b, p, pool)

LEMMA WeightNat ==
  ASSUME NEW s \in Nat, NEW a \in Nat, NEW e \in Nat, e <= a
  PROVE  s * (SCALE + a - e) \in Nat
<1>1. SCALE + a - e \in Nat
  BY ScaleAssumption
<1> QED BY <1>1

(* Books that agree on P, V and A, and positions that agree on what the sums
   read, satisfy the same invariant: claims, refunds and transfers. *)
LEMMA LedgerFrame ==
  ASSUME NEW b, NEW p, NEW pool, NEW pend, LedgerOK(b, p, pool, pend),
         NEW b2, NEW p2, Len(p) \in Nat, Len(p2) = Len(p),
         \A i \in 1..Len(p) : p[i].outcome \in Outcomes,
         \A w \in Outcomes : /\ b2[w].principal = b[w].principal
                             /\ b2[w].vested = b[w].vested
                             /\ b2[w].acc = b[w].acc,
         \A i \in 1..Len(p) : /\ p2[i].outcome = p[i].outcome
                              /\ p2[i].accepted = p[i].accepted
                              /\ p2[i].entryAcc = p[i].entryAcc
                              /\ p2[i].finalized = p[i].finalized
  PROVE  LedgerOK(b2, p2, pool, pend)
<1>1. PendingOK(b2, p2, pend)
  BY DEF LedgerOK, PendingOK
<1>2. ASSUME NEW w \in Outcomes
      PROVE  /\ StakeOn(p2, w) = StakeOn(p, w)
             /\ StakeOff(p2, w) = StakeOff(p, w)
             /\ WeightOn(b2, p2, w) = WeightOn(b, p, w)
  BY DEF StakeOn, StakeOff, WeightOn
<1>3. SplitOK(b2, p2, pool)
  BY <1>2 DEF LedgerOK, SplitOK
<1>4. CoveredOK(b2, p2, pool)
  BY <1>2 DEF LedgerOK, CoveredOK
<1> QED BY <1>1, <1>3, <1>4 DEF LedgerOK

(* The entry that enter pushes: nothing accepted yet. *)
LEMMA LedgerAppend ==
  ASSUME NEW b, NEW p \in Seq(Position), NEW pool, NEW pend \in SUBSET (1..Len(p)),
         LedgerOK(b, p, pool, pend),
         NEW b2, NEW e \in Position,
         ~e.finalized, e.accepted = 0, e.entryAcc = 0,
         b \in [Outcomes -> Book],
         \A w \in Outcomes : /\ b2[w].principal = b[w].principal
                             /\ b2[w].vested = b[w].vested
                             /\ b2[w].acc = b[w].acc
  PROVE  LedgerOK(b2, Append(p, e), pool, pend \cup {Len(p) + 1})
<1> DEFINE q == Append(p, e)
           n == Len(p)
<1>1. /\ n \in Nat /\ q \in Seq(Position) /\ Len(q) = n + 1
      /\ \A i \in 1..n : q[i] = p[i]
      /\ q[n + 1] = e
  BY AppendIsFun, SeqIsFun
<1>2. \A i \in 1..n : p[i] \in Position /\ p[i].outcome \in Outcomes
  <2>1. p \in [1..n -> Position]
    BY SeqIsFun
  <2> QED BY <2>1 DEF Position
<1>3. e.outcome \in Outcomes
  BY DEF Position
<1>4. \A i \in 1..(n+1) : i \in 1..n \/ i = n + 1
  BY <1>1
<1> HIDE DEF q, n
<1>5. PendingOK(b2, q, pend \cup {n + 1})
  <2>1. ASSUME NEW i \in 1..n
        PROVE  /\ i \in pend \cup {n + 1} <=> ~q[i].finalized
               /\ i \in pend \cup {n + 1} => q[i].accepted = 0
               /\ q[i].entryAcc <= b2[q[i].outcome].acc
    <3>1. i # n + 1
      BY <1>1
    <3> QED BY <1>1, <1>2, <3>1 DEF LedgerOK, PendingOK, n
  <2>2. b[e.outcome].acc \in Nat
    BY <1>3 DEF Book
  <2>3. q[n+1].entryAcc <= b2[q[n+1].outcome].acc
    BY <1>1, <1>3, <2>2
  <2> QED BY <1>1, <1>4, <2>1, <2>3 DEF PendingOK
<1>6. ASSUME NEW w \in Outcomes
      PROVE  /\ Sum(StakeOn(q, w), n + 1) = Sum(StakeOn(p, w), n)
             /\ Sum(StakeOff(q, w), n + 1) = Sum(StakeOff(p, w), n)
             /\ Sum(WeightOn(b2, q, w), n + 1) = Sum(WeightOn(b, p, w), n)
  <2>1. \A i \in 1..n : /\ StakeOn(q, w)[i] = StakeOn(p, w)[i]
                        /\ StakeOff(q, w)[i] = StakeOff(p, w)[i]
                        /\ WeightOn(b2, q, w)[i] = WeightOn(b, p, w)[i]
    <3>1. \A i \in 1..n : i \in 1..(n+1)
      BY <1>1
    <3> QED BY <1>1, <1>2, <3>1 DEF StakeOn, StakeOff, WeightOn, n
  <2>2. /\ Sum(StakeOn(q, w), n) = Sum(StakeOn(p, w), n)
        /\ Sum(StakeOff(q, w), n) = Sum(StakeOff(p, w), n)
        /\ Sum(WeightOn(b2, q, w), n) = Sum(WeightOn(b, p, w), n)
    BY <1>1, <2>1, SumEq
  <2>3. /\ StakeOn(q, w)[n + 1] = 0
        /\ StakeOff(q, w)[n + 1] = 0
        /\ WeightOn(b2, q, w)[n + 1] = 0
    <3>1. n + 1 \in 1..(n+1)
      BY <1>1
    <3>2. b[e.outcome].acc \in Nat
      BY <1>3 DEF Book
    <3>3. e.accepted * (SCALE + b2[e.outcome].acc - e.entryAcc) = 0
      <4>1. SCALE + b2[e.outcome].acc - e.entryAcc \in Int
        BY <1>3, <3>2, ScaleAssumption
      <4> QED BY <4>1
    <3> QED BY <1>1, <3>1, <3>3 DEF StakeOn, StakeOff, WeightOn
  <2>4. /\ Sum(StakeOn(q, w), n) \in Nat
        /\ Sum(StakeOff(q, w), n) \in Nat
        /\ Sum(WeightOn(b2, q, w), n) \in Nat
    <3>1. ASSUME NEW i \in 1..n
          PROVE  /\ StakeOn(p, w)[i] \in Nat /\ StakeOff(p, w)[i] \in Nat
                 /\ WeightOn(b, p, w)[i] \in Nat
      <4>1. /\ p[i].accepted \in Nat /\ p[i].entryAcc \in Nat
            /\ b[p[i].outcome].acc \in Nat /\ p[i].entryAcc <= b[p[i].outcome].acc
        BY <1>2 DEF Position, Book, LedgerOK, PendingOK, n
      <4>2. p[i].accepted * (SCALE + b[p[i].outcome].acc - p[i].entryAcc) \in Nat
        BY <4>1, WeightNat
      <4> QED BY <4>1, <4>2 DEF StakeOn, StakeOff, WeightOn, n
    <3> QED BY <1>1, <2>2, <3>1, SumNat
  <2> QED BY <1>1, <2>2, <2>3, <2>4, SumStep
<1>7. SplitOK(b2, q, pool)
  BY <1>1, <1>6 DEF LedgerOK, SplitOK, n
<1>8. CoveredOK(b2, q, pool)
  BY <1>1, <1>6 DEF LedgerOK, CoveredOK, n
<1>9. LedgerOK(b2, q, pool, pend \cup {n + 1})
  BY <1>5, <1>7, <1>8 DEF LedgerOK
<1> QED BY <1>9 DEF q, n

(* The accepted stakes of the open vintage on w, and against w. *)
FreshOn(w) == [i \in 1..Count |-> IF positions[i].outcome = w THEN AcceptedNow[i] ELSE 0]
FreshOff(w) == [i \in 1..Count |-> IF positions[i].outcome # w THEN AcceptedNow[i] ELSE 0]

(* A product that distributes over the step of an accumulator. *)
LEMMA WeightStep ==
  ASSUME NEW s \in Nat, NEW a \in Nat, NEW e \in Nat, NEW d \in Nat, e <= a
  PROVE  s * (SCALE + (a + d) - e) = s * (SCALE + a - e) + d * s
<1>1. SCALE + (a + d) - e = (SCALE + a - e) + d /\ SCALE + a - e \in Int
  BY ScaleAssumption
<1> QED BY <1>1

(* What a vintage adds to the weight of a branch: the accumulator's step for the
   principal it found, and the accepted stakes at par. *)
LEMMA WeightsAfter ==
  ASSUME LedgerType, LedgerOK(books, positions, acceptedPool, pending), NEW w \in Outcomes
  PROVE  /\ Sum(WeightOn(books, positions, w), Count) \in Nat
         /\ Sum(WeightOn(FinalBooks, FinalPositions, w), Count)
              = Sum(WeightOn(books, positions, w), Count)
                + books[w].principal * (AccAfter(w) - books[w].acc) + SCALE * Stake(w)
<1> DEFINE q == FinalPositions
           b2 == FinalBooks
<1>1. Count \in Nat /\ Len(q) = Count /\ Count = Len(positions)
  BY CountNat, FinalPositionsType DEF Count
<1>2. ASSUME NEW i \in 1..Count
      PROVE  /\ positions[i].outcome \in Outcomes /\ positions[i].accepted \in Nat
             /\ positions[i].entryAcc \in Nat /\ AcceptedNow[i] \in Nat
             /\ q[i].outcome = positions[i].outcome
             /\ q[i].finalized
             /\ i \in pending => /\ positions[i].accepted = 0
                                 /\ q[i].accepted = AcceptedNow[i]
                                 /\ q[i].entryAcc = AccAfter(positions[i].outcome)
             /\ i \notin pending => /\ AcceptedNow[i] = 0
                                    /\ q[i].accepted = positions[i].accepted
                                    /\ q[i].entryAcc = positions[i].entryAcc
             /\ positions[i].entryAcc <= books[positions[i].outcome].acc
  BY <1>1, PositionAt, AcceptedNowType
     DEF FinalPositions, AcceptedNow, LedgerOK, PendingOK, Position
<1>3. b2[w].acc = AccAfter(w)
  BY DEF FinalBooks
<1> HIDE DEF q, b2
<1> DEFINE d == AccAfter(w) - books[w].acc
           old == WeightOn(books, positions, w)
           gain == [i \in 1..Count |-> d * StakeOn(positions, w)[i]]
           fresh == [i \in 1..Count |-> SCALE * FreshOn(w)[i]]
           kept == [i \in 1..Count |-> old[i] + gain[i]]
<1>4. d \in Nat /\ AccAfter(w) = books[w].acc + d /\ books[w].acc \in Nat /\ SCALE \in Nat
  BY AccAfterType, BookAt, ScaleAssumption
<1> HIDE DEF d
<1>5. ASSUME NEW i \in 1..Count
      PROVE  /\ old[i] \in Nat /\ gain[i] \in Nat /\ fresh[i] \in Nat
             /\ StakeOn(positions, w)[i] \in Nat /\ FreshOn(w)[i] \in Nat
             /\ WeightOn(b2, q, w)[i] = kept[i] + fresh[i]
  <2>1. StakeOn(positions, w)[i] \in Nat /\ FreshOn(w)[i] \in Nat
    BY <1>1, <1>2 DEF StakeOn, FreshOn
  <2>2. gain[i] \in Nat /\ fresh[i] \in Nat
    BY <1>4, <2>1
  <2>3. CASE positions[i].outcome # w
    <3>1. /\ old[i] = 0 /\ WeightOn(b2, q, w)[i] = 0 /\ FreshOn(w)[i] = 0
          /\ StakeOn(positions, w)[i] = 0
      BY <1>1, <1>2, <2>3 DEF WeightOn, StakeOn, FreshOn
    <3>2. gain[i] = 0 /\ fresh[i] = 0
      BY <1>4, <3>1
    <3> QED BY <2>1, <2>2, <3>1, <3>2
  <2>4. CASE positions[i].outcome = w /\ i \in pending
    <3>1. /\ positions[i].accepted = 0
          /\ old[i] = 0 * (SCALE + books[w].acc - positions[i].entryAcc)
          /\ WeightOn(b2, q, w)[i] = AcceptedNow[i] * (SCALE + AccAfter(w) - AccAfter(w))
          /\ FreshOn(w)[i] = AcceptedNow[i] /\ StakeOn(positions, w)[i] = 0
      BY <1>1, <1>2, <1>3, <2>4 DEF WeightOn, StakeOn, FreshOn
    <3>2. /\ SCALE + AccAfter(w) - AccAfter(w) = SCALE
          /\ SCALE + books[w].acc - positions[i].entryAcc \in Int
      BY <1>2, <1>4
    <3>3. old[i] = 0 /\ gain[i] = 0 /\ WeightOn(b2, q, w)[i] = AcceptedNow[i] * SCALE
      BY <1>4, <3>1, <3>2
    <3>4. fresh[i] = SCALE * AcceptedNow[i] /\ AcceptedNow[i] \in Nat
      BY <1>2, <3>1
    <3> QED BY <1>4, <2>1, <2>2, <3>3, <3>4
  <2>5. CASE positions[i].outcome = w /\ i \notin pending
    <3>1. /\ old[i] = positions[i].accepted * (SCALE + books[w].acc - positions[i].entryAcc)
          /\ WeightOn(b2, q, w)[i]
               = positions[i].accepted * (SCALE + (books[w].acc + d) - positions[i].entryAcc)
          /\ FreshOn(w)[i] = 0 /\ StakeOn(positions, w)[i] = positions[i].accepted
          /\ positions[i].entryAcc <= books[w].acc
      BY <1>1, <1>2, <1>3, <1>4, <2>5 DEF WeightOn, StakeOn, FreshOn
    <3>2. positions[i].accepted * (SCALE + (books[w].acc + d) - positions[i].entryAcc)
            = positions[i].accepted * (SCALE + books[w].acc - positions[i].entryAcc)
              + d * positions[i].accepted
      <4>1. /\ positions[i].accepted \in Nat /\ positions[i].entryAcc \in Nat
            /\ books[w].acc \in Nat /\ positions[i].entryAcc <= books[w].acc
        BY <1>2, <1>4, <3>1
      <4> QED BY <1>4, <4>1, WeightStep
    <3>3. old[i] \in Nat
      BY <1>2, <1>4, <3>1, WeightNat
    <3>4. gain[i] = d * positions[i].accepted /\ fresh[i] = 0
      BY <1>4, <3>1
    <3> QED BY <2>1, <2>2, <3>1, <3>2, <3>3, <3>4
  <2> QED BY <2>3, <2>4, <2>5
<1>6. \A i \in 1..Count : /\ kept[i] \in Nat /\ fresh[i] \in Nat
                          /\ WeightOn(b2, q, w)[i] = kept[i] + fresh[i]
                          /\ old[i] \in Nat /\ gain[i] \in Nat
                          /\ kept[i] = old[i] + gain[i]
                          /\ StakeOn(positions, w)[i] \in Nat /\ FreshOn(w)[i] \in Nat
                          /\ gain[i] = d * StakeOn(positions, w)[i]
                          /\ fresh[i] = SCALE * FreshOn(w)[i]
  BY <1>5
<1>7. Sum(FreshOn(w), Count) = Stake(w)
  BY DEF Stake, FreshOn
<1> HIDE DEF kept, fresh, old, gain
<1>8. Sum(WeightOn(b2, q, w), Count) = Sum(kept, Count) + Sum(fresh, Count)
  <2>1. \A i \in 1..Count : /\ kept[i] \in Nat /\ fresh[i] \in Nat
                            /\ WeightOn(b2, q, w)[i] = kept[i] + fresh[i]
    BY <1>6
  <2> QED BY <1>1, <2>1, SumAdd
<1>9. Sum(kept, Count) = Sum(old, Count) + Sum(gain, Count)
  <2>1. \A i \in 1..Count : old[i] \in Nat /\ gain[i] \in Nat /\ kept[i] = old[i] + gain[i]
    BY <1>6
  <2> QED BY <1>1, <2>1, SumAdd
<1>10. Sum(gain, Count) = d * Sum(StakeOn(positions, w), Count)
  <2>1. \A i \in 1..Count : /\ StakeOn(positions, w)[i] \in Nat
                            /\ gain[i] = d * StakeOn(positions, w)[i]
    BY <1>6
  <2>2. PICK c, f, g : c = d /\ f = StakeOn(positions, w) /\ g = gain
    OBVIOUS
  <2>3. c \in Nat /\ Count \in Nat /\ \A i \in 1..Count : f[i] \in Nat /\ g[i] = c * f[i]
    BY <1>1, <1>4, <2>1, <2>2
  <2>4. Sum(g, Count) = c * Sum(f, Count)
    BY ONLY <2>3, SumScale
  <2> QED BY <2>2, <2>4
<1>11. Sum(fresh, Count) = SCALE * Stake(w)
  <2>1. \A i \in 1..Count : /\ FreshOn(w)[i] \in Nat
                            /\ fresh[i] = SCALE * FreshOn(w)[i]
    BY <1>6
  <2>2. Sum(fresh, Count) = SCALE * Sum(FreshOn(w), Count)
    BY <1>1, <1>4, <2>1, SumScale
  <2> QED BY <1>7, <2>2
<1>12. Sum(old, Count) \in Nat /\ Sum(StakeOn(positions, w), Count) \in Nat
  BY <1>1, <1>6, SumNat
<1>13. books[w].principal = Sum(StakeOn(positions, w), Count)
  BY <1>1 DEF LedgerOK, SplitOK
<1>14. d * Sum(StakeOn(positions, w), Count) = books[w].principal * d
  BY <1>4, <1>12, <1>13
<1> QED BY <1>8, <1>9, <1>10, <1>11, <1>12, <1>14 DEF q, b2, old, d

(* _finalizeVintage: the accepted stakes join the principal of their outcome and
   vest into every other book, and each branch still owes no more than the pool. *)
LEMMA LedgerRoll ==
  ASSUME LedgerType, LedgerOK(books, positions, acceptedPool, pending)
  PROVE  LedgerOK(FinalBooks, FinalPositions, acceptedPool + Sum(AcceptedNow, Count), {})
<1> DEFINE q == FinalPositions
           b2 == FinalBooks
           pool2 == acceptedPool + Sum(AcceptedNow, Count)
<1>1. Count \in Nat /\ Len(q) = Count /\ Count = Len(positions)
  BY CountNat, FinalPositionsType DEF Count
<1>2. ASSUME NEW i \in 1..Count
      PROVE  /\ positions[i].outcome \in Outcomes /\ positions[i].accepted \in Nat
             /\ positions[i].entryAcc \in Nat /\ AcceptedNow[i] \in Nat
             /\ q[i].outcome = positions[i].outcome
             /\ q[i].finalized
             /\ i \in pending => /\ positions[i].accepted = 0
                                 /\ q[i].accepted = AcceptedNow[i]
                                 /\ q[i].entryAcc = AccAfter(positions[i].outcome)
             /\ i \notin pending => /\ AcceptedNow[i] = 0
                                    /\ q[i].accepted = positions[i].accepted
                                    /\ q[i].entryAcc = positions[i].entryAcc
             /\ positions[i].entryAcc <= books[positions[i].outcome].acc
  BY <1>1, PositionAt, AcceptedNowType
     DEF FinalPositions, AcceptedNow, LedgerOK, PendingOK, Position
<1>3. ASSUME NEW w \in Outcomes
      PROVE  /\ b2[w].principal = books[w].principal + Stake(w)
             /\ b2[w].vested = books[w].vested + Inflow(w)
             /\ b2[w].acc = AccAfter(w)
  BY DEF FinalBooks
<1> HIDE DEF q, b2, pool2
<1>4. PendingOK(b2, q, {})
  <2>1. ASSUME NEW i \in 1..Count
        PROVE  q[i].finalized /\ q[i].entryAcc <= b2[q[i].outcome].acc
    <3>1. /\ AccAfter(positions[i].outcome) \in Nat
          /\ AccAfter(positions[i].outcome) >= books[positions[i].outcome].acc
          /\ books[positions[i].outcome].acc \in Nat
      BY <1>2, AccAfterType, BookAt
    <3> QED BY <1>2, <1>3, <3>1
  <2> QED BY <1>1, <2>1 DEF PendingOK
<1>5. ASSUME NEW w \in Outcomes
      PROVE  /\ Sum(StakeOn(q, w), Count) = Sum(StakeOn(positions, w), Count) + Stake(w)
             /\ Sum(StakeOff(q, w), Count) = Sum(StakeOff(positions, w), Count) + Inflow(w)
  <2>1. ASSUME NEW i \in 1..Count
        PROVE  /\ StakeOn(positions, w)[i] \in Nat /\ FreshOn(w)[i] \in Nat
               /\ StakeOn(q, w)[i] = StakeOn(positions, w)[i] + FreshOn(w)[i]
               /\ StakeOff(positions, w)[i] \in Nat /\ FreshOff(w)[i] \in Nat
               /\ StakeOff(q, w)[i] = StakeOff(positions, w)[i] + FreshOff(w)[i]
    BY <1>1, <1>2 DEF StakeOn, StakeOff, FreshOn, FreshOff
  <2>2. Count \in Nat
    BY <1>1
  <2>3. Sum(StakeOn(q, w), Count) = Sum(StakeOn(positions, w), Count) + Sum(FreshOn(w), Count)
    <3>1. \A i \in 1..Count : /\ StakeOn(positions, w)[i] \in Nat /\ FreshOn(w)[i] \in Nat
                              /\ StakeOn(q, w)[i] = StakeOn(positions, w)[i] + FreshOn(w)[i]
      BY <2>1
    <3> QED BY ONLY <2>2, <3>1, SumAdd
  <2>4. Sum(StakeOff(q, w), Count) = Sum(StakeOff(positions, w), Count) + Sum(FreshOff(w), Count)
    <3>1. \A i \in 1..Count : /\ StakeOff(positions, w)[i] \in Nat /\ FreshOff(w)[i] \in Nat
                              /\ StakeOff(q, w)[i] = StakeOff(positions, w)[i] + FreshOff(w)[i]
      BY <2>1
    <3> QED BY ONLY <2>2, <3>1, SumAdd
  <2> QED BY <2>3, <2>4 DEF FreshOn, FreshOff, Stake, Inflow
<1>6. SplitOK(b2, q, pool2)
  <2>1. ASSUME NEW w \in Outcomes
        PROVE  /\ b2[w].principal = Sum(StakeOn(q, w), Count)
               /\ b2[w].vested = Sum(StakeOff(q, w), Count)
               /\ b2[w].principal + b2[w].vested = pool2
    <3>1. /\ books[w].principal = Sum(StakeOn(positions, w), Count)
          /\ books[w].vested = Sum(StakeOff(positions, w), Count)
          /\ books[w].principal + books[w].vested = acceptedPool
      BY <1>1 DEF LedgerOK, SplitOK
    <3>2. books[w].principal \in Nat /\ books[w].vested \in Nat /\ acceptedPool \in Nat
      BY BookAt DEF LedgerType
    <3> QED BY <1>3, <1>5, <3>1, <3>2, VintageSums DEF pool2
  <2> QED BY <1>1, <2>1 DEF SplitOK
<1>7. ASSUME NEW w \in Outcomes
      PROVE  Sum(WeightOn(b2, q, w), Count) <= SCALE * pool2
  <2> DEFINE old == Sum(WeightOn(books, positions, w), Count)
             gain == books[w].principal * (AccAfter(w) - books[w].acc)
  <2>1. old \in Nat /\ Sum(WeightOn(b2, q, w), Count) = old + gain + SCALE * Stake(w)
    BY WeightsAfter DEF b2, q
  <2>2. gain <= Inflow(w) * SCALE
    BY AccAfterType
  <2>3. gain \in Int
    BY AccAfterType, BookAt
  <2>4. old <= SCALE * acceptedPool
    BY <1>1 DEF LedgerOK, CoveredOK
  <2>5. SCALE * pool2 = SCALE * acceptedPool + SCALE * Stake(w) + Inflow(w) * SCALE
    <3>1. /\ pool2 = acceptedPool + (Stake(w) + Inflow(w)) /\ SCALE \in Nat
          /\ acceptedPool \in Nat /\ Stake(w) \in Nat /\ Inflow(w) \in Nat
      BY VintageSums, ScaleAssumption DEF pool2, LedgerType
    <3> QED BY <3>1
  <2>6. SCALE * Stake(w) \in Int /\ Inflow(w) * SCALE \in Int /\ SCALE * acceptedPool \in Int
    BY VintageSums, ScaleAssumption DEF LedgerType
  <2> HIDE DEF old, gain
  <2> QED BY <2>1, <2>2, <2>3, <2>4, <2>5, <2>6
<1>8. CoveredOK(b2, q, pool2)
  BY <1>1, <1>7 DEF CoveredOK
<1>9. LedgerOK(b2, q, pool2, {})
  BY <1>4, <1>6, <1>8 DEF LedgerOK
<1> QED BY <1>9 DEF q, b2, pool2

-----------------------------------------------------------------------------
(* Creation: the seed legs are each other's counterparties.                  *)

LEMMA LedgerSeed ==
  ASSUME NEW seed \in Legs, NEW leg \in Legs, NEW k \in Kappa,
         \A o \in Outcomes : leg[o] # 0,
         NEW b, b = [w \in Outcomes |-> SeedBook(leg, w, Sum(leg, N), k)],
         NEW p, p = [w \in Outcomes |-> SeedPosition(seed, leg, w)]
  PROVE  /\ Sum(leg, N) \in Nat
         /\ b \in [Outcomes -> Book]
         /\ \A w \in Outcomes : b[w].principal > 0
         /\ p \in Seq(Position) /\ Len(p) = N
         /\ LedgerOK(b, p, Sum(leg, N), {})
         /\ \A w \in Outcomes : Sum(WeightOn(b, p, w), N) = leg[w] * SCALE + leg[w] * b[w].acc
<1> DEFINE total == Sum(leg, N)
<1>1. \A o \in Outcomes : leg[o] \in Nat /\ leg[o] > 0 /\ seed[o] \in Nat
  BY DEF Legs
<1>2. N \in Nat /\ Outcomes = 1..N /\ SCALE \in Nat
  BY SizeAssumption, ScaleAssumption DEF Outcomes
<1>3. total \in Nat /\ \A w \in Outcomes : leg[w] <= total
  BY <1>1, <1>2, SumNat, SumMember
<1> HIDE DEF total
<1>4. ASSUME NEW w \in Outcomes
      PROVE  /\ total - leg[w] \in Nat
             /\ (total - leg[w]) * SCALE \in Nat
             /\ ((total - leg[w]) * SCALE) \div leg[w] \in Nat
             /\ leg[w] * (((total - leg[w]) * SCALE) \div leg[w]) <= (total - leg[w]) * SCALE
  <2>1. total - leg[w] \in Nat
    BY <1>1, <1>3
  <2>2. (total - leg[w]) * SCALE \in Nat
    BY <1>2, <2>1
  <2> QED BY <1>1, <2>1, <2>2, DivType
<1>5. ASSUME NEW w \in Outcomes
      PROVE  /\ b[w] \in Book
             /\ b[w].principal = leg[w] /\ b[w].vested = total - leg[w]
             /\ b[w].acc = ((total - leg[w]) * SCALE) \div leg[w]
  <2>1. Times(k, leg[w]) \in Kappa
    BY <1>1, TimesType
  <2> QED BY <1>1, <1>4, <2>1 DEF SeedBook, Book, Kappa, total
<1>6. ASSUME NEW i \in Outcomes
      PROVE  /\ p[i] \in Position
             /\ p[i].outcome = i /\ p[i].accepted = leg[i] /\ p[i].entryAcc = 0
             /\ p[i].finalized
  BY <1>1, UserAssumption DEF SeedPosition, Position
<1>7. p \in Seq(Position) /\ Len(p) = N
  <2>1. p \in [1..N -> Position]
    BY <1>2, <1>6
  <2> QED BY <1>2, <2>1, FunIsSeq
<1>8. PendingOK(b, p, {})
  BY <1>2, <1>4, <1>5, <1>6, <1>7 DEF PendingOK
<1>9. ASSUME NEW w \in Outcomes
      PROVE  /\ leg[w] = Sum(StakeOn(p, w), N)
             /\ total - leg[w] = Sum(StakeOff(p, w), N)
             /\ Sum(WeightOn(b, p, w), N) <= SCALE * total
             /\ Sum(WeightOn(b, p, w), N) = leg[w] * SCALE + leg[w] * b[w].acc
  <2>1. \A i \in 1..N : /\ StakeOn(p, w)[i] = IF i = w THEN leg[w] ELSE 0
                        /\ StakeOff(p, w)[i] = IF i = w THEN 0 ELSE leg[i]
    BY <1>2, <1>6, <1>7 DEF StakeOn, StakeOff
  <2>2. Sum(StakeOn(p, w), N) = leg[w]
    BY <1>1, <1>2, <2>1, SumSingle, Zenon
  <2>3. \A i \in 1..N : /\ StakeOn(p, w)[i] \in Nat /\ StakeOff(p, w)[i] \in Nat
                        /\ leg[i] = StakeOn(p, w)[i] + StakeOff(p, w)[i]
    BY <1>1, <1>2, <2>1
  <2>4. total = Sum(StakeOn(p, w), N) + Sum(StakeOff(p, w), N)
    BY <1>2, <2>3, SumAdd DEF total
  <2>5. Sum(StakeOff(p, w), N) \in Nat
    BY <1>2, <2>3, SumNat
  <2> DEFINE x == leg[w] * (SCALE + b[w].acc - 0)
  <2>6. b[w].acc \in Nat /\ leg[w] * b[w].acc <= (total - leg[w]) * SCALE
    BY <1>4, <1>5
  <2>7. x = leg[w] * SCALE + leg[w] * b[w].acc /\ x \in Nat
    BY <1>1, <1>2, <2>6
  <2>8. (total - leg[w]) * SCALE = total * SCALE - leg[w] * SCALE
    BY <1>1, <1>2, <1>3
  <2>9. x <= SCALE * total
    <3>1. leg[w] * SCALE \in Nat /\ total * SCALE \in Nat /\ leg[w] * b[w].acc \in Nat
      BY <1>1, <1>2, <1>3, <2>6
    <3>2. total * SCALE = SCALE * total
      BY <1>2, <1>3
    <3> QED BY <2>6, <2>7, <2>8, <3>1, <3>2
  <2>10. \A i \in 1..N : WeightOn(b, p, w)[i] = IF i = w THEN x ELSE 0
    BY <1>2, <1>6, <1>7 DEF WeightOn
  <2>11. x \in Nat /\ w \in 1..N /\ N \in Nat
    BY <1>2, <2>7
  <2> HIDE DEF x
  <2>12. Sum(WeightOn(b, p, w), N) = x
    BY <2>10, <2>11, SumSingle
  <2>13. Sum(WeightOn(b, p, w), N) <= SCALE * total
    BY <2>9, <2>12
  <2>14. total - leg[w] = Sum(StakeOff(p, w), N)
    BY <1>1, <2>2, <2>4, <2>5
  <2>15. Sum(WeightOn(b, p, w), N) = leg[w] * SCALE + leg[w] * b[w].acc
    BY <2>7, <2>12
  <2> QED BY <2>2, <2>13, <2>14, <2>15
<1>10. SplitOK(b, p, total)
  <2>1. ASSUME NEW w \in Outcomes
        PROVE  /\ b[w].principal = Sum(StakeOn(p, w), N)
               /\ b[w].vested = Sum(StakeOff(p, w), N)
               /\ b[w].principal + b[w].vested = total
    <3>1. leg[w] + (total - leg[w]) = total
      BY <1>1, <1>3
    <3> QED BY <1>5, <1>9, <3>1
  <2> QED BY <1>7, <2>1 DEF SplitOK
<1>11. CoveredOK(b, p, total)
  BY <1>7, <1>9 DEF CoveredOK
<1>12. b \in [Outcomes -> Book] /\ \A w \in Outcomes : b[w].principal > 0
  BY <1>1, <1>5
<1>13. LedgerOK(b, p, total, {})
  BY <1>8, <1>10, <1>11 DEF LedgerOK
<1> QED BY <1>3, <1>7, <1>9, <1>12, <1>13 DEF total

-----------------------------------------------------------------------------
(* The inductive invariant.                                                  *)

(* A market is blank until it is created. *)
Blank ==
  /\ positions = <<>> /\ pending = {} /\ ~vintageOpen /\ acceptedPool = 0
  /\ \A w \in Outcomes : books[w].principal = 0 /\ books[w].vested = 0

(* An open vintage belongs to an open market and to a block that is past, or in
   which the freeze had not come: this is what makes the roll of resolve and of
   voidMarket always due. *)
VintageInv ==
  /\ vintageOpen => /\ status = "Open"
                    /\ vintageBlock <= blockNo
                    /\ vintageBlock = blockNo => now < ResolutionTime
  /\ ~vintageOpen => pending = {}

LedgerInv ==
  IF status = "None" THEN Blank
  ELSE /\ \A w \in Outcomes : books[w].principal > 0
       /\ LedgerOK(books, positions, acceptedPool, pending)

IInv == TypeOK /\ VintageInv /\ LedgerInv

LEMMA LedgerTyped ==
  ASSUME IInv, status # "None"
  PROVE  LedgerType /\ LedgerOK(books, positions, acceptedPool, pending)
BY DEF IInv, TypeOK, LedgerInv, LedgerType, Kappa

(* The state after _rollVintage, whether or not a vintage was due. *)
LEMMA AfterRoll ==
  ASSUME IInv, status # "None", NEW due \in BOOLEAN
  PROVE  /\ BooksAfter(due) \in [Outcomes -> Book]
         /\ \A w \in Outcomes : BooksAfter(due)[w].principal > 0
         /\ PositionsAfter(due) \in Seq(Position)
         /\ Len(PositionsAfter(due)) = Count
         /\ PoolAfter(due) \in Nat
         /\ PendingAfter(due) \subseteq 1..Count
         /\ LedgerOK(BooksAfter(due), PositionsAfter(due), PoolAfter(due), PendingAfter(due))
<1>1. LedgerType /\ LedgerOK(books, positions, acceptedPool, pending)
  BY LedgerTyped
<1>2. CASE due
  <2>1. acceptedPool + Sum(AcceptedNow, Count) \in Nat
    <3>1. 1 \in Outcomes
      BY SizeAssumption DEF Outcomes
    <3> QED BY <1>1, <3>1, VintageSums DEF LedgerType
  <2>2. /\ BooksAfter(due) = FinalBooks /\ PositionsAfter(due) = FinalPositions
        /\ PoolAfter(due) = acceptedPool + Sum(AcceptedNow, Count)
        /\ PendingAfter(due) = {}
    BY <1>2 DEF BooksAfter, PositionsAfter, PoolAfter, PendingAfter
  <2> QED BY <1>1, <2>1, <2>2, FinalBooksType, FinalPositionsType, LedgerRoll
<1>3. CASE ~due
  <2>1. /\ BooksAfter(due) = books /\ PositionsAfter(due) = positions
        /\ PoolAfter(due) = acceptedPool /\ PendingAfter(due) = pending
    BY <1>3 DEF BooksAfter, PositionsAfter, PoolAfter, PendingAfter
  <2> QED BY <1>1, <2>1 DEF LedgerType, Count
<1> QED BY <1>2, <1>3

LEMMA InitInv == Init => IInv
<1> SUFFICES ASSUME Init PROVE IInv
  OBVIOUS
<1>1. TypeOK
  <2>1. books \in [Outcomes -> Book]
    BY DEF Init, Book
  <2>2. positions \in Seq(Position) /\ pending \subseteq 1..Count
    BY DEF Init
  <2>3. winner \in IF status = "Resolved" THEN Outcomes ELSE {0}
    BY DEF Init
  <2>4. /\ blockNo \in Nat /\ now \in Nat /\ vintageBlock \in Nat
        /\ status \in {"None", "Open", "Resolved", "Voided"}
        /\ kappa \in Nat \cup {KAPPA_UNBOUNDED}
        /\ acceptedPool \in Nat /\ paidOut \in Nat /\ escrow \in Int
    BY DEF Init
  <2>5. vintageOpen \in BOOLEAN /\ residueClaimed \in BOOLEAN
    BY Zenon DEF Init
  <2> QED BY <2>1, <2>2, <2>3, <2>4, <2>5 DEF TypeOK
<1>2. Blank
  BY DEF Init, Blank
<1> QED BY <1>1, <1>2 DEF Init, IInv, VintageInv, LedgerInv

LEMMA CreateInv ==
  ASSUME IInv, NEW seed \in Seeds, NEW k \in Kappas, Create(seed, k)
  PROVE  IInv'
<1> DEFINE leg == SeedClamp(seed, k)
<1>1. seed \in Legs /\ k \in Kappa
  BY InputAssumption DEF Legs, Kappa
<1>2. leg \in Legs
  BY <1>1, SeedClampType
<1>3. /\ status = "None" /\ status' = "Open" /\ kappa' = k
      /\ \A o \in Outcomes : leg[o] # 0
      /\ books' = [w \in Outcomes |-> SeedBook(leg, w, Sum(leg, N), k)]
      /\ positions' = [w \in Outcomes |-> SeedPosition(seed, leg, w)]
      /\ acceptedPool' = Sum(leg, N) /\ escrow' = escrow + Sum(leg, N)
      /\ UNCHANGED <<chainVars, winner, vintageVars, paidOut, residueClaimed>>
  BY DEF Create
<1> HIDE DEF leg
<1>4. /\ acceptedPool' \in Nat
      /\ books' \in [Outcomes -> Book]
      /\ \A w \in Outcomes : books'[w].principal > 0
      /\ positions' \in Seq(Position) /\ Len(positions') = N
      /\ LedgerOK(books', positions', acceptedPool', {})
  BY <1>1, <1>2, <1>3, LedgerSeed
<1>5. Blank /\ winner = 0 /\ escrow \in Int
  BY <1>3 DEF IInv, LedgerInv, TypeOK
<1>6. pending' = {} /\ ~vintageOpen'
  BY <1>3, <1>5 DEF Blank, vintageVars
<1>7. TypeOK'
  <2>1. escrow' \in Int
    BY <1>3, <1>4, <1>5
  <2> QED BY <1>1, <1>3, <1>4, <1>5, <1>6, <2>1
       DEF IInv, TypeOK, Kappa, chainVars, vintageVars, Count
<1>8. VintageInv'
  BY <1>6 DEF VintageInv
<1>9. LedgerInv'
  BY <1>3, <1>4, <1>6 DEF LedgerInv
<1> QED BY <1>7, <1>8, <1>9 DEF IInv

(* Every function that only rolls the vintage. *)
LEMMA RollInv ==
  ASSUME IInv, status # "None", Roll
  PROVE  /\ books' \in [Outcomes -> Book]
         /\ positions' \in Seq(Position)
         /\ acceptedPool' \in Nat
         /\ pending' \subseteq 1..Len(positions')
         /\ \A w \in Outcomes : books'[w].principal > 0
         /\ LedgerOK(books', positions', acceptedPool', pending')
         /\ vintageOpen' = (vintageOpen /\ ~RollDue) /\ vintageBlock' = vintageBlock
         /\ ~vintageOpen' => pending' = {}
<1>1. RollDue \in BOOLEAN
  BY DEF RollDue
<1>2. /\ books' = BooksAfter(RollDue) /\ positions' = PositionsAfter(RollDue)
      /\ acceptedPool' = PoolAfter(RollDue) /\ pending' = PendingAfter(RollDue)
      /\ vintageOpen' = (vintageOpen /\ ~RollDue) /\ vintageBlock' = vintageBlock
  BY DEF Roll
<1>3. ~vintageOpen' => pending' = {}
  BY <1>2 DEF PendingAfter, RollDue, IInv, VintageInv
<1> QED BY <1>1, <1>2, <1>3, AfterRoll

LEMMA EnterInv ==
  ASSUME IInv, NEW u \in Users, NEW o \in Outcomes, NEW amount \in Amounts,
         Enter(u, o, amount)
  PROVE  IInv'
<1> DEFINE b == BooksAfter(RollDue)
           p == PositionsAfter(RollDue)
           pend == PendingAfter(RollDue)
           e == [owner |-> u, outcome |-> o, finalized |-> FALSE, refunded |-> FALSE,
                 claimed |-> FALSE, vintage |-> blockNo, offered |-> amount,
                 accepted |-> 0, entryAcc |-> 0]
<1>1. RollDue \in BOOLEAN
  BY DEF RollDue
<1>2. /\ status = "Open" /\ now < ResolutionTime
      /\ vintageOpen' = TRUE
      /\ vintageBlock' = IF vintageOpen /\ ~RollDue THEN vintageBlock ELSE blockNo
      /\ positions' = Append(p, e)
      /\ pending' = pend \cup {Count + 1}
      /\ books' = [w \in Outcomes |->
                     IF w = o THEN b[w] ELSE [b[w] EXCEPT !.demand = @ + amount]]
      /\ acceptedPool' = PoolAfter(RollDue)
      /\ escrow' = escrow + amount
      /\ UNCHANGED <<chainVars, settleVars, kappa, paidOut, residueClaimed>>
  BY DEF Enter
<1>3. /\ b \in [Outcomes -> Book]
      /\ \A w \in Outcomes : b[w].principal > 0
      /\ p \in Seq(Position) /\ Len(p) = Count
      /\ PoolAfter(RollDue) \in Nat
      /\ pend \in SUBSET (1..Count)
      /\ LedgerOK(b, p, PoolAfter(RollDue), pend)
  BY <1>1, <1>2, AfterRoll
<1>4. blockNo \in Nat /\ vintageBlock \in Nat /\ now \in Nat /\ amount \in Nat /\ escrow \in Int
  BY InputAssumption DEF IInv, TypeOK
<1>5. e \in Position /\ ~e.finalized /\ e.accepted = 0 /\ e.entryAcc = 0
  BY <1>4 DEF Position
<1> HIDE DEF b, p, pend, e
<1>6. /\ positions' \in Seq(Position) /\ Len(positions') = Count + 1
      /\ Count \in Nat
  BY <1>2, <1>3, <1>5, AppendIsFun, SeqIsFun
<1>7. /\ books' \in [Outcomes -> Book]
      /\ \A w \in Outcomes : /\ books'[w].principal = b[w].principal
                             /\ books'[w].vested = b[w].vested
                             /\ books'[w].acc = b[w].acc
  <2>1. ASSUME NEW w \in Outcomes
        PROVE  /\ books'[w] \in Book /\ books'[w].principal = b[w].principal
               /\ books'[w].vested = b[w].vested /\ books'[w].acc = b[w].acc
    <3>1. b[w] \in Book
      BY <1>3
    <3>2. CASE w = o
      BY <1>2, <3>1, <3>2
    <3>3. CASE w # o
      <4>1. books'[w] = [b[w] EXCEPT !.demand = @ + amount]
        BY <1>2, <3>3
      <4>2. b[w].demand + amount \in Nat
        BY <1>4, <3>1 DEF Book
      <4> QED BY <3>1, <4>1, <4>2 DEF Book
    <3> QED BY <3>2, <3>3
  <2> QED BY <1>2, <2>1
<1>8. LedgerOK(books', positions', acceptedPool', pending')
  <2>1. LedgerOK(books', Append(p, e), PoolAfter(RollDue), pend \cup {Len(p) + 1})
    BY <1>3, <1>5, <1>7, LedgerAppend
  <2> QED BY <1>2, <1>3, <2>1
<1>9. TypeOK'
  <2>1. escrow' \in Int /\ vintageBlock' \in Nat /\ vintageOpen' \in BOOLEAN
    BY <1>2, <1>4
  <2>2. pending' \subseteq 1..Len(positions')
    BY <1>2, <1>3, <1>6
  <2>3. acceptedPool' \in Nat
    BY <1>2, <1>3
  <2>4. /\ blockNo' \in Nat /\ now' \in Nat /\ paidOut' \in Nat /\ residueClaimed' \in BOOLEAN
        /\ kappa' \in Nat \cup {KAPPA_UNBOUNDED}
        /\ status' = "Open"
        /\ winner' \in IF status' = "Resolved" THEN Outcomes ELSE {0}
    BY <1>2 DEF IInv, TypeOK, chainVars, settleVars
  <2> QED BY <1>6, <1>7, <2>1, <2>2, <2>3, <2>4 DEF TypeOK, Count
<1>10. VintageInv'
  <2>1. /\ status' = "Open" /\ blockNo' = blockNo /\ now' = now
    BY <1>2 DEF chainVars, settleVars
  <2>2. vintageBlock' <= blockNo
    BY <1>2, <1>4 DEF IInv, VintageInv
  <2> QED BY <1>2, <2>1, <2>2 DEF VintageInv
<1>11. LedgerInv'
  <2>1. \A w \in Outcomes : books'[w].principal > 0
    BY <1>3, <1>7
  <2>2. status' # "None"
    BY <1>2 DEF settleVars
  <2> QED BY <1>8, <2>1, <2>2 DEF LedgerInv
<1> QED BY <1>9, <1>10, <1>11 DEF IInv

LEMMA FinalizeVintageInv ==
  ASSUME IInv, FinalizeVintage
  PROVE  IInv'
<1>1. /\ status # "None" /\ Roll
      /\ UNCHANGED <<chainVars, settleVars, kappa, paidOut, residueClaimed, escrow>>
  BY DEF FinalizeVintage
<1>2. /\ books' \in [Outcomes -> Book] /\ positions' \in Seq(Position)
      /\ acceptedPool' \in Nat /\ pending' \subseteq 1..Len(positions')
      /\ \A w \in Outcomes : books'[w].principal > 0
      /\ LedgerOK(books', positions', acceptedPool', pending')
      /\ vintageOpen' = (vintageOpen /\ ~RollDue) /\ vintageBlock' = vintageBlock
      /\ ~vintageOpen' => pending' = {}
  BY <1>1, RollInv
<1>3. TypeOK'
  BY <1>1, <1>2 DEF IInv, TypeOK, chainVars, settleVars, Count
<1>4. VintageInv'
  BY <1>1, <1>2 DEF IInv, VintageInv, chainVars, settleVars
<1>5. LedgerInv'
  BY <1>1, <1>2 DEF LedgerInv, settleVars
<1> QED BY <1>3, <1>4, <1>5 DEF IInv

(* At or after the freeze the roll is due whenever a vintage is open. *)
LEMMA SettleInv ==
  ASSUME IInv, status = "Open", now >= ResolutionTime, Roll,
         \/ status' = "Resolved" /\ winner' \in Outcomes
         \/ status' = "Voided" /\ winner' = winner,
         UNCHANGED <<chainVars, kappa, paidOut, residueClaimed, escrow>>
  PROVE  IInv'
<1>1. /\ books' \in [Outcomes -> Book] /\ positions' \in Seq(Position)
      /\ acceptedPool' \in Nat /\ pending' \subseteq 1..Len(positions')
      /\ \A w \in Outcomes : books'[w].principal > 0
      /\ LedgerOK(books', positions', acceptedPool', pending')
      /\ vintageOpen' = (vintageOpen /\ ~RollDue) /\ vintageBlock' = vintageBlock
      /\ ~vintageOpen' => pending' = {}
  BY RollInv
<1>2. vintageOpen => RollDue
  <2>1. /\ blockNo \in Nat /\ vintageBlock \in Nat /\ now \in Nat
        /\ vintageOpen => vintageBlock <= blockNo /\ (vintageBlock = blockNo => now < ResolutionTime)
    BY DEF IInv, TypeOK, VintageInv
  <2> QED BY <2>1, TimeAssumption DEF RollDue
<1>3. ~vintageOpen'
  BY <1>1, <1>2
<1>4. TypeOK'
  BY <1>1 DEF IInv, TypeOK, chainVars, Count
<1>5. VintageInv'
  BY <1>1, <1>3 DEF VintageInv
<1>6. LedgerInv'
  BY <1>1 DEF LedgerInv
<1> QED BY <1>4, <1>5, <1>6 DEF IInv

LEMMA ResolveInv ==
  ASSUME IInv, NEW u, NEW w \in Outcomes, Resolve(u, w)
  PROVE  IInv'
BY SettleInv DEF Resolve

LEMMA VoidMarketInv ==
  ASSUME IInv, NEW u, VoidMarket(u)
  PROVE  IInv'
<1>1. now >= ResolutionTime
  BY TimeAssumption DEF VoidMarket, IInv, TypeOK
<1> QED BY <1>1, SettleInv DEF VoidMarket

LEMMA WithdrawRefundInv ==
  ASSUME IInv, NEW u \in Users, NEW i \in 1..Count, WithdrawRefund(u, i)
  PROVE  IInv'
<1> DEFINE due == status = "Open" /\ RollDue
           b == BooksAfter(due)
           p == PositionsAfter(due)
<1>1. /\ books' = b
      /\ positions' = [p EXCEPT ![i].refunded = TRUE]
      /\ acceptedPool' = PoolAfter(due)
      /\ pending' = PendingAfter(due)
      /\ vintageOpen' = (vintageOpen /\ ~due)
      /\ escrow' = escrow - (p[i].offered - p[i].accepted)
      /\ UNCHANGED <<chainVars, settleVars, kappa, vintageBlock, paidOut, residueClaimed>>
  BY DEF WithdrawRefund
<1>2. due \in BOOLEAN
  BY DEF RollDue
<1>3. status # "None"
  BY DEF IInv, LedgerInv, Blank, Count
<1> HIDE DEF due
<1>4. /\ b \in [Outcomes -> Book]
      /\ \A w \in Outcomes : b[w].principal > 0
      /\ p \in Seq(Position) /\ Len(p) = Count
      /\ PoolAfter(due) \in Nat
      /\ PendingAfter(due) \in SUBSET (1..Count)
      /\ LedgerOK(b, p, PoolAfter(due), PendingAfter(due))
  BY <1>2, <1>3, AfterRoll
<1> HIDE DEF b, p
<1>5. /\ Count \in Nat
      /\ \A j \in 1..Count : p[j] \in Position
  BY <1>4, SeqIsFun
<1>6. positions' \in Seq(Position) /\ Len(positions') = Count
  <2>1. [p[i] EXCEPT !.refunded = TRUE] \in Position
    BY <1>5 DEF Position
  <2>2. p \in [1..Count -> Position]
    BY <1>4, SeqIsFun
  <2>3. positions' \in [1..Count -> Position]
    BY <1>1, <2>1, <2>2
  <2> QED BY <1>5, <2>3, FunIsSeq
<1>7. LedgerOK(books', positions', acceptedPool', pending')
  <2>1. \A j \in 1..Count : /\ positions'[j].outcome = p[j].outcome
                            /\ positions'[j].accepted = p[j].accepted
                            /\ positions'[j].entryAcc = p[j].entryAcc
                            /\ positions'[j].finalized = p[j].finalized
    <3>1. p \in [1..Count -> Position]
      BY <1>4, SeqIsFun
    <3> QED BY <1>1, <3>1 DEF Position
  <2>2. \A j \in 1..Count : p[j].outcome \in Outcomes
    BY <1>5 DEF Position
  <2>3. LedgerOK(b, positions', PoolAfter(due), PendingAfter(due))
    <3>1. /\ Len(p) = Count /\ Len(positions') = Count /\ Count \in Nat
          /\ LedgerOK(b, p, PoolAfter(due), PendingAfter(due))
      BY <1>4, <1>5, <1>6
    <3> QED BY <2>1, <2>2, <3>1, LedgerFrame
  <2> QED BY <1>1, <2>3
<1>8. TypeOK'
  <2>1. escrow' \in Int
    <3>1. p[i].offered \in Nat /\ p[i].accepted \in Nat
      BY <1>5 DEF Position
    <3>2. escrow \in Int
      BY DEF IInv, TypeOK
    <3> QED BY <1>1, <3>1, <3>2
  <2>2. vintageOpen' \in BOOLEAN
    BY <1>1
  <2>3. pending' \subseteq 1..Len(positions')
    BY <1>1, <1>4, <1>6
  <2>4. books' \in [Outcomes -> Book] /\ acceptedPool' \in Nat
    BY <1>1, <1>4
  <2>5. /\ blockNo' \in Nat /\ now' \in Nat /\ vintageBlock' \in Nat
        /\ status' \in {"None", "Open", "Resolved", "Voided"}
        /\ winner' \in IF status' = "Resolved" THEN Outcomes ELSE {0}
        /\ kappa' \in Nat \cup {KAPPA_UNBOUNDED}
        /\ residueClaimed' \in BOOLEAN /\ paidOut' \in Nat
    BY <1>1 DEF IInv, TypeOK, chainVars, settleVars
  <2> QED BY <1>6, <2>1, <2>2, <2>3, <2>4, <2>5 DEF TypeOK, Count
<1>9. VintageInv'
  <2>1. ~vintageOpen' => pending' = {}
    BY <1>1 DEF PendingAfter, IInv, VintageInv
  <2> QED BY <1>1, <2>1 DEF IInv, VintageInv, chainVars, settleVars
<1>10. LedgerInv'
  BY <1>1, <1>3, <1>4, <1>7 DEF LedgerInv, settleVars
<1> QED BY <1>8, <1>9, <1>10 DEF IInv

(* What a claim pays on an invariant state is a natural number. *)
LEMMA SettlementNat ==
  ASSUME IInv, status # "None", NEW i \in 1..Count
  PROVE  Settlement(positions[i]) \in Nat
<1>1. LedgerType /\ LedgerOK(books, positions, acceptedPool, pending)
  BY LedgerTyped
<1>2. /\ positions[i].accepted \in Nat /\ positions[i].entryAcc \in Nat
      /\ positions[i].outcome \in Outcomes
  BY <1>1, PositionAt
<1>3. books[positions[i].outcome].acc \in Nat
  BY <1>1, <1>2, BookAt
<1>4. positions[i].entryAcc <= books[positions[i].outcome].acc
  BY <1>1 DEF LedgerOK, PendingOK, Count
<1>5. Weight(positions[i]) \in Nat
  BY <1>2, <1>3, <1>4, WeightNat DEF Weight
<1>6. Payout(positions[i]) \in Nat
  BY <1>5, ScaleAssumption, DivType DEF Payout
<1> QED BY <1>2, <1>6 DEF Settlement

LEMMA ClaimInv ==
  ASSUME IInv, NEW u \in Users, NEW i \in 1..Count, Claim(u, i)
  PROVE  IInv'
<1> DEFINE pay == Settlement(positions[i])
           won == Wins(positions[i])
<1>1. /\ status \in {"Resolved", "Voided"}
      /\ paidOut' = IF won THEN paidOut + pay ELSE paidOut
      /\ books' = IF won THEN [books EXCEPT ![winner].live = @ - 1] ELSE books
      /\ positions' = [positions EXCEPT ![i].refunded = TRUE, ![i].claimed = TRUE]
      /\ escrow' = escrow - (pay + Remainder(positions[i]))
      /\ UNCHANGED <<chainVars, settleVars, kappa, vintageVars, acceptedPool, residueClaimed>>
  BY DEF Claim
<1>2. pay \in Nat
  BY <1>1, SettlementNat
<1>3. LedgerType /\ LedgerOK(books, positions, acceptedPool, pending)
  BY <1>1, LedgerTyped
<1>4. Count \in Nat /\ Count = Len(positions) /\ positions \in [1..Count -> Position]
  BY <1>3, SeqIsFun DEF LedgerType, Count
<1> HIDE DEF pay, won
<1>5. positions' \in Seq(Position) /\ Len(positions') = Count
  <2>1. [positions[i] EXCEPT !.refunded = TRUE, !.claimed = TRUE] \in Position
    BY <1>4 DEF Position
  <2>2. positions' \in [1..Count -> Position]
    BY <1>1, <1>4, <2>1
  <2> QED BY <1>4, <2>2, FunIsSeq
<1>6. /\ books' \in [Outcomes -> Book]
      /\ \A w \in Outcomes : /\ books'[w].principal = books[w].principal
                             /\ books'[w].vested = books[w].vested
                             /\ books'[w].acc = books[w].acc
  <2>1. books \in [Outcomes -> Book]
    BY <1>3 DEF LedgerType
  <2>2. CASE won
    <3>1. winner \in Outcomes
      BY <2>2 DEF won, Wins, IInv, TypeOK
    <3>2. books[winner].live - 1 \in Int
      BY <2>1, <3>1 DEF Book
    <3> QED BY <1>1, <2>1, <2>2, <3>1, <3>2 DEF Book
  <2>3. CASE ~won
    BY <1>1, <2>1, <2>3
  <2> QED BY <2>2, <2>3
<1>7. LedgerOK(books', positions', acceptedPool', pending')
  <2>1. \A j \in 1..Count : /\ positions'[j].outcome = positions[j].outcome
                            /\ positions'[j].accepted = positions[j].accepted
                            /\ positions'[j].entryAcc = positions[j].entryAcc
                            /\ positions'[j].finalized = positions[j].finalized
    BY <1>1, <1>4 DEF Position
  <2>2. \A j \in 1..Count : positions[j].outcome \in Outcomes
    BY <1>4 DEF Position
  <2>3. LedgerOK(books', positions', acceptedPool, pending)
    BY <1>3, <1>4, <1>5, <1>6, <2>1, <2>2, LedgerFrame
  <2> QED BY <1>1, <2>3 DEF vintageVars
<1>8. TypeOK'
  <2>1. escrow' \in Int /\ paidOut' \in Nat
    <3>1. Remainder(positions[i]) \in Int
      BY <1>4 DEF Remainder, Position
    <3>2. escrow \in Int /\ paidOut \in Nat
      BY DEF IInv, TypeOK
    <3> QED BY <1>1, <1>2, <3>1, <3>2
  <2>2. pending' \subseteq 1..Len(positions')
    BY <1>1, <1>3, <1>5 DEF LedgerType, vintageVars
  <2>3. /\ blockNo' \in Nat /\ now' \in Nat /\ vintageBlock' \in Nat
        /\ status' \in {"None", "Open", "Resolved", "Voided"}
        /\ winner' \in IF status' = "Resolved" THEN Outcomes ELSE {0}
        /\ kappa' \in Nat \cup {KAPPA_UNBOUNDED}
        /\ vintageOpen' \in BOOLEAN /\ residueClaimed' \in BOOLEAN
        /\ acceptedPool' \in Nat
    BY <1>1 DEF IInv, TypeOK, chainVars, settleVars, vintageVars
  <2> QED BY <1>5, <1>6, <2>1, <2>2, <2>3 DEF TypeOK, Count
<1>9. VintageInv'
  BY <1>1 DEF IInv, VintageInv, chainVars, settleVars, vintageVars
<1>10. LedgerInv'
  <2>1. \A w \in Outcomes : books'[w].principal > 0
    BY <1>3, <1>6 DEF LedgerType
  <2> QED BY <1>1, <1>7, <2>1 DEF LedgerInv, settleVars
<1> QED BY <1>8, <1>9, <1>10 DEF IInv

LEMMA ClaimResidueInv ==
  ASSUME IInv, NEW u \in Users, ClaimResidue(u)
  PROVE  IInv'
<1>1. /\ residueClaimed' = TRUE
      /\ escrow' = escrow - (acceptedPool - paidOut)
      /\ UNCHANGED <<chainVars, settleVars, kappa, ledgerVars, vintageVars, paidOut>>
  BY DEF ClaimResidue
<1>2. TypeOK'
  <2>1. escrow' \in Int
    BY <1>1 DEF IInv, TypeOK
  <2> QED BY <1>1, <2>1
          DEF IInv, TypeOK, chainVars, settleVars, ledgerVars, vintageVars, Count
<1>3. VintageInv' /\ LedgerInv'
  BY <1>1 DEF IInv, VintageInv, LedgerInv, Blank, chainVars, settleVars, ledgerVars, vintageVars
<1> QED BY <1>2, <1>3 DEF IInv

LEMMA TransferPositionInv ==
  ASSUME IInv, NEW u \in Users, NEW i \in 1..Count, NEW to \in Users,
         TransferPosition(u, i, to)
  PROVE  IInv'
<1>1. /\ positions' = [positions EXCEPT ![i].owner = to]
      /\ UNCHANGED <<chainVars, settleVars, kappa, books, acceptedPool, vintageVars,
                     paidOut, residueClaimed, escrow>>
  BY DEF TransferPosition
<1>2. status # "None"
  BY DEF IInv, LedgerInv, Blank, Count
<1>3. LedgerType /\ LedgerOK(books, positions, acceptedPool, pending)
  BY <1>2, LedgerTyped
<1>4. Count \in Nat /\ Count = Len(positions) /\ positions \in [1..Count -> Position]
  BY <1>3, SeqIsFun DEF LedgerType, Count
<1>5. positions' \in Seq(Position) /\ Len(positions') = Count
  <2>1. [positions[i] EXCEPT !.owner = to] \in Position
    BY <1>4 DEF Position
  <2>2. positions' \in [1..Count -> Position]
    BY <1>1, <1>4, <2>1
  <2> QED BY <1>4, <2>2, FunIsSeq
<1>6. LedgerOK(books', positions', acceptedPool', pending')
  <2>1. \A j \in 1..Count : /\ positions'[j].outcome = positions[j].outcome
                            /\ positions'[j].accepted = positions[j].accepted
                            /\ positions'[j].entryAcc = positions[j].entryAcc
                            /\ positions'[j].finalized = positions[j].finalized
    BY <1>1, <1>4 DEF Position
  <2>2. \A j \in 1..Count : positions[j].outcome \in Outcomes
    BY <1>4 DEF Position
  <2>3. LedgerOK(books, positions', acceptedPool, pending)
    BY <1>3, <1>4, <1>5, <2>1, <2>2, LedgerFrame
  <2> QED BY <1>1, <2>3 DEF vintageVars
<1>7. TypeOK'
  <2>1. pending' \subseteq 1..Len(positions')
    BY <1>1, <1>3, <1>5 DEF LedgerType, vintageVars
  <2> QED BY <1>1, <1>5, <2>1 DEF IInv, TypeOK, chainVars, settleVars, vintageVars, Count
<1>8. VintageInv'
  BY <1>1 DEF IInv, VintageInv, chainVars, settleVars, vintageVars
<1>9. LedgerInv'
  BY <1>1, <1>2, <1>3, <1>6 DEF LedgerInv, LedgerType, settleVars
<1> QED BY <1>7, <1>8, <1>9 DEF IInv

LEMMA NextBlockInv ==
  ASSUME IInv, NextBlock
  PROVE  IInv'
<1>1. /\ blockNo' = blockNo + 1 /\ now' \in now..MaxTime
      /\ UNCHANGED <<settleVars, kappa, ledgerVars, vintageVars, paidOut,
                     residueClaimed, escrow>>
  BY DEF NextBlock
<1>2. blockNo \in Nat /\ now \in Nat /\ vintageBlock \in Nat /\ MaxTime \in Nat
  BY BoundAssumption DEF IInv, TypeOK
<1>3. blockNo' \in Nat /\ now' \in Nat
  BY <1>1, <1>2
<1>4. TypeOK'
  BY <1>1, <1>3 DEF IInv, TypeOK, settleVars, ledgerVars, vintageVars, Count
<1>5. VintageInv'
  <2>1. vintageOpen => vintageBlock < blockNo'
    BY <1>1, <1>2 DEF IInv, VintageInv
  <2> QED BY <1>1, <1>2, <2>1 DEF IInv, VintageInv, settleVars, vintageVars
<1>6. LedgerInv'
  BY <1>1 DEF IInv, LedgerInv, Blank, settleVars, ledgerVars, vintageVars
<1> QED BY <1>4, <1>5, <1>6 DEF IInv

LEMMA StepInv == IInv /\ [Next]_vars => IInv'
<1> SUFFICES ASSUME IInv, [Next]_vars PROVE IInv'
  OBVIOUS
<1>1. ASSUME NEW seed \in Seeds, NEW k \in Kappas, Create(seed, k) PROVE IInv'
  BY <1>1, CreateInv
<1>2. ASSUME NEW u \in Users, NEW o \in Outcomes, NEW amount \in Amounts,
             Enter(u, o, amount)
      PROVE  IInv'
  BY <1>2, EnterInv
<1>3. CASE FinalizeVintage
  BY <1>3, FinalizeVintageInv
<1>4. ASSUME NEW u \in Users \cup {Resolver}, NEW w \in Outcomes, Resolve(u, w)
      PROVE  IInv'
  BY <1>4, ResolveInv
<1>5. ASSUME NEW u \in Users \cup {Resolver}, VoidMarket(u) PROVE IInv'
  BY <1>5, VoidMarketInv
<1>6. ASSUME NEW u \in Users, NEW i \in 1..Count, WithdrawRefund(u, i) PROVE IInv'
  BY <1>6, WithdrawRefundInv
<1>7. ASSUME NEW u \in Users, NEW i \in 1..Count, Claim(u, i) PROVE IInv'
  BY <1>7, ClaimInv
<1>8. ASSUME NEW u \in Users, ClaimResidue(u) PROVE IInv'
  BY <1>8, ClaimResidueInv
<1>9. ASSUME NEW u \in Users, NEW to \in Users, NEW i \in 1..Count,
             TransferPosition(u, i, to)
      PROVE  IInv'
  BY <1>9, TransferPositionInv
<1>10. CASE NextBlock
  BY <1>10, NextBlockInv
<1>11. CASE UNCHANGED vars
  <2>1. UNCHANGED <<chainVars, settleVars, kappa, ledgerVars, vintageVars, paidOut,
                    residueClaimed, escrow>>
    BY <1>11 DEF vars
  <2> QED BY <2>1 DEF IInv, TypeOK, VintageInv, LedgerInv, Blank, Count,
                      chainVars, settleVars, ledgerVars, vintageVars
<1> QED BY <1>1, <1>2, <1>3, <1>4, <1>5, <1>6, <1>7, <1>8, <1>9, <1>10, <1>11 DEF Next

-----------------------------------------------------------------------------
(* The theorems.                                                             *)

LEMMA Invariance == Spec => []IInv
<1>1. Init => IInv
  BY InitInv
<1>2. IInv /\ [Next]_vars => IInv'
  BY StepInv
<1> QED BY <1>1, <1>2, PTL DEF Spec

(* The market keeps its shape in every behaviour, for every N, scale and input. *)
THEOREM TypeCorrect == Spec => []TypeOK
<1>1. IInv => TypeOK
  BY DEF IInv
<1> QED BY <1>1, Invariance, PTL

(* Nothing is left in the buffer by the call that settles the market. *)
THEOREM SettledIsFinal == Spec => []NothingPendingOnceSettled
<1>1. IInv => NothingPendingOnceSettled
  <2> SUFFICES ASSUME IInv, Settled PROVE /\ ~vintageOpen /\ pending = {}
                                          /\ \A i \in 1..Count : positions[i].finalized
    BY DEF NothingPendingOnceSettled
  <2>1. status # "None" /\ status # "Open"
    BY DEF Settled
  <2>2. ~vintageOpen /\ pending = {}
    BY <2>1 DEF IInv, VintageInv
  <2>3. PendingOK(books, positions, pending)
    BY <2>1, LedgerTyped DEF LedgerOK
  <2>4. ASSUME NEW i \in 1..Count PROVE positions[i].finalized
    BY <2>2, <2>3 DEF PendingOK, Count
  <2> QED BY <2>2, <2>4
<1> QED BY <1>1, Invariance, PTL

(* With no positions every sum is 0. *)
LEMMA BlankSums ==
  ASSUME Blank
  PROVE  PoolSplits /\ PayoutsCovered
<1>1. Count = 0 /\ acceptedPool = 0
  BY DEF Blank, Count
<1>2. ASSUME NEW f PROVE Sum(f, Count) = 0
  BY <1>1, SumZero
<1>3. PoolSplits
  BY <1>1, <1>2 DEF Blank, PoolSplits, On, Against
<1>4. PayoutsCovered
  <2>1. SCALE * acceptedPool = 0
    BY <1>1, ScaleAssumption
  <2> QED BY <1>2, <2>1 DEF PayoutsCovered, On
<1> QED BY <1>3, <1>4

(* The pool is the stake on a branch and the stake against it, in every branch. *)
THEOREM PoolAlwaysSplits == Spec => []PoolSplits
<1>1. IInv => PoolSplits
  <2>1. ASSUME IInv, status # "None" PROVE PoolSplits
    <3>1. SplitOK(books, positions, acceptedPool)
      BY <2>1, LedgerTyped DEF LedgerOK
    <3> QED BY <3>1 DEF SplitOK, PoolSplits, On, Against, AcceptedOf, StakeOn, StakeOff, Count
  <2>2. ASSUME IInv, status = "None" PROVE PoolSplits
    BY <2>2, BlankSums DEF IInv, LedgerInv
  <2> QED BY <2>1, <2>2
<1> QED BY <1>1, Invariance, PTL

(* P1: no branch ever owes more than the accepted pool, whatever has entered and
   in whatever order. *)
THEOREM Solvency == Spec => []PayoutsCovered
<1>1. IInv => PayoutsCovered
  <2>1. ASSUME IInv, status # "None" PROVE PayoutsCovered
    <3>1. CoveredOK(books, positions, acceptedPool)
      BY <2>1, LedgerTyped DEF LedgerOK
    <3> QED BY <3>1 DEF CoveredOK, PayoutsCovered, On, Weight, WeightOn, Count
  <2>2. ASSUME IInv, status = "None" PROVE PayoutsCovered
    BY <2>2, BlankSums DEF IInv, LedgerInv
  <2> QED BY <2>1, <2>2
<1> QED BY <1>1, Invariance, PTL

-----------------------------------------------------------------------------
(* What an accepted stake can count on: its terms never change and what it *)
(* would be paid never falls, whatever is called after it.                 *)

(* The terms of stake i that the payout reads, kept by a step, and an accumulator
   that has not fallen. *)
TermsKept(i) ==
  /\ positions'[i].finalized
  /\ positions'[i].outcome = positions[i].outcome
  /\ positions'[i].accepted = positions[i].accepted
  /\ positions'[i].entryAcc = positions[i].entryAcc
  /\ books'[positions[i].outcome].acc \in Nat
  /\ books'[positions[i].outcome].acc >= books[positions[i].outcome].acc

(* A roll leaves finalized positions alone and raises accumulators only. *)
LEMMA RollKeeps ==
  ASSUME IInv, status # "None", NEW due \in BOOLEAN
  PROVE  /\ \A w \in Outcomes : /\ BooksAfter(due)[w].acc \in Nat
                                /\ BooksAfter(due)[w].acc >= books[w].acc
         /\ \A i \in 1..Count :
              positions[i].finalized => PositionsAfter(due)[i] = positions[i]
<1>1. LedgerType /\ PendingOK(books, positions, pending)
  BY LedgerTyped DEF LedgerOK
<1>2. ASSUME NEW w \in Outcomes
      PROVE  BooksAfter(due)[w].acc \in Nat /\ BooksAfter(due)[w].acc >= books[w].acc
  <2>1. AccAfter(w) \in Nat /\ AccAfter(w) >= books[w].acc /\ books[w].acc \in Nat
    BY <1>1, AccAfterType, BookAt
  <2>2. FinalBooks[w].acc = AccAfter(w)
    BY DEF FinalBooks
  <2> QED BY <2>1, <2>2 DEF BooksAfter
<1>3. ASSUME NEW i \in 1..Count, positions[i].finalized
      PROVE  PositionsAfter(due)[i] = positions[i]
  <2>1. i \notin pending
    BY <1>1, <1>3 DEF PendingOK, Count
  <2> QED BY <2>1 DEF PositionsAfter, FinalPositions
<1> QED BY <1>2, <1>3

(* A stake exists only in a created market, on one of its outcomes. *)
LEMMA StakeExists ==
  ASSUME IInv, NEW i \in 1..Count
  PROVE  /\ status # "None"
         /\ positions[i].outcome \in Outcomes
         /\ positions[i].accepted \in Nat /\ positions[i].entryAcc \in Nat
         /\ books[positions[i].outcome].acc \in Nat
         /\ positions[i].entryAcc <= books[positions[i].outcome].acc
<1>1. status # "None"
  BY DEF IInv, LedgerInv, Blank, Count
<1>2. LedgerType /\ PendingOK(books, positions, pending)
  BY <1>1, LedgerTyped DEF LedgerOK
<1> QED BY <1>1, <1>2, PositionAt, BookAt DEF PendingOK, Count

(* Every function keeps the terms of every accepted stake. *)
LEMMA StepKeepsTerms ==
  ASSUME IInv, [Next]_vars, NEW i \in 1..Count, positions[i].finalized
  PROVE  TermsKept(i)
<1> DEFINE o == positions[i].outcome
<1>1. /\ status # "None" /\ o \in Outcomes /\ books[o].acc \in Nat
  BY StakeExists
<1>2. Count \in Nat /\ books \in [Outcomes -> Book] /\ positions \in Seq(Position)
  BY <1>1, LedgerTyped, CountNat DEF LedgerType
<1> positions \in [1..Count -> Position]
  BY <1>2, SeqIsFun DEF Count
<1>3. ASSUME Roll PROVE TermsKept(i)
  <2>1. RollDue \in BOOLEAN
    BY DEF RollDue, IInv, TypeOK
  <2> QED BY <1>1, <1>3, <2>1, RollKeeps DEF Roll, TermsKept
<1>4. ASSUME UNCHANGED <<books, positions>> PROVE TermsKept(i)
  BY <1>1, <1>4 DEF TermsKept
<1>5. ASSUME NEW seed \in Seeds, NEW k \in Kappas, Create(seed, k) PROVE FALSE
  BY <1>1, <1>5 DEF Create
<1>6. ASSUME NEW u \in Users, NEW w \in Outcomes, NEW amount \in Amounts, Enter(u, w, amount)
      PROVE  TermsKept(i)
  <2> DEFINE due == RollDue
             e == [owner |-> u, outcome |-> w, finalized |-> FALSE, refunded |-> FALSE,
                   claimed |-> FALSE, vintage |-> blockNo, offered |-> amount,
                   accepted |-> 0, entryAcc |-> 0]
  <2>1. due \in BOOLEAN
    BY DEF RollDue, IInv, TypeOK
  <2>2. /\ positions' = Append(PositionsAfter(due), e)
        /\ books' = [v \in Outcomes |->
                       IF v = w THEN BooksAfter(due)[v]
                       ELSE [BooksAfter(due)[v] EXCEPT !.demand = @ + amount]]
    BY <1>6 DEF Enter
  <2> HIDE DEF due, e
  <2>3. PositionsAfter(due) \in Seq(Position) /\ Len(PositionsAfter(due)) = Count
        /\ BooksAfter(due) \in [Outcomes -> Book]
    BY <1>1, <2>1, AfterRoll
  <2>4. positions'[i] = PositionsAfter(due)[i]
    BY <2>2, <2>3
  <2>5. BooksAfter(due)[o] \in Book
    BY <1>1, <2>3
  <2>6. books'[o].acc = BooksAfter(due)[o].acc
    BY <1>1, <2>2, <2>5 DEF Book
  <2> QED BY <1>1, <2>1, <2>4, <2>6, RollKeeps DEF TermsKept
<1>7. ASSUME FinalizeVintage PROVE TermsKept(i)
  BY <1>3, <1>7 DEF FinalizeVintage
<1>8. ASSUME NEW u, NEW w, Resolve(u, w) PROVE TermsKept(i)
  BY <1>3, <1>8 DEF Resolve
<1>9. ASSUME NEW u, VoidMarket(u) PROVE TermsKept(i)
  BY <1>3, <1>9 DEF VoidMarket
<1>10. ASSUME NEW u \in Users, NEW j \in 1..Count, WithdrawRefund(u, j) PROVE TermsKept(i)
  <2> DEFINE due == status = "Open" /\ RollDue
  <2>1. due \in BOOLEAN
    BY DEF RollDue, IInv, TypeOK
  <2>2. /\ positions' = [PositionsAfter(due) EXCEPT ![j].refunded = TRUE]
        /\ books' = BooksAfter(due)
    BY <1>10 DEF WithdrawRefund
  <2> HIDE DEF due
  <2>3. PositionsAfter(due) \in Seq(Position) /\ Len(PositionsAfter(due)) = Count
    BY <1>1, <2>1, AfterRoll
  <2>4. PositionsAfter(due)[i] \in Position
    BY <1>2, <2>3
  <2>5. /\ positions'[i].finalized = PositionsAfter(due)[i].finalized
        /\ positions'[i].outcome = PositionsAfter(due)[i].outcome
        /\ positions'[i].accepted = PositionsAfter(due)[i].accepted
        /\ positions'[i].entryAcc = PositionsAfter(due)[i].entryAcc
    BY <2>2, <2>3, <2>4, SMTT(30) DEF Position
  <2> QED BY <1>1, <1>10, <2>1, <2>2, <2>5, RollKeeps DEF TermsKept
<1>11. ASSUME NEW u \in Users, NEW j \in 1..Count, Claim(u, j) PROVE TermsKept(i)
  <2>1. positions[i] \in Position /\ books[o] \in Book
    BY <1>1, <1>2
  <2>2. positions' = [positions EXCEPT ![j].refunded = TRUE, ![j].claimed = TRUE]
    BY <1>11 DEF Claim
  <2>3. books' = books \/ books' = [books EXCEPT ![winner].live = @ - 1]
    BY <1>11 DEF Claim
  <2>4. books'[o].acc = books[o].acc
    <3>1. books'[o] = books[o] \/ books'[o] = [books[o] EXCEPT !.live = @ - 1]
      BY <1>1, <1>2, <2>3
    <3> QED BY <2>1, <3>1 DEF Book
  <2>5. /\ positions'[i].finalized = positions[i].finalized
        /\ positions'[i].outcome = o
        /\ positions'[i].accepted = positions[i].accepted
        /\ positions'[i].entryAcc = positions[i].entryAcc
    BY <2>2 DEF Position
  <2> QED BY <1>1, <2>4, <2>5 DEF TermsKept
<1>12. ASSUME NEW u, ClaimResidue(u) PROVE TermsKept(i)
  BY <1>4, <1>12 DEF ClaimResidue, ledgerVars
<1>13. ASSUME NEW u, NEW to, NEW j \in 1..Count, TransferPosition(u, j, to) PROVE TermsKept(i)
  <2>1. positions' = [positions EXCEPT ![j].owner = to] /\ books' = books
    BY <1>13 DEF TransferPosition
  <2>2. /\ positions'[i].finalized = positions[i].finalized
        /\ positions'[i].outcome = o
        /\ positions'[i].accepted = positions[i].accepted
        /\ positions'[i].entryAcc = positions[i].entryAcc
    BY <2>1 DEF Position
  <2> QED BY <1>1, <2>1, <2>2 DEF TermsKept
<1>14. ASSUME NextBlock PROVE TermsKept(i)
  BY <1>4, <1>14 DEF NextBlock, ledgerVars
<1>15. ASSUME UNCHANGED vars PROVE TermsKept(i)
  BY <1>4, <1>15 DEF vars, ledgerVars
<1> QED BY <1>5, <1>6, <1>7, <1>8, <1>9, <1>10, <1>11, <1>12, <1>13, <1>14, <1>15 DEF Next

(* A larger accumulator never makes a stake worth less. *)
LEMMA WeightMonotone ==
  ASSUME NEW s \in Nat, NEW a \in Nat, NEW b \in Nat, NEW e \in Nat, b >= a
  PROVE  s * (SCALE + b - e) >= s * (SCALE + a - e)
<1>1. PICK d \in Nat : b = a + d
  <2>1. b - a \in Nat /\ b = a + (b - a)
    OBVIOUS
  <2> QED BY <2>1
<1>2. SCALE + a - e \in Int /\ SCALE + b - e = (SCALE + a - e) + d
  BY <1>1, ScaleAssumption
<1>3. s * ((SCALE + a - e) + d) = s * (SCALE + a - e) + s * d
  BY <1>2
<1>4. s * d \in Nat /\ s * (SCALE + a - e) \in Int
  BY <1>2
<1> QED BY <1>2, <1>3, <1>4

(* P3: nothing that enters later, and no settlement, refund or transfer, ever lowers
   what an accepted stake would be paid, or touches its terms. *)
THEOREM NeverDiluted == Spec => ClaimsNeverDiluted
<1> DEFINE Kept == \A i \in 1..Count : positions[i].finalized =>
                     /\ positions'[i].finalized
                     /\ positions'[i].accepted = positions[i].accepted
                     /\ positions'[i].entryAcc = positions[i].entryAcc
                     /\ Weight(positions[i])' >= Weight(positions[i])
<1>1. IInv /\ [Next]_vars => [Kept]_vars
  <2> SUFFICES ASSUME IInv, [Next]_vars, NEW i \in 1..Count, positions[i].finalized
               PROVE  /\ positions'[i].finalized
                      /\ positions'[i].accepted = positions[i].accepted
                      /\ positions'[i].entryAcc = positions[i].entryAcc
                      /\ Weight(positions[i])' >= Weight(positions[i])
    OBVIOUS
  <2>1. TermsKept(i)
    BY StepKeepsTerms
  <2> DEFINE s == positions[i].accepted
             e == positions[i].entryAcc
             a == books[positions[i].outcome].acc
             b == books'[positions[i].outcome].acc
  <2>2. s \in Nat /\ e \in Nat /\ a \in Nat /\ b \in Nat /\ b >= a
    BY <2>1, StakeExists DEF TermsKept
  <2>3. Weight(positions[i]) = s * (SCALE + a - e) /\ Weight(positions[i])' = s * (SCALE + b - e)
    BY <2>1 DEF Weight, TermsKept
  <2> HIDE DEF s, e, a, b
  <2>4. Weight(positions[i])' >= Weight(positions[i])
    BY <2>2, <2>3, WeightMonotone
  <2> QED BY <2>1, <2>4 DEF TermsKept
<1> QED BY <1>1, Invariance, PTL DEF Spec, ClaimsNeverDiluted

-----------------------------------------------------------------------------
(* That rationing keeps its word for a whole vintage: each entry is cut to *)
(* its own share, one at a time, and what they vest together never takes a *)
(* bounded book past the capacity it had before.  The argument needs the   *)
(* demand a book has recorded to be exactly what the open vintage offers   *)
(* against it, through every roll, entry and refund.                       *)

(* What the entries that are not finalized offer against w. *)
OffersAgainst(p, w) ==
  [i \in 1..Len(p) |-> IF p[i].outcome # w /\ ~p[i].finalized THEN p[i].offered ELSE 0]

DemandOK(b, p) == \A w \in Outcomes : b[w].demand = Sum(OffersAgainst(p, w), Len(p))

DemandInv == status # "None" => DemandOK(books, positions)

LEMMA OffersNat ==
  ASSUME NEW p, p \in Seq(Position), NEW w
  PROVE  Len(p) \in Nat /\ \A i \in 1..Len(p) : OffersAgainst(p, w)[i] \in Nat
<1>1. Len(p) \in Nat /\ \A i \in 1..Len(p) : p[i] \in Position
  BY SeqIsFun
<1> QED BY <1>1 DEF OffersAgainst, Position

(* Two lists of positions that agree on outcome, offer and finality. *)
LEMMA DemandFrame ==
  ASSUME NEW b, NEW p, DemandOK(b, p), NEW b2, NEW p2, Len(p2) = Len(p),
         \A w \in Outcomes : b2[w].demand = b[w].demand,
         \A i \in 1..Len(p) : /\ p2[i].outcome = p[i].outcome
                              /\ p2[i].offered = p[i].offered
                              /\ p2[i].finalized = p[i].finalized
  PROVE  DemandOK(b2, p2)
<1>1. ASSUME NEW w PROVE OffersAgainst(p2, w) = OffersAgainst(p, w)
  BY DEF OffersAgainst
<1> QED BY <1>1 DEF DemandOK

(* With nothing pending there is no demand. *)
LEMMA DemandReset ==
  ASSUME NEW b, NEW p, Len(p) \in Nat, \A i \in 1..Len(p) : p[i].finalized,
         \A w \in Outcomes : b[w].demand = 0
  PROVE  DemandOK(b, p)
<1>1. ASSUME NEW w \in Outcomes PROVE Sum(OffersAgainst(p, w), Len(p)) = 0
  <2>1. \A i \in 1..Len(p) : OffersAgainst(p, w)[i] = 0
    BY DEF OffersAgainst
  <2> QED BY <2>1, SumZeros
<1> QED BY <1>1 DEF DemandOK

-----------------------------------------------------------------------------
(* Rationing.                                                              *)

(* An entry is cut to at most its share of every book that rations it. *)
LEMMA AcceptedShare ==
  ASSUME LedgerType, NEW p \in Position, NEW w \in RationingBooks(p.outcome)
  PROVE  /\ Accepted(p) \in Nat
         /\ books[w].demand * Accepted(p) <= p.offered * Headroom(books[w])
<1> DEFINE Share(v) == (p.offered * Headroom(books[v])) \div books[v].demand
           S == {p.offered} \cup {Share(v) : v \in RationingBooks(p.outcome)}
<1>1. p.offered \in Nat
  BY DEF Position
<1>2. ASSUME NEW v \in RationingBooks(p.outcome)
      PROVE  /\ Share(v) \in Nat /\ books[v].demand \in Nat /\ books[v].demand > 0
             /\ books[v].demand * Share(v) <= p.offered * Headroom(books[v])
             /\ p.offered * Headroom(books[v]) \in Nat
  <2>1. /\ v \in Outcomes /\ books[v].demand \in Nat
        /\ Headroom(books[v]) \in Nat /\ books[v].demand > 0
    BY BookAt, HeadroomType DEF RationingBooks, Kappa
  <2>2. p.offered * Headroom(books[v]) \in Nat
    BY <1>1, <2>1
  <2> QED BY <2>1, <2>2, DivType
<1>3. S \in SUBSET Nat /\ S # {} /\ Share(w) \in S
  BY <1>1, <1>2
<1>4. Min(S) \in Nat /\ Min(S) <= Share(w)
  <2> HIDE DEF S, Share
  <2> QED BY <1>3, MinNat
<1>5. Accepted(p) = Min(S)
  BY DEF Accepted
<1> HIDE DEF S, Share
<1>6. ASSUME NEW d \in Nat, NEW a \in Nat, NEW s \in Nat, a <= s PROVE d * a <= d * s
  BY <1>6
<1>7. books[w].demand * Min(S) <= books[w].demand * Share(w)
  BY <1>2, <1>4, <1>6
<1>8. books[w].demand * Min(S) \in Int /\ books[w].demand * Share(w) \in Int
  BY <1>2, <1>4
<1> QED BY <1>2, <1>4, <1>5, <1>7, <1>8

(* What a vintage vests into a bounded book is at most its headroom. *)
LEMMA InflowWithinHeadroom ==
  ASSUME LedgerType, LedgerOK(books, positions, acceptedPool, pending),
         DemandOK(books, positions), NEW w \in Outcomes,
         books[w].capacity # KAPPA_UNBOUNDED
  PROVE  Inflow(w) <= Headroom(books[w])
<1> DEFINE in == [i \in 1..Count |-> IF positions[i].outcome # w THEN AcceptedNow[i] ELSE 0]
           offer == OffersAgainst(positions, w)
           D == books[w].demand
           H == Headroom(books[w])
<1>1. /\ Count \in Nat /\ Count = Len(positions) /\ D \in Nat /\ H \in Nat /\ H # KAPPA_UNBOUNDED
      /\ D = Sum(offer, Count)
  <2>1. H \in Nat /\ H # KAPPA_UNBOUNDED
    BY BookAt DEF Headroom, Kappa, KAPPA_UNBOUNDED
  <2>2. Count \in Nat /\ Count = Len(positions)
    BY CountNat DEF Count
  <2>3. D \in Nat /\ D = Sum(offer, Count)
    BY <2>2, BookAt DEF DemandOK
  <2> QED BY <2>1, <2>2, <2>3
<1>2. Inflow(w) = Sum(in, Count)
  BY DEF Inflow
<1>3. ASSUME NEW i \in 1..Count
      PROVE  in[i] \in Nat /\ offer[i] \in Nat /\ in[i] <= offer[i]
  <2>1. /\ AcceptedNow[i] \in Nat /\ AcceptedNow[i] <= positions[i].offered
        /\ positions[i].offered \in Nat
    BY <1>3, AcceptedNowType, PositionAt
  <2>2. i \in pending <=> ~positions[i].finalized
    BY <1>1 DEF LedgerOK, PendingOK
  <2>3. CASE i \in pending
    BY <1>1, <2>1, <2>2, <2>3 DEF OffersAgainst
  <2>4. CASE i \notin pending
    <3>1. AcceptedNow[i] = 0
      BY <2>4 DEF AcceptedNow
    <3> QED BY <1>1, <2>1, <2>2, <2>4, <3>1 DEF OffersAgainst
  <2> QED BY <2>3, <2>4
<1>4. Sum(in, Count) \in Nat
  <2> HIDE DEF in
  <2> QED BY <1>1, <1>3, SumNat
<1>5. CASE D <= H
  <2>1. Sum(in, Count) <= Sum(offer, Count)
    <3>1. Count \in Nat /\ \A i \in 1..Count : in[i] \in Nat /\ offer[i] \in Nat /\ in[i] <= offer[i]
      BY <1>1, <1>3
    <3> HIDE DEF in, offer
    <3> QED BY ONLY <3>1, SumLe
  <2> QED BY <1>1, <1>2, <1>4, <1>5, <2>1
<1>6. CASE D > H
  <2> DEFINE given == [i \in 1..Count |-> D * in[i]]
             share == [i \in 1..Count |-> H * offer[i]]
  <2>1. ASSUME NEW i \in 1..Count
        PROVE  D * in[i] \in Nat /\ H * offer[i] \in Nat /\ D * in[i] <= H * offer[i]
    <3>1. D * in[i] \in Nat /\ H * offer[i] \in Nat
      <4>1. D \in Nat /\ H \in Nat /\ in[i] \in Nat /\ offer[i] \in Nat
        BY <1>1, <1>3
      <4>2. \A x, y \in Nat : x * y \in Nat
        OBVIOUS
      <4> HIDE DEF in, offer, D, H
      <4> QED BY ONLY <4>1, <4>2
    <3>2. CASE positions[i].outcome # w /\ i \in pending
      <4>1. positions[i] \in Position /\ w \in RationingBooks(positions[i].outcome)
        BY <1>1, <1>6, <3>2, PositionAt DEF RationingBooks
      <4>2. D * Accepted(positions[i]) <= positions[i].offered * H
        BY <4>1, AcceptedShare
      <4>3. in[i] = Accepted(positions[i])
        BY <3>2 DEF AcceptedNow
      <4>4. offer[i] = positions[i].offered /\ positions[i].offered \in Nat
        BY <1>1, <3>2, PositionAt DEF OffersAgainst, LedgerOK, PendingOK
      <4>5. positions[i].offered * H = H * offer[i]
        <5> HIDE DEF H, offer
        <5> QED BY <1>1, <4>4
      <4>6. D * in[i] <= H * offer[i]
        BY <4>2, <4>3, <4>5
      <4> QED BY <3>1, <4>6
    <3>3. CASE ~(positions[i].outcome # w /\ i \in pending)
      <4>1. in[i] = 0
        BY <3>3 DEF AcceptedNow
      <4>2. D * in[i] = 0
        <5> HIDE DEF in, D
        <5> QED BY <1>1, <4>1
      <4> QED BY <3>1, <4>2
    <3> QED BY <3>2, <3>3
  <2>2. \A i \in 1..Count : /\ in[i] \in Nat /\ offer[i] \in Nat
                            /\ given[i] \in Nat /\ share[i] \in Nat /\ given[i] <= share[i]
                            /\ given[i] = D * in[i] /\ share[i] = H * offer[i]
    BY <1>3, <2>1
  <2>3. Count \in Nat /\ D \in Nat /\ H \in Nat /\ D = Sum(offer, Count) /\ D > H
    BY <1>1, <1>6
  <2> HIDE DEF in, offer, D, H, given, share
  <2>4. Sum(given, Count) = D * Sum(in, Count)
    BY ONLY <2>2, <2>3, SumScale
  <2>5. Sum(share, Count) = H * Sum(offer, Count)
    BY ONLY <2>2, <2>3, SumScale
  <2>6. Sum(given, Count) <= Sum(share, Count)
    BY ONLY <2>2, <2>3, SumLe
  <2>7. D * Sum(in, Count) <= D * H
    <3>1. H * Sum(offer, Count) = D * H
      BY <2>3
    <3> QED BY <2>4, <2>5, <2>6, <3>1
  <2>8. ASSUME NEW x \in Nat, NEW y \in Nat, NEW d \in Nat, d > 0, d * x <= d * y PROVE x <= y
    BY <2>8
  <2>9. Sum(in, Count) <= H
    <3>1. Sum(in, Count) \in Nat /\ D > 0
      BY <1>4, <2>3
    <3> QED BY ONLY <2>3, <2>7, <2>8, <3>1
  <2> QED BY <1>2, <2>9 DEF in, H
<1> QED BY <1>1, <1>5, <1>6

-----------------------------------------------------------------------------
(* The demand a book has recorded.                                         *)

LEMMA DemandAfterRoll ==
  ASSUME IInv, DemandInv, status # "None", NEW due \in BOOLEAN
  PROVE  DemandOK(BooksAfter(due), PositionsAfter(due))
<1>1. LedgerType /\ PendingOK(books, positions, pending)
  BY LedgerTyped DEF LedgerOK
<1>2. CASE due
  <2>1. Len(FinalPositions) = Count /\ Count \in Nat
    BY <1>1, CountNat, FinalPositionsType
  <2>2. ASSUME NEW i \in 1..Count PROVE FinalPositions[i].finalized
    <3>1. positions[i] \in Position
      BY <1>1, PositionAt
    <3> QED BY <1>1, <3>1 DEF FinalPositions, PendingOK, Count, Position
  <2>3. \A w \in Outcomes : FinalBooks[w].demand = 0
    BY DEF FinalBooks
  <2>4. DemandOK(FinalBooks, FinalPositions)
    BY <2>1, <2>2, <2>3, DemandReset
  <2> QED BY <1>2, <2>4 DEF BooksAfter, PositionsAfter
<1>3. CASE ~due
  BY <1>3 DEF BooksAfter, PositionsAfter, DemandInv
<1> QED BY <1>2, <1>3

LEMMA CreateDemand ==
  ASSUME IInv, NEW seed \in Seeds, NEW k \in Kappas, Create(seed, k)
  PROVE  DemandOK(books', positions')
<1> DEFINE leg == SeedClamp(seed, k)
<1>1. seed \in Legs /\ k \in Kappa
  BY InputAssumption DEF Legs, Kappa
<1>2. leg \in Legs
  BY <1>1, SeedClampType
<1>3. /\ \A o \in Outcomes : leg[o] # 0
      /\ books' = [w \in Outcomes |-> SeedBook(leg, w, Sum(leg, N), k)]
      /\ positions' = [w \in Outcomes |-> SeedPosition(seed, leg, w)]
  BY DEF Create
<1> HIDE DEF leg
<1>4. Len(positions') = N /\ N \in Nat /\ Outcomes = 1..N
  BY <1>1, <1>2, <1>3, LedgerSeed, SizeAssumption DEF Outcomes
<1>5. ASSUME NEW w \in Outcomes PROVE books'[w].demand = 0 /\ positions'[w].finalized
  <2>1. books'[w] = SeedBook(leg, w, Sum(leg, N), k) /\ positions'[w] = SeedPosition(seed, leg, w)
    BY <1>3
  <2> QED BY <2>1 DEF SeedBook, SeedPosition
<1> QED BY <1>4, <1>5, DemandReset

(* enter: the offer lands on every opposing book and in the buffer alike. *)
LEMMA EnterDemand ==
  ASSUME IInv, DemandInv, NEW u \in Users, NEW o \in Outcomes, NEW amount \in Amounts,
         Enter(u, o, amount)
  PROVE  DemandOK(books', positions')
<1> DEFINE b == BooksAfter(RollDue)
           p == PositionsAfter(RollDue)
           e == [owner |-> u, outcome |-> o, finalized |-> FALSE, refunded |-> FALSE,
                 claimed |-> FALSE, vintage |-> blockNo, offered |-> amount,
                 accepted |-> 0, entryAcc |-> 0]
           n == Len(p)
<1>1. RollDue \in BOOLEAN /\ status # "None"
  BY DEF RollDue, IInv, TypeOK, Enter
<1>2. /\ positions' = Append(p, e)
      /\ books' = [w \in Outcomes |->
                     IF w = o THEN b[w] ELSE [b[w] EXCEPT !.demand = @ + amount]]
  BY DEF Enter
<1>3. b \in [Outcomes -> Book] /\ p \in Seq(Position) /\ DemandOK(b, p)
  BY <1>1, AfterRoll, DemandAfterRoll
<1>4. e \in Position /\ e.outcome = o /\ e.offered = amount /\ ~e.finalized /\ amount \in Nat
  <2>1. blockNo \in Nat /\ amount \in Nat
    BY InputAssumption DEF IInv, TypeOK
  <2> QED BY <2>1 DEF Position
<1> HIDE DEF b, p, e
<1>5. /\ n \in Nat /\ Len(positions') = n + 1
      /\ \A i \in 1..n : positions'[i] = p[i]
      /\ positions'[n + 1] = e
  BY <1>2, <1>3, <1>4, AppendIsFun, SeqIsFun
<1> HIDE DEF n
<1>6. ASSUME NEW w \in Outcomes
      PROVE  books'[w].demand = Sum(OffersAgainst(positions', w), n + 1)
  <2> DEFINE new == IF w = o THEN 0 ELSE amount
  <2>1. b[w] \in Book /\ b[w].demand \in Nat
    BY <1>3 DEF Book
  <2>2. books'[w].demand = b[w].demand + new
    <3>1. CASE w = o
      BY <1>2, <2>1, <3>1
    <3>2. CASE w # o
      <4>1. books'[w] = [b[w] EXCEPT !.demand = @ + amount]
        BY <1>2, <3>2
      <4> QED BY <2>1, <3>2, <4>1 DEF Book
    <3> QED BY <3>1, <3>2
  <2>3. OffersAgainst(positions', w)[n + 1] = new
    BY <1>4, <1>5 DEF OffersAgainst
  <2>4. \A i \in 1..n : OffersAgainst(positions', w)[i] = OffersAgainst(p, w)[i]
    BY <1>5 DEF OffersAgainst, n
  <2>5. Sum(OffersAgainst(positions', w), n) = Sum(OffersAgainst(p, w), n)
    BY <1>5, <2>4, SumEq
  <2>6. Sum(OffersAgainst(positions', w), n + 1)
          = Sum(OffersAgainst(positions', w), n) + OffersAgainst(positions', w)[n + 1]
    BY <1>5, SumStep
  <2>7. b[w].demand = Sum(OffersAgainst(p, w), n)
    BY <1>3 DEF DemandOK, n
  <2> QED BY <2>2, <2>3, <2>5, <2>6, <2>7
<1> QED BY <1>5, <1>6 DEF DemandOK

(* The books and positions a step other than creation and entry leaves: those after
   the roll, with flags, owners and live counts changed only. *)
AfterRollUpTo(due) ==
  /\ Len(positions') = Len(PositionsAfter(due))
  /\ \A w \in Outcomes : /\ books'[w].demand = BooksAfter(due)[w].demand
                         /\ books'[w].vested = BooksAfter(due)[w].vested
  /\ \A i \in 1..Len(PositionsAfter(due)) :
       /\ positions'[i].outcome = PositionsAfter(due)[i].outcome
       /\ positions'[i].offered = PositionsAfter(due)[i].offered
       /\ positions'[i].finalized = PositionsAfter(due)[i].finalized

LEMMA OtherSteps ==
  ASSUME IInv, [Next]_vars, status # "None",
         ~\E u \in Users, o \in Outcomes, amount \in Amounts : Enter(u, o, amount)
  PROVE  \E due \in BOOLEAN : AfterRollUpTo(due)
<1>1. /\ books \in [Outcomes -> Book] /\ positions \in Seq(Position)
      /\ Count = Len(positions) /\ positions \in [1..Count -> Position] /\ RollDue \in BOOLEAN
  BY SeqIsFun DEF IInv, TypeOK, Count, RollDue
<1>2. ASSUME UNCHANGED <<books, positions>> PROVE AfterRollUpTo(FALSE)
  BY <1>2 DEF AfterRollUpTo, BooksAfter, PositionsAfter
<1>3. ASSUME Roll PROVE AfterRollUpTo(RollDue)
  BY <1>3 DEF AfterRollUpTo, Roll
<1>4. ASSUME NEW u \in Users, NEW i \in 1..Count, WithdrawRefund(u, i)
      PROVE  \E due \in BOOLEAN : AfterRollUpTo(due)
  <2> DEFINE due == status = "Open" /\ RollDue
             p == PositionsAfter(due)
  <2>1. due \in BOOLEAN
    BY <1>1
  <2>2. books' = BooksAfter(due) /\ positions' = [p EXCEPT ![i].refunded = TRUE]
    BY <1>4 DEF WithdrawRefund
  <2> HIDE DEF due
  <2>3. p \in Seq(Position) /\ Len(p) = Count /\ p \in [1..Count -> Position] /\ Count \in Nat
    BY <2>1, AfterRoll, SeqIsFun
  <2> HIDE DEF p
  <2>4. positions' \in [1..Count -> Position]
    <3>1. [p[i] EXCEPT !.refunded = TRUE] \in Position
      BY <2>3 DEF Position
    <3> QED BY <2>2, <2>3, <3>1
  <2>5. Len(positions') = Len(p)
    BY <2>3, <2>4, FunIsSeq
  <2>6. ASSUME NEW j \in 1..Count
        PROVE  /\ positions'[j].outcome = p[j].outcome /\ positions'[j].offered = p[j].offered
               /\ positions'[j].finalized = p[j].finalized
    <3>1. p[j] \in Position
      BY <2>3
    <3>2. positions'[j] = p[j] \/ positions'[j] = [p[j] EXCEPT !.refunded = TRUE]
      BY <2>2, <2>3
    <3> QED BY <3>1, <3>2 DEF Position
  <2>7. AfterRollUpTo(due)
    BY <2>2, <2>3, <2>5, <2>6 DEF AfterRollUpTo, p
  <2> QED BY <2>1, <2>7
<1>5. ASSUME NEW u \in Users, NEW i \in 1..Count, Claim(u, i) PROVE AfterRollUpTo(FALSE)
  <2>1. /\ positions' = [positions EXCEPT ![i].refunded = TRUE, ![i].claimed = TRUE]
        /\ books' = books \/ books' = [books EXCEPT ![winner].live = @ - 1]
    BY <1>5 DEF Claim
  <2>2. ASSUME NEW j \in 1..Count
        PROVE  /\ positions'[j].outcome = positions[j].outcome
               /\ positions'[j].offered = positions[j].offered
               /\ positions'[j].finalized = positions[j].finalized
    <3>1. positions[j] \in Position
      BY <1>1
    <3>2. \/ positions'[j] = positions[j]
          \/ positions'[j] = [positions[j] EXCEPT !.refunded = TRUE, !.claimed = TRUE]
      BY <1>1, <2>1
    <3> QED BY <3>1, <3>2 DEF Position
  <2>3. ASSUME NEW w \in Outcomes
        PROVE  books'[w].demand = books[w].demand /\ books'[w].vested = books[w].vested
    <3>1. books[w] \in Book
      BY <1>1
    <3>2. books'[w] = books[w] \/ books'[w] = [books[w] EXCEPT !.live = @ - 1]
      BY <1>1, <2>1
    <3> QED BY <3>1, <3>2 DEF Book
  <2>4. Len(positions') = Len(positions)
    <3>1. [positions[i] EXCEPT !.refunded = TRUE, !.claimed = TRUE] \in Position
      BY <1>1 DEF Position
    <3>2. positions' \in [1..Count -> Position] /\ Count \in Nat
      BY <1>1, <2>1, <3>1, SeqIsFun
    <3> QED BY <1>1, <3>2, FunIsSeq
  <2> QED BY <1>1, <2>2, <2>3, <2>4 DEF AfterRollUpTo, BooksAfter, PositionsAfter
<1>6. ASSUME NEW u \in Users, NEW to \in Users, NEW i \in 1..Count, TransferPosition(u, i, to)
      PROVE  AfterRollUpTo(FALSE)
  <2>1. positions' = [positions EXCEPT ![i].owner = to] /\ books' = books
    BY <1>6 DEF TransferPosition
  <2>2. ASSUME NEW j \in 1..Count
        PROVE  /\ positions'[j].outcome = positions[j].outcome
               /\ positions'[j].offered = positions[j].offered
               /\ positions'[j].finalized = positions[j].finalized
    <3>1. positions[j] \in Position
      BY <1>1
    <3>2. positions'[j] = positions[j] \/ positions'[j] = [positions[j] EXCEPT !.owner = to]
      BY <1>1, <2>1
    <3> QED BY <3>1, <3>2 DEF Position
  <2>3. Len(positions') = Len(positions)
    <3>1. [positions[i] EXCEPT !.owner = to] \in Position
      BY <1>1, <1>6 DEF Position
    <3>2. positions' \in [1..Count -> Position] /\ Count \in Nat
      BY <1>1, <2>1, <3>1, SeqIsFun
    <3> QED BY <1>1, <3>2, FunIsSeq
  <2> QED BY <1>1, <2>1, <2>2, <2>3 DEF AfterRollUpTo, BooksAfter, PositionsAfter
<1>7. CASE \E u \in Users, i \in 1..Count : WithdrawRefund(u, i)
  BY <1>4, <1>7
<1>8. ASSUME NEW seed, NEW k, Create(seed, k) PROVE FALSE
  BY <1>8 DEF Create
<1>9. CASE FinalizeVintage \/ (\E u, w : Resolve(u, w)) \/ (\E u : VoidMarket(u))
  BY <1>1, <1>3, <1>9 DEF FinalizeVintage, Resolve, VoidMarket
<1>10. CASE (\E u : ClaimResidue(u)) \/ NextBlock \/ UNCHANGED vars
  BY <1>2, <1>10 DEF ClaimResidue, NextBlock, vars, ledgerVars
<1>11. CASE \E u \in Users, i \in 1..Count : Claim(u, i)
  BY <1>5, <1>11
<1>12. CASE \E u \in Users, to \in Users, i \in 1..Count : TransferPosition(u, i, to)
  BY <1>6, <1>12
<1> QED BY <1>7, <1>8, <1>9, <1>10, <1>11, <1>12 DEF Next

LEMMA DemandStep == IInv /\ DemandInv /\ [Next]_vars => DemandInv'
<1> SUFFICES ASSUME IInv, DemandInv, [Next]_vars, status' # "None"
             PROVE  DemandOK(books', positions')
  BY DEF DemandInv
<1>1. CASE status = "None"
  <2>1. ~UNCHANGED status
    BY <1>1
  <2>2. \E seed \in Seeds, k \in Kappas : Create(seed, k)
    BY <1>1, <2>1 DEF Next, vars, settleVars, Enter, FinalizeVintage, Resolve, VoidMarket,
          WithdrawRefund, Claim, ClaimResidue, TransferPosition, NextBlock
  <2> QED BY <2>2, CreateDemand
<1>2. CASE \E u \in Users, o \in Outcomes, amount \in Amounts : Enter(u, o, amount)
  BY <1>2, EnterDemand
<1>3. CASE /\ status # "None"
           /\ ~\E u \in Users, o \in Outcomes, amount \in Amounts : Enter(u, o, amount)
  <2>1. PICK due \in BOOLEAN : AfterRollUpTo(due)
    BY <1>3, OtherSteps
  <2>2. DemandOK(BooksAfter(due), PositionsAfter(due))
    BY <1>3, DemandAfterRoll
  <2> QED BY <2>1, <2>2, DemandFrame DEF AfterRollUpTo
<1> QED BY <1>1, <1>2, <1>3

-----------------------------------------------------------------------------
(* What one call vests into a book is nothing, or the inflow of the vintage. *)
LEMMA StepVests ==
  ASSUME IInv, [Next]_vars, status # "None", NEW w \in Outcomes
  PROVE  books'[w].vested \in {books[w].vested, books[w].vested + Inflow(w)}
<1>1. ASSUME NEW due \in BOOLEAN
      PROVE  BooksAfter(due)[w].vested \in {books[w].vested, books[w].vested + Inflow(w)}
  BY DEF BooksAfter, FinalBooks
<1>2. CASE \E u \in Users, o \in Outcomes, amount \in Amounts : Enter(u, o, amount)
  <2>1. PICK u \in Users, o \in Outcomes, amount \in Amounts : Enter(u, o, amount)
    BY <1>2
  <2>2. RollDue \in BOOLEAN
    BY DEF RollDue, IInv, TypeOK
  <2> DEFINE b == BooksAfter(RollDue)
  <2>3. b[w] \in Book
    BY <2>2, AfterRoll
  <2>4. books' = [v \in Outcomes |->
                    IF v = o THEN b[v] ELSE [b[v] EXCEPT !.demand = @ + amount]]
    BY <2>1 DEF Enter
  <2>5. b[w].vested \in {books[w].vested, books[w].vested + Inflow(w)}
    BY <1>1, <2>2
  <2> HIDE DEF b
  <2>6. books'[w] = b[w] \/ books'[w] = [b[w] EXCEPT !.demand = @ + amount]
    BY <2>4
  <2>7. books'[w].vested = b[w].vested
    BY <2>3, <2>6 DEF Book
  <2> QED BY <2>5, <2>7
<1>3. CASE ~\E u \in Users, o \in Outcomes, amount \in Amounts : Enter(u, o, amount)
  BY <1>1, <1>3, OtherSteps DEF AfterRollUpTo
<1> QED BY <1>2, <1>3

(* Rule 2 of the contract, for a whole vintage: however many entries share a block
   and however many bounded books ration them at once, what they vest into a book
   keeps it within the capacity it had before. *)
THEOREM WithinCapacity == Spec => VestsWithinCapacity
<1> DEFINE Within == \A w \in Outcomes :
                       /\ status = "Open"
                       /\ books[w].capacity # KAPPA_UNBOUNDED
                       /\ books'[w].vested > books[w].vested
                       => books'[w].vested <= books[w].capacity
<1>1. Init => IInv /\ DemandInv
  <2>1. Init => DemandInv
    BY DEF Init, DemandInv
  <2> QED BY <2>1, InitInv
<1>2. (IInv /\ DemandInv) /\ [Next]_vars => (IInv /\ DemandInv)'
  BY StepInv, DemandStep
<1>3. (IInv /\ DemandInv) /\ [Next]_vars => [Within]_vars
  <2> SUFFICES ASSUME IInv, DemandInv, [Next]_vars, NEW w \in Outcomes,
                      status = "Open", books[w].capacity # KAPPA_UNBOUNDED,
                      books'[w].vested > books[w].vested
               PROVE  books'[w].vested <= books[w].capacity
    OBVIOUS
  <2>1. LedgerType /\ LedgerOK(books, positions, acceptedPool, pending)
    BY LedgerTyped
  <2>2. books[w].vested \in Nat /\ books[w].capacity \in Nat
    BY <2>1, BookAt DEF Kappa
  <2>3. Inflow(w) \in Nat /\ Inflow(w) <= Headroom(books[w])
    BY <2>1, VintageSums, InflowWithinHeadroom DEF DemandInv
  <2>4. books'[w].vested = books[w].vested + Inflow(w) /\ Inflow(w) > 0
    BY <2>2, <2>3, StepVests
  <2>5. books[w].capacity > books[w].vested /\ Headroom(books[w]) = books[w].capacity - books[w].vested
    BY <2>2, <2>3, <2>4 DEF Headroom
  <2> QED BY <2>2, <2>3, <2>4, <2>5
<1> QED BY <1>1, <1>2, <1>3, PTL DEF Spec, VestsWithinCapacity

-----------------------------------------------------------------------------
(* The batching rule: a vintage's stake never vests to itself or to a      *)
(* later vintage, and all that a branch loses to rounding is less than one *)
(* unit of accumulator per vintage that vested into it.                    *)

(* Finalized stakes are of blocks that are past and of vintages that are closed;
   all the others are of the open one. *)
AgeOK(p, block, open, vblock) ==
  \A i \in 1..Len(p) :
    /\ p[i].finalized => p[i].vintage < block /\ (open => p[i].vintage < vblock)
    /\ ~p[i].finalized => open /\ p[i].vintage = vblock

AgeInv == blockNo >= 1 /\ AgeOK(positions, blockNo, vintageOpen, vintageBlock)

(* The vintages that vested into w. *)
VestedAgainst(p, w) == {j \in 1..Len(p) : p[j].finalized /\ p[j].outcome # w}
VestingOn(p, w) == {p[i].vintage : i \in VestedAgainst(p, w)}

RoundOK(b, p, pool) ==
  \A w \in Outcomes :
    SCALE * pool - Sum(WeightOn(b, p, w), Len(p)) <= Cardinality(VestingOn(p, w)) * b[w].principal

(* What the stakes on w from vintage v on have gained, and the stakes against w
   that are younger. *)
GainFrom(b, p, w, v) ==
  [i \in 1..Len(p) |-> IF p[i].outcome = w /\ p[i].vintage >= v
                       THEN p[i].accepted * (b[p[i].outcome].acc - p[i].entryAcc) ELSE 0]
YoungerOff(p, w, v) ==
  [i \in 1..Len(p) |-> IF p[i].outcome # w /\ p[i].vintage > v THEN SCALE * p[i].accepted ELSE 0]

BatchOK(b, p) ==
  \A w \in Outcomes, v \in Nat \ {0} :
    Sum(GainFrom(b, p, w, v), Len(p)) <= Sum(YoungerOff(p, w, v), Len(p))

BatchInv ==
  /\ AgeInv
  /\ status # "None" => RoundOK(books, positions, acceptedPool) /\ BatchOK(books, positions)

-----------------------------------------------------------------------------
LEMMA VestingFinite ==
  ASSUME NEW p, Len(p) \in Nat, NEW w
  PROVE  IsFiniteSet(VestingOn(p, w)) /\ Cardinality(VestingOn(p, w)) \in Nat
<1>1. IsFiniteSet(1..Len(p))
  BY FS_Interval
<1>2. IsFiniteSet(VestedAgainst(p, w))
  BY <1>1, FS_Subset DEF VestedAgainst
<1>3. IsFiniteSet(VestingOn(p, w))
  <2> DEFINE f == [i \in VestedAgainst(p, w) |-> p[i].vintage]
  <2>1. f \in Surjection(VestedAgainst(p, w), VestingOn(p, w))
    BY DEF Surjection, VestingOn
  <2> QED BY <1>2, <2>1, FS_Surjection
<1> QED BY <1>3, FS_CardinalityType

(* Positions that agree on what the sums read. *)
KeepsTerms(p, p2) ==
  /\ Len(p2) = Len(p)
  /\ \A i \in 1..Len(p) : /\ p2[i].outcome = p[i].outcome /\ p2[i].finalized = p[i].finalized
                          /\ p2[i].vintage = p[i].vintage /\ p2[i].accepted = p[i].accepted
                          /\ p2[i].entryAcc = p[i].entryAcc
KeepsBooks(b, b2) ==
  \A w \in Outcomes : b2[w].principal = b[w].principal /\ b2[w].acc = b[w].acc

LEMMA BatchFrame ==
  ASSUME NEW b, NEW p, NEW pool, RoundOK(b, p, pool), BatchOK(b, p),
         NEW b2, NEW p2, KeepsTerms(p, p2), KeepsBooks(b, b2), Len(p) \in Nat,
         \A i \in 1..Len(p) : p[i].outcome \in Outcomes
  PROVE  RoundOK(b2, p2, pool) /\ BatchOK(b2, p2)
<1>1. ASSUME NEW w \in Outcomes
      PROVE  WeightOn(b2, p2, w) = WeightOn(b, p, w) /\ VestingOn(p2, w) = VestingOn(p, w)
  <2>1. VestedAgainst(p2, w) = VestedAgainst(p, w)
    BY DEF VestedAgainst, KeepsTerms
  <2>2. \A i \in VestedAgainst(p, w) : p2[i].vintage = p[i].vintage
    BY DEF VestedAgainst, KeepsTerms
  <2>3. VestingOn(p2, w) = VestingOn(p, w)
    BY <2>1, <2>2 DEF VestingOn
  <2> QED BY <2>3 DEF WeightOn, KeepsTerms, KeepsBooks
<1>2. ASSUME NEW w \in Outcomes, NEW v
      PROVE  GainFrom(b2, p2, w, v) = GainFrom(b, p, w, v) /\ YoungerOff(p2, w, v) = YoungerOff(p, w, v)
  BY DEF GainFrom, YoungerOff, KeepsTerms, KeepsBooks
<1>3. RoundOK(b2, p2, pool)
  BY <1>1 DEF RoundOK, KeepsTerms, KeepsBooks
<1>4. BatchOK(b2, p2)
  BY <1>2 DEF BatchOK, KeepsTerms
<1> QED BY <1>3, <1>4

(* An entry that is pushed has nothing yet and has gained nothing. *)
LEMMA BatchAppend ==
  ASSUME NEW b \in [Outcomes -> Book], NEW p \in Seq(Position), NEW pool, NEW pend,
         PendingOK(b, p, pend), RoundOK(b, p, pool), BatchOK(b, p),
         NEW b2, KeepsBooks(b, b2), NEW e \in Position,
         ~e.finalized, e.accepted = 0, e.entryAcc = 0
  PROVE  RoundOK(b2, Append(p, e), pool) /\ BatchOK(b2, Append(p, e))
<1> DEFINE q == Append(p, e)
           n == Len(p)
<1>1. /\ n \in Nat /\ Len(q) = n + 1
      /\ \A i \in 1..n : q[i] = p[i]
      /\ q[n + 1] = e
  BY AppendIsFun, SeqIsFun
<1>2. \A i \in 1..n : p[i] \in Position /\ p[i].outcome \in Outcomes
  <2>1. p \in [1..n -> Position]
    BY SeqIsFun
  <2> QED BY <2>1 DEF Position
<1>3. e.outcome \in Outcomes /\ b[e.outcome].acc \in Nat /\ b2[e.outcome].acc = b[e.outcome].acc
  BY DEF Position, Book, KeepsBooks
<1> HIDE DEF q, n
<1>4. /\ \A i \in 1..n : i \in 1..(n + 1)
      /\ n + 1 \in 1..(n + 1)
      /\ \A i \in 1..(n + 1) : i \in 1..n \/ i = n + 1
  BY <1>1
<1>5. ASSUME NEW i \in 1..n
      PROVE  /\ p[i].accepted \in Nat /\ p[i].entryAcc \in Nat /\ p[i].outcome \in Outcomes
             /\ b[p[i].outcome].acc \in Nat /\ p[i].entryAcc <= b[p[i].outcome].acc
             /\ b2[p[i].outcome].acc = b[p[i].outcome].acc
  BY <1>2 DEF Position, Book, PendingOK, n, KeepsBooks
<1>6. ASSUME NEW w \in Outcomes
      PROVE  Sum(WeightOn(b2, q, w), n + 1) = Sum(WeightOn(b, p, w), n)
  <2>1. \A i \in 1..n : WeightOn(b2, q, w)[i] = WeightOn(b, p, w)[i]
    BY <1>1, <1>4, <1>5 DEF WeightOn, n
  <2>2. WeightOn(b2, q, w)[n + 1] = 0
    <3>1. e.accepted * (SCALE + b2[e.outcome].acc - e.entryAcc) = 0
      <4>1. SCALE + b2[e.outcome].acc - e.entryAcc \in Int
        BY <1>3, ScaleAssumption
      <4> QED BY <4>1
    <3> QED BY <1>1, <1>4, <3>1 DEF WeightOn
  <2>3. \A i \in 1..n : WeightOn(b, p, w)[i] \in Nat
    BY <1>5, WeightNat DEF WeightOn, n
  <2>4. Sum(WeightOn(b2, q, w), n) = Sum(WeightOn(b, p, w), n) /\ Sum(WeightOn(b, p, w), n) \in Nat
    BY <1>1, <2>1, <2>3, SumEq, SumNat
  <2> QED BY <1>1, <2>2, <2>4, SumStep
<1>7. ASSUME NEW w \in Outcomes PROVE VestingOn(q, w) = VestingOn(p, w)
  <2>1. VestedAgainst(q, w) = VestedAgainst(p, w)
    BY <1>1, <1>4 DEF VestedAgainst, n
  <2>2. \A i \in VestedAgainst(p, w) : q[i].vintage = p[i].vintage
    BY <1>1 DEF VestedAgainst, n
  <2> QED BY <2>1, <2>2 DEF VestingOn
<1>8. ASSUME NEW w \in Outcomes, NEW v \in Nat
      PROVE  /\ Sum(GainFrom(b2, q, w, v), n + 1) = Sum(GainFrom(b, p, w, v), n)
             /\ Sum(YoungerOff(q, w, v), n + 1) = Sum(YoungerOff(p, w, v), n)
  <2>1. \A i \in 1..n : /\ GainFrom(b2, q, w, v)[i] = GainFrom(b, p, w, v)[i]
                        /\ YoungerOff(q, w, v)[i] = YoungerOff(p, w, v)[i]
    BY <1>1, <1>4, <1>5 DEF GainFrom, YoungerOff, n
  <2>2. GainFrom(b2, q, w, v)[n + 1] = 0 /\ YoungerOff(q, w, v)[n + 1] = 0
    <3>1. e.accepted * (b2[e.outcome].acc - e.entryAcc) = 0 /\ SCALE * e.accepted = 0
      BY <1>3, ScaleAssumption
    <3> QED BY <1>1, <1>4, <3>1 DEF GainFrom, YoungerOff
  <2>3. ASSUME NEW i \in 1..n
        PROVE  GainFrom(b, p, w, v)[i] \in Nat /\ YoungerOff(p, w, v)[i] \in Nat
    <3>1. b[p[i].outcome].acc - p[i].entryAcc \in Nat
      BY <1>5
    <3>2. /\ p[i].accepted * (b[p[i].outcome].acc - p[i].entryAcc) \in Nat
          /\ SCALE * p[i].accepted \in Nat
      BY <1>5, <3>1, ScaleAssumption
    <3> QED BY <3>2 DEF GainFrom, YoungerOff, n
  <2>4. /\ Sum(GainFrom(b2, q, w, v), n) = Sum(GainFrom(b, p, w, v), n)
        /\ Sum(YoungerOff(q, w, v), n) = Sum(YoungerOff(p, w, v), n)
    BY <1>1, <2>1, SumEq
  <2>5. /\ Sum(GainFrom(b, p, w, v), n) \in Nat
        /\ Sum(YoungerOff(p, w, v), n) \in Nat
    BY <1>1, <2>3, SumNat
  <2> QED BY <1>1, <2>2, <2>4, <2>5, SumStep, SMTT(30)
<1>9. RoundOK(b2, q, pool)
  BY <1>1, <1>6, <1>7 DEF RoundOK, KeepsBooks, n
<1>10. BatchOK(b2, q)
  BY <1>1, <1>8 DEF BatchOK, n
<1> QED BY <1>9, <1>10 DEF q


-----------------------------------------------------------------------------
LEMMA DivTight ==
  ASSUME NEW a \in Nat, NEW b \in Nat, b > 0
  PROVE  a - b * (a \div b) <= b
OBVIOUS

(* What _finalizeVintage does to each position. *)
LEMMA RolledPosition ==
  ASSUME LedgerType, LedgerOK(books, positions, acceptedPool, pending), NEW i \in 1..Count
  PROVE  /\ positions[i].outcome \in Outcomes /\ positions[i].accepted \in Nat
         /\ positions[i].entryAcc \in Nat /\ positions[i].vintage \in Nat
         /\ positions[i].entryAcc <= books[positions[i].outcome].acc
         /\ AcceptedNow[i] \in Nat
         /\ FinalPositions[i].outcome = positions[i].outcome
         /\ FinalPositions[i].vintage = positions[i].vintage
         /\ FinalPositions[i].finalized
         /\ i \in pending <=> ~positions[i].finalized
         /\ i \in pending => /\ positions[i].accepted = 0
                             /\ FinalPositions[i].accepted = AcceptedNow[i]
                             /\ FinalPositions[i].entryAcc = AccAfter(positions[i].outcome)
         /\ i \notin pending => /\ AcceptedNow[i] = 0
                                /\ FinalPositions[i].accepted = positions[i].accepted
                                /\ FinalPositions[i].entryAcc = positions[i].entryAcc
BY PositionAt, AcceptedNowType
   DEF FinalPositions, AcceptedNow, LedgerOK, PendingOK, Position, Count

(* The open vintage joins those that vested into w, as the youngest of them. *)
LEMMA VestingGrows ==
  ASSUME LedgerType, LedgerOK(books, positions, acceptedPool, pending),
         AgeOK(positions, blockNo, vintageOpen, vintageBlock), vintageOpen,
         NEW w \in Outcomes
  PROVE  /\ Cardinality(VestingOn(positions, w)) \in Nat
         /\ Cardinality(VestingOn(FinalPositions, w)) \in Nat
         /\ Cardinality(VestingOn(FinalPositions, w)) >= Cardinality(VestingOn(positions, w))
         /\ Inflow(w) > 0 => Cardinality(VestingOn(FinalPositions, w))
                               >= Cardinality(VestingOn(positions, w)) + 1
<1> DEFINE old == VestingOn(positions, w)
           new == VestingOn(FinalPositions, w)
<1>1. Count \in Nat /\ Count = Len(positions) /\ Len(FinalPositions) = Count
  BY CountNat, FinalPositionsType DEF Count
<1>2. /\ IsFiniteSet(old) /\ Cardinality(old) \in Nat
      /\ IsFiniteSet(new) /\ Cardinality(new) \in Nat
  BY <1>1, VestingFinite
<1>3. \A i \in 1..Count : /\ FinalPositions[i].outcome = positions[i].outcome
                          /\ FinalPositions[i].vintage = positions[i].vintage
                          /\ FinalPositions[i].finalized
  BY RolledPosition
<1>4. VestedAgainst(positions, w) \subseteq VestedAgainst(FinalPositions, w)
  BY <1>1, <1>3 DEF VestedAgainst
<1>5. old \subseteq new
  BY <1>1, <1>3, <1>4 DEF VestingOn, VestedAgainst
<1>6. ASSUME Inflow(w) > 0
      PROVE  Cardinality(new) >= Cardinality(old) + 1
  <2>1. PICK i \in 1..Count : FreshOff(w)[i] # 0
    <3>1. SUFFICES ASSUME \A i \in 1..Count : FreshOff(w)[i] = 0 PROVE FALSE
      OBVIOUS
    <3>2. Sum(FreshOff(w), Count) = 0
      BY <1>1, <3>1, SumZeros
    <3> QED BY <1>6, <3>2 DEF FreshOff, Inflow
  <2>2. i \in pending /\ positions[i].outcome # w
    BY <2>1, RolledPosition DEF FreshOff
  <2>3. positions[i].vintage = vintageBlock
    BY <1>1, <2>2, RolledPosition DEF AgeOK
  <2>4. vintageBlock \in new
    BY <1>1, <1>3, <2>2, <2>3 DEF VestingOn, VestedAgainst
  <2>5. vintageBlock \notin old
    BY <1>1, RolledPosition DEF VestingOn, VestedAgainst, AgeOK
  <2> HIDE DEF old, new
  <2>6. IsFiniteSet(old \cup {vintageBlock})
        /\ Cardinality(old \cup {vintageBlock}) = Cardinality(old) + 1
    BY <1>2, <2>5, FS_AddElement
  <2>7. old \cup {vintageBlock} \subseteq new
    BY <1>5, <2>4
  <2> QED BY <1>2, <2>6, <2>7, FS_Subset
<1> HIDE DEF old, new
<1>7. Cardinality(new) >= Cardinality(old)
  BY <1>2, <1>5, FS_Subset
<1> QED BY <1>2, <1>6, <1>7 DEF old, new

(* A vintage leaves less than one unit of accumulator of each book it vests into. *)
LEMMA RoundRoll ==
  ASSUME LedgerType, LedgerOK(books, positions, acceptedPool, pending),
         AgeOK(positions, blockNo, vintageOpen, vintageBlock), vintageOpen,
         RoundOK(books, positions, acceptedPool)
  PROVE  RoundOK(FinalBooks, FinalPositions, acceptedPool + Sum(AcceptedNow, Count))
<1>1. Count = Len(positions) /\ Len(FinalPositions) = Count
  BY FinalPositionsType DEF Count
<1>2. ASSUME NEW w \in Outcomes
      PROVE  SCALE * (acceptedPool + Sum(AcceptedNow, Count))
               - Sum(WeightOn(FinalBooks, FinalPositions, w), Count)
             <= Cardinality(VestingOn(FinalPositions, w)) * FinalBooks[w].principal
  <2>1. PICK P \in Nat : P = books[w].principal /\ P > 0
    BY BookAt
  <2>2. PICK D \in Nat : D = AccAfter(w) - books[w].acc
    BY AccAfterType, BookAt
  <2>3. PICK I \in Nat, T \in Nat : I = Inflow(w) /\ T = Stake(w)
    BY VintageSums
  <2>4. PICK W \in Nat : W = Sum(WeightOn(books, positions, w), Count)
    BY WeightsAfter
  <2>5. Sum(WeightOn(FinalBooks, FinalPositions, w), Count) = W + P * D + SCALE * T
    BY <2>1, <2>2, <2>3, <2>4, WeightsAfter
  <2>6. PICK c \in Nat, c2 \in Nat : /\ c = Cardinality(VestingOn(positions, w))
                                     /\ c2 = Cardinality(VestingOn(FinalPositions, w))
    BY VestingGrows
  <2>7. c2 >= c /\ (I > 0 => c2 >= c + 1)
    BY <2>3, <2>6, VestingGrows
  <2>8. PICK pool \in Nat : pool = acceptedPool
    BY DEF LedgerType
  <2>9. SCALE * pool - W <= c * P
    BY <1>1, <2>1, <2>4, <2>6, <2>8 DEF RoundOK
  <2>10. FinalBooks[w].principal = P + T
    BY <2>1, <2>3 DEF FinalBooks
  <2>11. SCALE \in Nat
    BY ScaleAssumption
  <2>12. CASE I = 0
    <3>1. D = 0
      BY <2>2, <2>3, <2>12, BookAt DEF AccAfter
    <3>2. SCALE * (pool + (T + I)) - (W + P * D + SCALE * T) = SCALE * pool - W
      BY <2>11, <2>12, <3>1
    <3>3. c * P <= c2 * (P + T)
      <4>1. c * P <= c2 * P
        BY <2>7
      <4>2. c2 * P <= c2 * (P + T)
        BY <2>1
      <4> QED BY <4>1, <4>2
    <3>4. /\ SCALE * pool - W \in Int /\ c * P \in Int /\ c2 * (P + T) \in Int
      BY <2>11
    <3>5. SCALE * (pool + (T + I)) - (W + P * D + SCALE * T) <= c2 * (P + T)
      BY <2>9, <3>2, <3>3, <3>4
    <3> QED BY <2>3, <2>5, <2>6, <2>8, <2>10, <3>5, VintageSums
  <2>13. CASE I > 0
    <3>1. I * SCALE - P * D <= P
      <4>1. D = (I * SCALE) \div P
        <5>1. (I * SCALE) \div P \in Int /\ books[w].acc \in Int
          BY <2>1, <2>11, BookAt
        <5> QED BY <2>1, <2>2, <2>3, <2>13, <5>1 DEF AccAfter
      <4>2. I * SCALE \in Nat
        BY <2>11
      <4> QED BY <2>1, <4>1, <4>2, DivTight
    <3>2. SCALE * (pool + (T + I)) - (W + P * D + SCALE * T)
            = (SCALE * pool - W) + (I * SCALE - P * D)
      <4>1. SCALE * (pool + (T + I)) = SCALE * pool + SCALE * T + I * SCALE
        BY <2>11
      <4>2. SCALE * pool \in Int /\ SCALE * T \in Int /\ I * SCALE \in Int /\ P * D \in Int
        BY <2>11
      <4> QED BY <4>1, <4>2
    <3>3. c * P + P <= c2 * (P + T)
      <4>1. (c + 1) * P <= c2 * P
        BY <2>7, <2>13
      <4>2. c2 * P <= c2 * (P + T)
        BY <2>1
      <4>3. c * P + P = (c + 1) * P
        OBVIOUS
      <4> QED BY <4>1, <4>2, <4>3
    <3>4. /\ SCALE * pool - W \in Int /\ c * P \in Int /\ c2 * (P + T) \in Int
          /\ I * SCALE - P * D \in Int
      BY <2>11
    <3>5. SCALE * (pool + (T + I)) - (W + P * D + SCALE * T) <= c2 * (P + T)
      BY <2>9, <3>1, <3>2, <3>3, <3>4
    <3> QED BY <2>3, <2>5, <2>6, <2>8, <2>10, <3>5, VintageSums
  <2> QED BY <2>12, <2>13
<1> QED BY <1>1, <1>2 DEF RoundOK

(* What a vintage gives to a branch goes to the stakes that were there, and what it
   brings is younger than all of them. *)
LEMMA BatchRoll ==
  ASSUME LedgerType, LedgerOK(books, positions, acceptedPool, pending),
         AgeOK(positions, blockNo, vintageOpen, vintageBlock), vintageOpen,
         vintageBlock \in Nat,
         BatchOK(books, positions)
  PROVE  BatchOK(FinalBooks, FinalPositions)
<1> DEFINE q == FinalPositions
           b2 == FinalBooks
<1>1. Count \in Nat /\ Count = Len(positions) /\ Len(q) = Count
  BY CountNat, FinalPositionsType DEF Count
<1>2. ASSUME NEW i \in 1..Count
      PROVE  /\ positions[i].finalized => positions[i].vintage < vintageBlock
             /\ i \in pending => positions[i].vintage = vintageBlock
  BY <1>1, RolledPosition DEF AgeOK
<1>3. SUFFICES ASSUME NEW w \in Outcomes, NEW v \in Nat \ {0}
               PROVE  Sum(GainFrom(b2, q, w, v), Count) <= Sum(YoungerOff(q, w, v), Count)
  BY <1>1 DEF BatchOK
<1>4. b2[w].acc = AccAfter(w)
  BY DEF FinalBooks
<1> HIDE DEF q, b2
<1>5. SCALE \in Nat /\ AccAfter(w) \in Nat /\ books[w].acc \in Nat
  BY ScaleAssumption, AccAfterType, BookAt
<1>6. PICK D \in Nat : D = AccAfter(w) - books[w].acc /\ AccAfter(w) = books[w].acc + D
  BY <1>5, AccAfterType
<1>7. ASSUME NEW i \in 1..Count
      PROVE  /\ positions[i].outcome \in Outcomes /\ positions[i].accepted \in Nat
             /\ positions[i].entryAcc \in Nat /\ positions[i].vintage \in Nat
             /\ positions[i].entryAcc <= books[positions[i].outcome].acc
             /\ AcceptedNow[i] \in Nat
             /\ q[i].outcome = positions[i].outcome
             /\ q[i].vintage = positions[i].vintage
             /\ i \in pending <=> ~positions[i].finalized
             /\ i \in pending => /\ positions[i].accepted = 0
                                 /\ q[i].accepted = AcceptedNow[i]
                                 /\ q[i].entryAcc = AccAfter(positions[i].outcome)
             /\ i \notin pending => /\ AcceptedNow[i] = 0
                                    /\ q[i].accepted = positions[i].accepted
                                    /\ q[i].entryAcc = positions[i].entryAcc
  BY RolledPosition DEF q
<1>8. ASSUME NEW i \in 1..Count, i \in pending, positions[i].outcome = w
      PROVE  GainFrom(b2, q, w, v)[i] = 0
  <2>1. AcceptedNow[i] * (AccAfter(w) - AccAfter(w)) = 0
    BY <1>5, <1>7
  <2> QED BY <1>1, <1>4, <1>7, <1>8, <2>1 DEF GainFrom
<1>9. \A i \in 1..Count : YoungerOff(q, w, v)[i] \in Nat
  BY <1>1, <1>5, <1>7, SMTT(30) DEF YoungerOff
<1>10. CASE ~(v < vintageBlock)
  <2>1. ASSUME NEW i \in 1..Count
        PROVE  GainFrom(b2, q, w, v)[i] = 0
    <3>1. CASE q[i].outcome = w /\ q[i].vintage >= v
      <4>1. i \in pending
        BY <1>2, <1>7, <1>10, <3>1
      <4> QED BY <1>7, <1>8, <3>1, <4>1
    <3> QED BY <1>1, <3>1 DEF GainFrom
  <2>2. Sum(GainFrom(b2, q, w, v), Count) = 0
    BY <1>1, <2>1, SumZeros
  <2>3. Sum(YoungerOff(q, w, v), Count) \in Nat
    BY <1>1, <1>9, SumNat
  <2> QED BY <2>2, <2>3
<1>11. CASE v < vintageBlock
  <2> DEFINE old == GainFrom(books, positions, w, v)
             given == [i \in 1..Count |-> D * StakeOn(positions, w)[i]]
             limit == [i \in 1..Count |-> old[i] + given[i]]
             younger == YoungerOff(positions, w, v)
             fresh == [i \in 1..Count |-> SCALE * FreshOff(w)[i]]
  <2>1. ASSUME NEW i \in 1..Count
        PROVE  /\ old[i] \in Nat /\ given[i] \in Nat
               /\ StakeOn(positions, w)[i] \in Nat
               /\ GainFrom(b2, q, w, v)[i] \in Nat
               /\ GainFrom(b2, q, w, v)[i] <= limit[i]
    <3>1. StakeOn(positions, w)[i] \in Nat
      BY <1>1, <1>7 DEF StakeOn
    <3>2. given[i] \in Nat
      BY <3>1
    <3>3. old[i] \in Nat
      <4>1. books[positions[i].outcome].acc \in Nat
        BY <1>7, BookAt
      <4>2. books[positions[i].outcome].acc - positions[i].entryAcc \in Nat
        BY <1>7, <4>1
      <4>3. positions[i].accepted * (books[positions[i].outcome].acc - positions[i].entryAcc) \in Nat
        BY <1>7, <4>2
      <4> QED BY <1>1, <4>3 DEF GainFrom
    <3>4. limit[i] = old[i] + given[i]
      OBVIOUS
    <3>5. CASE ~(positions[i].outcome = w /\ positions[i].vintage >= v) \/ i \in pending
      <4>1. GainFrom(b2, q, w, v)[i] = 0
        BY <1>1, <1>7, <1>8, <3>5 DEF GainFrom
      <4> HIDE DEF old, given, limit
      <4> QED BY <3>1, <3>2, <3>3, <3>4, <4>1
    <3>6. CASE positions[i].outcome = w /\ positions[i].vintage >= v /\ i \notin pending
      <4>1. PICK s \in Nat, e \in Nat, a \in Nat :
              /\ s = positions[i].accepted /\ e = positions[i].entryAcc /\ a = books[w].acc
              /\ e <= a
        BY <1>5, <1>7, <3>6
      <4>2. /\ GainFrom(b2, q, w, v)[i] = s * ((a + D) - e)
            /\ old[i] = s * (a - e)
            /\ StakeOn(positions, w)[i] = s
        BY <1>1, <1>4, <1>6, <1>7, <3>6, <4>1 DEF GainFrom, StakeOn
      <4>3. s * ((a + D) - e) = s * (a - e) + D * s
        <5>1. (a + D) - e = (a - e) + D /\ a - e \in Int
          BY <4>1
        <5> QED BY <5>1
      <4>4. given[i] = D * s
        BY <4>2
      <4> HIDE DEF old, given, limit
      <4> QED BY <3>1, <3>2, <3>3, <3>4, <4>2, <4>3, <4>4
    <3> QED BY <3>1, <3>2, <3>3, <3>5, <3>6
  <2>2. ASSUME NEW i \in 1..Count
        PROVE  /\ younger[i] \in Nat /\ fresh[i] \in Nat /\ FreshOff(w)[i] \in Nat
               /\ YoungerOff(q, w, v)[i] = younger[i] + fresh[i]
    <3>1. FreshOff(w)[i] \in Nat /\ FreshOff(w)[i] = IF positions[i].outcome # w THEN AcceptedNow[i] ELSE 0
      BY <1>7 DEF FreshOff
    <3>2. /\ YoungerOff(q, w, v)[i] = IF positions[i].outcome # w /\ positions[i].vintage > v
                                      THEN SCALE * q[i].accepted ELSE 0
          /\ younger[i] = IF positions[i].outcome # w /\ positions[i].vintage > v
                          THEN SCALE * positions[i].accepted ELSE 0
      BY <1>1, <1>7 DEF YoungerOff
    <3>3. fresh[i] = SCALE * FreshOff(w)[i]
      OBVIOUS
    <3> HIDE DEF younger, fresh
    <3>4. CASE i \in pending
      <4>1. positions[i].vintage > v
        BY <1>2, <1>7, <1>11, <3>4
      <4>2. positions[i].accepted = 0 /\ q[i].accepted = AcceptedNow[i]
        BY <1>7, <3>4
      <4>3. younger[i] = 0
        BY <1>5, <3>2, <4>2
      <4>4. CASE positions[i].outcome # w
        <5>1. YoungerOff(q, w, v)[i] = SCALE * AcceptedNow[i] /\ fresh[i] = SCALE * AcceptedNow[i]
          BY <3>1, <3>2, <3>3, <4>1, <4>2, <4>4
        <5> QED BY <1>5, <1>7, <3>1, <4>3, <5>1
      <4>5. CASE positions[i].outcome = w
        BY <1>5, <3>1, <3>2, <3>3, <4>3, <4>5
      <4> QED BY <4>4, <4>5
    <3>5. CASE i \notin pending
      <4>1. fresh[i] = 0
        BY <1>5, <1>7, <3>1, <3>3, <3>5
      <4>2. younger[i] \in Nat
        BY <1>5, <1>7, <3>2
      <4> QED BY <1>7, <3>1, <3>2, <3>5, <4>1, <4>2
    <3> QED BY <3>4, <3>5
  <2>3. Sum(FreshOff(w), Count) = Inflow(w) /\ Inflow(w) \in Nat
    BY VintageSums DEF FreshOff, Inflow
  <2>4. books[w].principal = Sum(StakeOn(positions, w), Count) /\ books[w].principal \in Nat
    BY <1>1, BookAt DEF LedgerOK, SplitOK
  <2>5. Sum(old, Count) <= Sum(younger, Count)
    BY <1>1, <1>3 DEF BatchOK
  <2>6. \A i \in 1..Count : /\ given[i] = D * StakeOn(positions, w)[i]
                            /\ limit[i] = old[i] + given[i]
                            /\ fresh[i] = SCALE * FreshOff(w)[i]
    OBVIOUS
  <2> HIDE DEF old, given, limit, younger, fresh
  <2>7. Sum(limit, Count) = Sum(old, Count) + Sum(given, Count)
    <3>1. \A i \in 1..Count : /\ old[i] \in Nat /\ given[i] \in Nat
                              /\ limit[i] = old[i] + given[i]
      BY <2>1, <2>6
    <3> QED BY <1>1, <3>1, SumAdd
  <2>8. Sum(given, Count) = D * books[w].principal
    <3>1. Sum(given, Count) = D * Sum(StakeOn(positions, w), Count)
      <4>1. \A i \in 1..Count : /\ StakeOn(positions, w)[i] \in Nat
                                /\ given[i] = D * StakeOn(positions, w)[i]
        BY <2>1, <2>6
      <4> QED BY ONLY <1>1, <4>1, D \in Nat, SumScale
    <3> QED BY <2>4, <3>1
  <2>9. Sum(GainFrom(b2, q, w, v), Count) <= Sum(limit, Count)
    <3>1. \A i \in 1..Count : /\ GainFrom(b2, q, w, v)[i] \in Nat /\ limit[i] \in Nat
                              /\ GainFrom(b2, q, w, v)[i] <= limit[i]
      BY <2>1, <2>6
    <3> QED BY ONLY <1>1, <3>1, SumLe
  <2>10. Sum(YoungerOff(q, w, v), Count) = Sum(younger, Count) + SCALE * Inflow(w)
    <3>1. Sum(YoungerOff(q, w, v), Count) = Sum(younger, Count) + Sum(fresh, Count)
      <4>1. \A i \in 1..Count : /\ younger[i] \in Nat /\ fresh[i] \in Nat
                                /\ YoungerOff(q, w, v)[i] = younger[i] + fresh[i]
        BY <2>2
      <4> QED BY ONLY <1>1, <4>1, SumAdd
    <3>2. Sum(fresh, Count) = SCALE * Sum(FreshOff(w), Count)
      <4>1. \A i \in 1..Count : /\ FreshOff(w)[i] \in Nat
                                /\ fresh[i] = SCALE * FreshOff(w)[i]
        BY <2>2, <2>6
      <4>2. PICK f, g : f = FreshOff(w) /\ g = fresh
        OBVIOUS
      <4>3. \A i \in 1..Count : f[i] \in Nat /\ g[i] = SCALE * f[i]
        BY <4>1, <4>2
      <4>4. Sum(g, Count) = SCALE * Sum(f, Count)
        BY <1>1, <1>5, <4>3, SumScale
      <4> QED BY <4>2, <4>4
    <3> QED BY <2>3, <3>1, <3>2
  <2>11. D * books[w].principal <= SCALE * Inflow(w)
    <3>1. books[w].principal * (AccAfter(w) - books[w].acc) <= Inflow(w) * SCALE
      BY AccAfterType
    <3> QED BY <1>5, <1>6, <2>3, <2>4, <3>1
  <2>12. /\ Sum(old, Count) \in Nat /\ Sum(younger, Count) \in Nat
         /\ Sum(GainFrom(b2, q, w, v), Count) \in Nat
         /\ D * books[w].principal \in Nat /\ SCALE * Inflow(w) \in Nat
    <3>1. /\ \A i \in 1..Count : old[i] \in Nat
          /\ \A i \in 1..Count : younger[i] \in Nat
          /\ \A i \in 1..Count : GainFrom(b2, q, w, v)[i] \in Nat
      BY <2>1, <2>2
    <3>2. /\ Sum(old, Count) \in Nat /\ Sum(younger, Count) \in Nat
          /\ Sum(GainFrom(b2, q, w, v), Count) \in Nat
      BY ONLY <1>1, <3>1, SumNat
    <3> QED BY <1>5, <2>3, <2>4, <3>2
  <2> QED BY <2>5, <2>7, <2>8, <2>9, <2>10, <2>11, <2>12
<1> QED BY <1>10, <1>11


-----------------------------------------------------------------------------
(* A new market: the legs are of vintage 0 and vested into each other.       *)
LEMMA BatchSeed ==
  ASSUME NEW seed \in Legs, NEW leg \in Legs, NEW k \in Kappa,
         \A o \in Outcomes : leg[o] # 0,
         NEW b, b = [w \in Outcomes |-> SeedBook(leg, w, Sum(leg, N), k)],
         NEW p, p = [w \in Outcomes |-> SeedPosition(seed, leg, w)],
         NEW block \in Nat, block >= 1, NEW vblock
  PROVE  /\ RoundOK(b, p, Sum(leg, N)) /\ BatchOK(b, p)
         /\ AgeOK(p, block, FALSE, vblock)
<1>1. \A o \in Outcomes : leg[o] \in Nat /\ leg[o] > 0
  BY DEF Legs
<1>2. N \in Nat /\ N >= 2 /\ Outcomes = 1..N /\ SCALE \in Nat
  BY SizeAssumption, ScaleAssumption DEF Outcomes
<1>3. /\ Sum(leg, N) \in Nat /\ Len(p) = N
      /\ \A w \in Outcomes : Sum(WeightOn(b, p, w), N) = leg[w] * SCALE + leg[w] * b[w].acc
  BY LedgerSeed
<1>4. \A w \in Outcomes : leg[w] <= Sum(leg, N)
  BY <1>1, <1>2, SumMember
<1>5. \A i \in 1..N : p[i].outcome = i /\ p[i].vintage = 0 /\ p[i].finalized
  BY <1>2 DEF SeedPosition
<1>6. AgeOK(p, block, FALSE, vblock)
  BY <1>3, <1>5 DEF AgeOK
<1>7. ASSUME NEW w \in Outcomes
      PROVE  SCALE * Sum(leg, N) - Sum(WeightOn(b, p, w), N)
               <= Cardinality(VestingOn(p, w)) * b[w].principal
  <2>1. b[w].principal = leg[w] /\ b[w].acc = ((Sum(leg, N) - leg[w]) * SCALE) \div leg[w]
    BY DEF SeedBook
  <2>2. PICK t \in Nat, l \in Nat : t = Sum(leg, N) /\ l = leg[w] /\ l > 0 /\ l <= t
    BY <1>1, <1>3, <1>4
  <2>3. (t - l) * SCALE \in Nat
    BY <1>2, <2>2
  <2>4. PICK a \in Nat : a = ((t - l) * SCALE) \div l /\ (t - l) * SCALE - l * a <= l
    BY <2>2, <2>3, DivTight, DivType
  <2>5. SCALE * t - (l * SCALE + l * a) <= l
    <3>1. (t - l) * SCALE = SCALE * t - l * SCALE
      BY <1>2, <2>2
    <3>2. SCALE * t \in Int /\ l * SCALE \in Int /\ l * a \in Int
      BY <1>2
    <3> QED BY <2>4, <3>1, <3>2
  <2>6. PICK c \in Nat : c = Cardinality(VestingOn(p, w)) /\ c >= 1
    <3>1. PICK o \in Outcomes : o # w
      BY <1>2
    <3>2. {0} \subseteq VestingOn(p, w)
      BY <1>2, <1>3, <1>5, <3>1 DEF VestingOn, VestedAgainst
    <3>3. IsFiniteSet(VestingOn(p, w)) /\ Cardinality(VestingOn(p, w)) \in Nat
      BY <1>2, <1>3, VestingFinite
    <3>4. Cardinality({0}) = 1
      BY FS_Singleton
    <3> QED BY <3>2, <3>3, <3>4, FS_Subset
  <2>7. l <= c * l
    BY <2>6
  <2>8. SCALE * t - (l * SCALE + l * a) \in Int /\ c * l \in Int
    BY <1>2
  <2>9. SCALE * t - (l * SCALE + l * a) <= c * l
    BY <2>2, <2>5, <2>7, <2>8
  <2>10. Sum(WeightOn(b, p, w), N) = l * SCALE + l * a /\ b[w].principal = l
    BY <1>3, <2>1, <2>2, <2>4
  <2> QED BY <2>2, <2>6, <2>9, <2>10
<1>8. RoundOK(b, p, Sum(leg, N))
  BY <1>3, <1>7 DEF RoundOK
<1>9. ASSUME NEW w \in Outcomes, NEW v \in Nat \ {0}
      PROVE  Sum(GainFrom(b, p, w, v), N) <= Sum(YoungerOff(p, w, v), N)
  <2>1. \A i \in 1..N : GainFrom(b, p, w, v)[i] = 0 /\ YoungerOff(p, w, v)[i] = 0
    BY <1>3, <1>5 DEF GainFrom, YoungerOff
  <2> QED BY <1>2, <2>1, SumZeros
<1>10. BatchOK(b, p)
  BY <1>3, <1>9 DEF BatchOK
<1> QED BY <1>6, <1>8, <1>10

-----------------------------------------------------------------------------
(* The state after _rollVintage, due or not. *)
LEMMA BatchAfterRoll ==
  ASSUME IInv, BatchInv, status # "None", NEW due \in BOOLEAN, due => RollDue
  PROVE  /\ RoundOK(BooksAfter(due), PositionsAfter(due), PoolAfter(due))
         /\ BatchOK(BooksAfter(due), PositionsAfter(due))
         /\ AgeOK(PositionsAfter(due), blockNo, vintageOpen /\ ~due, vintageBlock)
<1>1. LedgerType /\ LedgerOK(books, positions, acceptedPool, pending)
  BY LedgerTyped
<1>2. /\ AgeOK(positions, blockNo, vintageOpen, vintageBlock)
      /\ RoundOK(books, positions, acceptedPool) /\ BatchOK(books, positions)
  BY DEF BatchInv, AgeInv
<1>3. vintageBlock \in Nat /\ blockNo \in Nat
  BY DEF IInv, TypeOK
<1>4. CASE due
  <2>1. /\ BooksAfter(due) = FinalBooks /\ PositionsAfter(due) = FinalPositions
        /\ PoolAfter(due) = acceptedPool + Sum(AcceptedNow, Count)
    BY <1>4 DEF BooksAfter, PositionsAfter, PoolAfter
  <2>2. vintageOpen /\ blockNo > vintageBlock
    BY <1>4 DEF RollDue
  <2>3. AgeOK(FinalPositions, blockNo, vintageOpen /\ ~due, vintageBlock)
    <3>1. Count = Len(positions) /\ Len(FinalPositions) = Count
      BY <1>1, FinalPositionsType DEF Count
    <3>2. ASSUME NEW i \in 1..Count
          PROVE  FinalPositions[i].finalized /\ FinalPositions[i].vintage < blockNo
      BY <1>1, <1>2, <1>3, <2>2, <3>1, RolledPosition, SMTT(30) DEF AgeOK
    <3> QED BY <1>4, <3>1, <3>2 DEF AgeOK
  <2> QED BY <1>1, <1>2, <1>3, <2>1, <2>2, <2>3, RoundRoll, BatchRoll
<1>5. CASE ~due
  <2>1. /\ BooksAfter(due) = books /\ PositionsAfter(due) = positions
        /\ PoolAfter(due) = acceptedPool
    BY <1>5 DEF BooksAfter, PositionsAfter, PoolAfter
  <2>2. AgeOK(positions, blockNo, vintageOpen /\ ~due, vintageBlock)
    BY <1>2, <1>5 DEF AgeOK
  <2> QED BY <1>2, <2>1, <2>2
<1> QED BY <1>4, <1>5

(* Every call but enter and create rolls the vintage, or not, and leaves alone what
   the sums read. *)
LEMMA BatchKept ==
  ASSUME IInv, BatchInv, status # "None", NEW due \in BOOLEAN, due => RollDue,
         KeepsBooks(BooksAfter(due), books'), KeepsTerms(PositionsAfter(due), positions'),
         acceptedPool' = PoolAfter(due), blockNo' \in Nat, blockNo' >= blockNo,
         vintageOpen' = (vintageOpen /\ ~due), vintageBlock' = vintageBlock
  PROVE  BatchInv'
<1> DEFINE b == BooksAfter(due)
           p == PositionsAfter(due)
<1>1. /\ RoundOK(b, p, PoolAfter(due)) /\ BatchOK(b, p)
      /\ AgeOK(p, blockNo, vintageOpen /\ ~due, vintageBlock)
  BY BatchAfterRoll
<1>2. p \in Seq(Position) /\ Len(p) = Count
  BY AfterRoll
<1>3. blockNo \in Nat /\ blockNo >= 1
  BY DEF IInv, TypeOK, BatchInv, AgeInv
<1> HIDE DEF b, p
<1>4. /\ Count \in Nat
      /\ \A i \in 1..Count : p[i].outcome \in Outcomes /\ p[i].vintage \in Nat
  <2>1. Len(p) \in Nat /\ p \in [1..Len(p) -> Position]
    BY <1>2, SeqIsFun
  <2> QED BY <1>2, <2>1 DEF Position
<1>5. KeepsBooks(b, books') /\ KeepsTerms(p, positions')
  BY DEF b, p
<1>6. RoundOK(books', positions', acceptedPool') /\ BatchOK(books', positions')
  BY <1>1, <1>2, <1>4, <1>5, BatchFrame
<1>7. AgeOK(positions', blockNo', vintageOpen', vintageBlock')
  <2> DEFINE open == vintageOpen /\ ~due
  <2>1. open \in BOOLEAN /\ vintageOpen' = open /\ vintageBlock' = vintageBlock
    OBVIOUS
  <2> HIDE DEF open
  <2>2. ASSUME NEW i \in 1..Count
        PROVE  /\ p[i].finalized => p[i].vintage < blockNo' /\ (open => p[i].vintage < vintageBlock)
               /\ ~p[i].finalized => open /\ p[i].vintage = vintageBlock
    BY <1>1, <1>2, <1>3, <1>4 DEF AgeOK, open
  <2>3. Len(positions') = Count
        /\ \A i \in 1..Count : /\ positions'[i].finalized = p[i].finalized
                              /\ positions'[i].vintage = p[i].vintage
    BY <1>2, <1>5 DEF KeepsTerms
  <2>4. AgeOK(positions', blockNo', open, vintageBlock)
    BY <2>2, <2>3 DEF AgeOK
  <2> QED BY <2>1, <2>4
<1>8. blockNo' >= 1
  BY <1>3
<1> QED BY <1>6, <1>7, <1>8 DEF BatchInv, AgeInv

LEMMA RollBatch ==
  ASSUME IInv, BatchInv, status # "None", Roll, UNCHANGED blockNo
  PROVE  BatchInv'
<1>1. RollDue \in BOOLEAN
  BY DEF RollDue
<1>2. /\ books' = BooksAfter(RollDue) /\ positions' = PositionsAfter(RollDue)
      /\ acceptedPool' = PoolAfter(RollDue)
      /\ vintageOpen' = (vintageOpen /\ ~RollDue) /\ vintageBlock' = vintageBlock
  BY DEF Roll
<1>3. blockNo' \in Nat /\ blockNo' >= blockNo
  BY DEF IInv, TypeOK
<1>4. KeepsBooks(BooksAfter(RollDue), books') /\ KeepsTerms(PositionsAfter(RollDue), positions')
  BY <1>2 DEF KeepsBooks, KeepsTerms
<1> QED BY <1>1, <1>2, <1>3, <1>4, BatchKept

(* The calls that roll nothing. *)
LEMMA StillBatch ==
  ASSUME IInv, BatchInv, status # "None",
         KeepsBooks(books, books'), KeepsTerms(positions, positions'),
         acceptedPool' = acceptedPool, blockNo' \in Nat, blockNo' >= blockNo,
         UNCHANGED <<vintageOpen, vintageBlock>>
  PROVE  BatchInv'
<1>1. /\ BooksAfter(FALSE) = books /\ PositionsAfter(FALSE) = positions
      /\ PoolAfter(FALSE) = acceptedPool
  BY DEF BooksAfter, PositionsAfter, PoolAfter
<1>2. vintageOpen' = (vintageOpen /\ ~FALSE)
  BY DEF IInv, TypeOK
<1> QED BY <1>1, <1>2, BatchKept, Zenon

LEMMA CreateBatch ==
  ASSUME IInv, BatchInv, NEW seed \in Seeds, NEW k \in Kappas, Create(seed, k)
  PROVE  BatchInv'
<1> DEFINE leg == SeedClamp(seed, k)
<1>1. seed \in Legs /\ k \in Kappa
  BY InputAssumption DEF Legs, Kappa
<1>2. leg \in Legs
  BY <1>1, SeedClampType
<1>3. /\ status = "None"
      /\ \A o \in Outcomes : leg[o] # 0
      /\ books' = [w \in Outcomes |-> SeedBook(leg, w, Sum(leg, N), k)]
      /\ positions' = [w \in Outcomes |-> SeedPosition(seed, leg, w)]
      /\ acceptedPool' = Sum(leg, N)
      /\ UNCHANGED <<chainVars, vintageVars>>
  BY DEF Create
<1> HIDE DEF leg
<1>4. ~vintageOpen /\ blockNo \in Nat /\ blockNo >= 1
  BY <1>3 DEF IInv, LedgerInv, Blank, TypeOK, BatchInv, AgeInv
<1>5. /\ RoundOK(books', positions', acceptedPool') /\ BatchOK(books', positions')
      /\ AgeOK(positions', blockNo, FALSE, vintageBlock)
  BY <1>1, <1>2, <1>3, <1>4, BatchSeed
<1>6. AgeOK(positions', blockNo', vintageOpen', vintageBlock') /\ blockNo' >= 1
  BY <1>3, <1>4, <1>5 DEF chainVars, vintageVars, AgeOK
<1> QED BY <1>5, <1>6 DEF BatchInv, AgeInv

LEMMA EnterBatch ==
  ASSUME IInv, BatchInv, NEW u \in Users, NEW o \in Outcomes, NEW amount \in Amounts,
         Enter(u, o, amount)
  PROVE  BatchInv'
<1> DEFINE b == BooksAfter(RollDue)
           p == PositionsAfter(RollDue)
           pend == PendingAfter(RollDue)
           e == [owner |-> u, outcome |-> o, finalized |-> FALSE, refunded |-> FALSE,
                 claimed |-> FALSE, vintage |-> blockNo, offered |-> amount,
                 accepted |-> 0, entryAcc |-> 0]
           open == vintageOpen /\ ~RollDue
<1>1. RollDue \in BOOLEAN
  BY DEF RollDue
<1>2. /\ status = "Open"
      /\ vintageOpen' = TRUE
      /\ vintageBlock' = IF open THEN vintageBlock ELSE blockNo
      /\ positions' = Append(p, e)
      /\ books' = [w \in Outcomes |->
                     IF w = o THEN b[w] ELSE [b[w] EXCEPT !.demand = @ + amount]]
      /\ acceptedPool' = PoolAfter(RollDue)
      /\ UNCHANGED chainVars
  BY DEF Enter
<1>3. /\ b \in [Outcomes -> Book] /\ p \in Seq(Position) /\ Len(p) = Count
      /\ PendingOK(b, p, pend)
  BY <1>1, <1>2, AfterRoll DEF LedgerOK
<1>4. /\ RoundOK(b, p, PoolAfter(RollDue)) /\ BatchOK(b, p)
      /\ AgeOK(p, blockNo, open, vintageBlock)
  BY <1>1, <1>2, BatchAfterRoll
<1>5. blockNo \in Nat /\ vintageBlock \in Nat /\ amount \in Nat /\ blockNo >= 1
  BY InputAssumption DEF IInv, TypeOK, BatchInv, AgeInv
<1>6. e \in Position /\ ~e.finalized /\ e.accepted = 0 /\ e.entryAcc = 0 /\ e.vintage = blockNo
  BY <1>5 DEF Position
<1>7. open => vintageBlock = blockNo
  BY <1>5 DEF RollDue, IInv, VintageInv
<1> HIDE DEF b, p, pend, e, open
<1>8. KeepsBooks(b, books')
  <2>1. ASSUME NEW w \in Outcomes
        PROVE  books'[w].principal = b[w].principal /\ books'[w].acc = b[w].acc
    <3>1. b[w] \in Book
      BY <1>3
    <3>2. books'[w] = IF w = o THEN b[w] ELSE [b[w] EXCEPT !.demand = @ + amount]
      BY <1>2
    <3> QED BY <3>1, <3>2 DEF Book
  <2> QED BY <2>1 DEF KeepsBooks
<1>9. RoundOK(books', positions', acceptedPool') /\ BatchOK(books', positions')
  BY <1>2, <1>3, <1>4, <1>6, <1>8, BatchAppend
<1>10. AgeOK(positions', blockNo', vintageOpen', vintageBlock')
  <2>1. /\ Count \in Nat /\ Len(positions') = Count + 1
        /\ \A i \in 1..Count : positions'[i] = p[i] /\ p[i].vintage \in Nat
        /\ positions'[Count + 1] = e
    <3>1. p \in [1..Len(p) -> Position] /\ Len(p) \in Nat
      BY <1>3, SeqIsFun
    <3>2. /\ Len(Append(p, e)) = Len(p) + 1
          /\ \A i \in 1..Len(p) : Append(p, e)[i] = p[i]
          /\ Append(p, e)[Len(p) + 1] = e
      BY <1>3, <1>6, AppendIsFun
    <3> QED BY <1>2, <1>3, <3>1, <3>2 DEF Position
  <2>2. blockNo' = blockNo /\ vintageOpen' /\ vintageBlock' = blockNo
    BY <1>2, <1>7 DEF chainVars
  <2>3. ASSUME NEW i \in 1..Count
        PROVE  /\ positions'[i].finalized => positions'[i].vintage < blockNo
               /\ ~positions'[i].finalized => positions'[i].vintage = blockNo
    BY <1>3, <1>4, <1>7, <2>1 DEF AgeOK
  <2>4. ASSUME NEW i \in 1..(Count + 1)
        PROVE  /\ positions'[i].finalized => positions'[i].vintage < blockNo
               /\ ~positions'[i].finalized => positions'[i].vintage = blockNo
    <3>1. i \in 1..Count \/ i = Count + 1
      BY <2>1
    <3> QED BY <1>6, <2>1, <2>3, <3>1
  <2> QED BY <2>1, <2>2, <2>4 DEF AgeOK
<1>11. blockNo' >= 1
  BY <1>2, <1>5 DEF chainVars
<1> QED BY <1>9, <1>10, <1>11 DEF BatchInv, AgeInv

LEMMA WithdrawRefundBatch ==
  ASSUME IInv, BatchInv, NEW u \in Users, NEW i \in 1..Count, WithdrawRefund(u, i)
  PROVE  BatchInv'
<1> DEFINE due == status = "Open" /\ RollDue
           p == PositionsAfter(due)
<1>1. /\ books' = BooksAfter(due)
      /\ positions' = [p EXCEPT ![i].refunded = TRUE]
      /\ acceptedPool' = PoolAfter(due)
      /\ vintageOpen' = (vintageOpen /\ ~due)
      /\ UNCHANGED <<chainVars, vintageBlock>>
  BY DEF WithdrawRefund
<1>2. due \in BOOLEAN /\ (due => RollDue)
  BY DEF RollDue
<1>3. status # "None"
  BY DEF IInv, LedgerInv, Blank, Count
<1> HIDE DEF due
<1>4. p \in Seq(Position) /\ Len(p) = Count
  BY <1>2, <1>3, AfterRoll
<1> HIDE DEF p
<1>5. KeepsTerms(p, positions')
  <2>1. p \in [1..Count -> Position] /\ Count \in Nat
    BY <1>4, SeqIsFun
  <2>2. positions' \in [1..Count -> Position]
    <3>1. [p[i] EXCEPT !.refunded = TRUE] \in Position
      BY <2>1 DEF Position
    <3> QED BY <1>1, <2>1, <3>1
  <2>3. Len(positions') = Count
    BY <2>1, <2>2, FunIsSeq
  <2> QED BY <1>1, <1>4, <2>1, <2>3 DEF KeepsTerms, Position
<1>6. KeepsTerms(PositionsAfter(due), positions') /\ KeepsBooks(BooksAfter(due), books')
  BY <1>1, <1>5 DEF p, KeepsBooks
<1>7. blockNo' \in Nat /\ blockNo' >= blockNo
  BY <1>1 DEF IInv, TypeOK, chainVars
<1> QED BY <1>1, <1>2, <1>3, <1>6, <1>7, BatchKept

LEMMA ClaimBatch ==
  ASSUME IInv, BatchInv, NEW u \in Users, NEW i \in 1..Count, Claim(u, i)
  PROVE  BatchInv'
<1>1. /\ status \in {"Resolved", "Voided"}
      /\ books' = IF Wins(positions[i]) THEN [books EXCEPT ![winner].live = @ - 1] ELSE books
      /\ positions' = [positions EXCEPT ![i].refunded = TRUE, ![i].claimed = TRUE]
      /\ UNCHANGED <<chainVars, vintageVars, acceptedPool>>
  BY DEF Claim
<1>2. LedgerType
  BY <1>1, LedgerTyped
<1>3. Count \in Nat /\ Count = Len(positions) /\ positions \in [1..Count -> Position]
  BY <1>2, SeqIsFun DEF LedgerType, Count
<1>4. KeepsTerms(positions, positions')
  <2>1. positions' \in [1..Count -> Position]
    <3>1. [positions[i] EXCEPT !.refunded = TRUE, !.claimed = TRUE] \in Position
      BY <1>3 DEF Position
    <3> QED BY <1>1, <1>3, <3>1
  <2>2. Len(positions') = Count
    BY <1>3, <2>1, FunIsSeq
  <2> QED BY <1>1, <1>3, <2>2 DEF KeepsTerms, Position
<1>5. KeepsBooks(books, books')
  BY <1>1, <1>2 DEF KeepsBooks, LedgerType, Book
<1>6. blockNo' \in Nat /\ blockNo' >= blockNo
  BY <1>1 DEF IInv, TypeOK, chainVars
<1> QED BY <1>1, <1>4, <1>5, <1>6, StillBatch DEF vintageVars

LEMMA TransferPositionBatch ==
  ASSUME IInv, BatchInv, NEW u \in Users, NEW i \in 1..Count, NEW to \in Users,
         TransferPosition(u, i, to)
  PROVE  BatchInv'
<1>1. /\ positions' = [positions EXCEPT ![i].owner = to]
      /\ UNCHANGED <<chainVars, books, acceptedPool, vintageVars>>
  BY DEF TransferPosition
<1>2. status # "None"
  BY DEF IInv, LedgerInv, Blank, Count
<1>3. LedgerType
  BY <1>2, LedgerTyped
<1>4. Count \in Nat /\ Count = Len(positions) /\ positions \in [1..Count -> Position]
  BY <1>3, SeqIsFun DEF LedgerType, Count
<1>5. KeepsTerms(positions, positions')
  <2>1. positions' \in [1..Count -> Position]
    <3>1. [positions[i] EXCEPT !.owner = to] \in Position
      BY <1>4 DEF Position
    <3> QED BY <1>1, <1>4, <3>1
  <2>2. Len(positions') = Count
    BY <1>4, <2>1, FunIsSeq
  <2> QED BY <1>1, <1>4, <2>2 DEF KeepsTerms, Position
<1>6. KeepsBooks(books, books') /\ blockNo' \in Nat /\ blockNo' >= blockNo
  BY <1>1 DEF KeepsBooks, IInv, TypeOK, chainVars
<1> QED BY <1>1, <1>2, <1>5, <1>6, StillBatch DEF vintageVars

LEMMA QuietBatch ==
  ASSUME IInv, BatchInv, blockNo' \in Nat, blockNo' >= blockNo,
         UNCHANGED <<status, ledgerVars, vintageVars>>
  PROVE  BatchInv'
<1>1. CASE status = "None"
  <2>1. positions' = <<>> /\ Len(<<>>) = 0
    BY <1>1 DEF IInv, LedgerInv, Blank, ledgerVars
  <2>2. blockNo' >= 1
    BY DEF BatchInv, AgeInv, IInv, TypeOK
  <2> QED BY <1>1, <2>1, <2>2 DEF BatchInv, AgeInv, AgeOK
<1>2. CASE status # "None"
  <2>1. KeepsTerms(positions, positions') /\ KeepsBooks(books, books')
    BY DEF KeepsTerms, KeepsBooks, ledgerVars
  <2> QED BY <1>2, <2>1, StillBatch DEF ledgerVars, vintageVars
<1> QED BY <1>1, <1>2

LEMMA BatchInit == Init => BatchInv
BY DEF Init, BatchInv, AgeInv, AgeOK

LEMMA BatchStep == IInv /\ BatchInv /\ [Next]_vars => BatchInv'
<1> SUFFICES ASSUME IInv, BatchInv, [Next]_vars PROVE BatchInv'
  OBVIOUS
<1>0. blockNo \in Nat
  BY DEF IInv, TypeOK
<1>1. ASSUME NEW seed \in Seeds, NEW k \in Kappas, Create(seed, k) PROVE BatchInv'
  BY <1>1, CreateBatch
<1>2. ASSUME NEW u \in Users, NEW o \in Outcomes, NEW amount \in Amounts,
             Enter(u, o, amount)
      PROVE  BatchInv'
  BY <1>2, EnterBatch
<1>3. CASE FinalizeVintage
  BY <1>3, RollBatch DEF FinalizeVintage, chainVars
<1>4. ASSUME NEW u, NEW w, Resolve(u, w) PROVE BatchInv'
  BY <1>4, RollBatch DEF Resolve, chainVars
<1>5. ASSUME NEW u, VoidMarket(u) PROVE BatchInv'
  BY <1>5, RollBatch DEF VoidMarket, chainVars
<1>6. ASSUME NEW u \in Users, NEW i \in 1..Count, WithdrawRefund(u, i) PROVE BatchInv'
  BY <1>6, WithdrawRefundBatch
<1>7. ASSUME NEW u \in Users, NEW i \in 1..Count, Claim(u, i) PROVE BatchInv'
  BY <1>7, ClaimBatch
<1>8. ASSUME NEW u \in Users, ClaimResidue(u) PROVE BatchInv'
  BY <1>0, <1>8, QuietBatch DEF ClaimResidue, chainVars, settleVars
<1>9. ASSUME NEW u \in Users, NEW to \in Users, NEW i \in 1..Count,
             TransferPosition(u, i, to)
      PROVE  BatchInv'
  BY <1>9, TransferPositionBatch
<1>10. CASE NextBlock
  BY <1>0, <1>10, QuietBatch DEF NextBlock, settleVars
<1>11. CASE UNCHANGED vars
  BY <1>0, <1>11, QuietBatch DEF vars, chainVars, settleVars
<1> QED BY <1>1, <1>2, <1>3, <1>4, <1>5, <1>6, <1>7, <1>8, <1>9, <1>10, <1>11 DEF Next

LEMMA BatchInvariance == Spec => [](IInv /\ BatchInv)
<1>1. Init => IInv /\ BatchInv
  BY InitInv, BatchInit
<1>2. (IInv /\ BatchInv) /\ [Next]_vars => (IInv /\ BatchInv)'
  BY StepInv, BatchStep
<1> QED BY <1>1, <1>2, PTL DEF Spec

(* With nothing in the market there is nothing to round and nobody to gain. *)
LEMMA BlankBatch ==
  ASSUME Blank
  PROVE  ResidueIsRounding /\ VestsOnlyToEarlier
<1>1. Count = 0 /\ acceptedPool = 0
  BY DEF Blank, Count
<1>2. ASSUME NEW f PROVE Sum(f, Count) = 0
  BY <1>1, SumZero
<1>3. VestsOnlyToEarlier
  <2>1. 1..Count = {}
    BY <1>1
  <2>2. {positions[i].vintage : i \in 1..Count} \ {0} = {}
    BY <2>1
  <2> QED BY ONLY <2>2, Zenon DEF VestsOnlyToEarlier
<1>4. ResidueIsRounding
  <2> SUFFICES ASSUME NEW w \in Outcomes
               PROVE  SCALE * acceptedPool - Sum(WeightOn(books, positions, w), Count)
                        <= Cardinality(VestingOn(positions, w)) * books[w].principal
    BY DEF ResidueIsRounding, On, Weight, WeightOn, VestingOn, VestedAgainst, Count
  <2>1. SCALE * acceptedPool = 0 /\ books[w].principal = 0
    BY <1>1, ScaleAssumption DEF Blank
  <2>2. Cardinality(VestingOn(positions, w)) \in Nat
    BY <1>1, VestingFinite DEF Count
  <2> QED BY <1>2, <2>1, <2>2
<1> QED BY <1>3, <1>4

(* claimResidue: what a branch does not pay out is less than one unit of
   accumulator per vintage that vested into it, in every behaviour. *)
THEOREM DustOnly == Spec => []ResidueIsRounding
<1>1. IInv /\ BatchInv => ResidueIsRounding
  <2>1. ASSUME IInv, BatchInv, status # "None" PROVE ResidueIsRounding
    <3>1. RoundOK(books, positions, acceptedPool)
      BY <2>1 DEF BatchInv
    <3> QED BY <3>1 DEF RoundOK, ResidueIsRounding, On, Weight, WeightOn, VestingOn,
                        VestedAgainst, Count
  <2>2. ASSUME IInv, status = "None" PROVE ResidueIsRounding
    BY <2>2, BlankBatch DEF IInv, LedgerInv
  <2> QED BY <2>1, <2>2
<1> QED BY <1>1, BatchInvariance, PTL

(* The batching rule of _finalizeVintage: what entries from a vintage on can gain
   is covered by stakes against them that are strictly younger. *)
THEOREM YoungerNeverShare == Spec => []VestsOnlyToEarlier
<1>1. IInv /\ BatchInv => VestsOnlyToEarlier
  <2>1. ASSUME IInv, BatchInv, status # "None" PROVE VestsOnlyToEarlier
    <3> SUFFICES ASSUME NEW w \in Outcomes,
                        NEW v \in {positions[i].vintage : i \in 1..Count} \ {0}
                 PROVE  Sum([i \in 1..Count |->
                              IF positions[i].outcome = w
                              THEN IF positions[i].vintage >= v
                                   THEN Weight(positions[i]) - SCALE * positions[i].accepted ELSE 0
                              ELSE 0], Count)
                        <= Sum([i \in 1..Count |->
                              IF positions[i].outcome # w
                              THEN IF positions[i].vintage > v
                                   THEN SCALE * positions[i].accepted ELSE 0
                              ELSE 0], Count)
      BY DEF VestsOnlyToEarlier, On, Against
    <3>1. LedgerType
      BY <2>1, LedgerTyped
    <3>2. v \in Nat \ {0} /\ Count = Len(positions) /\ Count \in Nat
      BY <3>1, PositionAt, CountNat DEF Count
    <3>3. Sum(GainFrom(books, positions, w, v), Count) <= Sum(YoungerOff(positions, w, v), Count)
      BY <2>1, <3>2 DEF BatchInv, BatchOK
    <3> DEFINE g == [i \in 1..Count |->
                       IF positions[i].outcome = w
                       THEN IF positions[i].vintage >= v
                            THEN Weight(positions[i]) - SCALE * positions[i].accepted ELSE 0
                       ELSE 0]
               y == [i \in 1..Count |->
                       IF positions[i].outcome # w
                       THEN IF positions[i].vintage > v
                            THEN SCALE * positions[i].accepted ELSE 0
                       ELSE 0]
    <3>4. \A i \in 1..Count : /\ g[i] = GainFrom(books, positions, w, v)[i]
                              /\ y[i] = YoungerOff(positions, w, v)[i]
      <4>1. ASSUME NEW i \in 1..Count
            PROVE  Weight(positions[i]) - SCALE * positions[i].accepted
                     = positions[i].accepted * (books[positions[i].outcome].acc - positions[i].entryAcc)
        <5>1. PICK s \in Nat, a \in Nat, e \in Nat :
                /\ s = positions[i].accepted /\ a = books[positions[i].outcome].acc
                /\ e = positions[i].entryAcc
          BY <3>1, PositionAt, BookAt
        <5>2. SCALE + a - e = SCALE + (a - e) /\ a - e \in Int /\ SCALE \in Int
          BY ScaleAssumption
        <5>3. s * (SCALE + a - e) - SCALE * s = s * (a - e)
          BY <5>2
        <5> QED BY <5>1, <5>3 DEF Weight
      <4> QED BY <3>2, <4>1 DEF GainFrom, YoungerOff
    <3> HIDE DEF g, y
    <3>5. Sum(g, Count) = Sum(GainFrom(books, positions, w, v), Count)
      BY <3>2, <3>4, SumEq
    <3>6. Sum(y, Count) = Sum(YoungerOff(positions, w, v), Count)
      BY <3>2, <3>4, SumEq
    <3>7. Sum(g, Count) <= Sum(y, Count)
      BY <3>3, <3>5, <3>6
    <3> QED BY <3>7 DEF g, y
  <2>2. ASSUME IInv, status = "None" PROVE VestsOnlyToEarlier
    BY <2>2, BlankBatch DEF IInv, LedgerInv
  <2> QED BY <2>1, <2>2
<1> QED BY <1>1, BatchInvariance, PTL

-----------------------------------------------------------------------------
(* Where a market's money is: its share of the balance is always exactly   *)
(* what it still has to pay, and once settled enough for everybody who has *)
(* not claimed.  Each stage of a market counts by other lists: an open one *)
(* by the remainders and the pool, a void one by the unclaimed principals, *)
(* a resolved one by the payouts made and still owed.                      *)

(* The lists the balance is counted by, over any books b and positions p. *)
Unpulled(p) == [i \in 1..Len(p) |-> Remainder(p[i])]
Unclaimed(p) == [i \in 1..Len(p) |-> VoidDue(p[i])]
PaysOn(b, p, w) == [i \in 1..Len(p) |-> WeightOn(b, p, w)[i] \div SCALE]
PaidOn(b, p, w) == [i \in 1..Len(p) |-> IF p[i].claimed THEN PaysOn(b, p, w)[i] ELSE 0]
OwedOn(b, p, w) == [i \in 1..Len(p) |-> IF p[i].claimed THEN 0 ELSE PaysOn(b, p, w)[i]]

(* The stakes that live counts: all of those on w, and those not claimed yet. *)
Joined(p, w) == [i \in 1..Len(p) |-> IF p[i].outcome = w /\ p[i].accepted > 0 THEN 1 ELSE 0]
StillLive(p, w) == [i \in 1..Len(p) |-> IF p[i].claimed THEN 0 ELSE Joined(p, w)[i]]

(* A remainder is never negative, and is not pulled before it is known. *)
RefundOK(p) ==
  \A i \in 1..Len(p) : /\ ~p[i].refunded => p[i].accepted <= p[i].offered
                       /\ ~p[i].finalized => ~p[i].refunded

(* An open market holds the remainders and the pool. *)
OpenMoney(b, p, pool, money) ==
  /\ \A i \in 1..Len(p) : ~p[i].claimed
  /\ money = Sum(Unpulled(p), Len(p)) + pool
  /\ \A w \in Outcomes : b[w].live = Sum(Joined(p, w), Len(p))

MoneyInv ==
  /\ RefundOK(positions)
  /\ status \in {"None", "Open"} => paidOut = 0 /\ ~residueClaimed
  /\ status = "None" => escrow = 0
  /\ status = "Open" => OpenMoney(books, positions, acceptedPool, escrow)
  /\ status = "Voided" =>
       escrow = Sum(Unpulled(positions), Count) + Sum(Unclaimed(positions), Count)
  /\ status = "Resolved" =>
       /\ escrow = Sum(Unpulled(positions), Count)
                     + (IF residueClaimed THEN 0 ELSE acceptedPool - paidOut)
       /\ paidOut = Sum(PaidOn(books, positions, winner), Count)
       /\ books[winner].live = Sum(StillLive(positions, winner), Count)
       /\ residueClaimed => \A i \in 1..Count : StillLive(positions, winner)[i] = 0

-----------------------------------------------------------------------------
(* The lists have natural numbers for entries.                             *)

LEMMA RemainderNat ==
  ASSUME NEW p \in Seq(Position), RefundOK(p), NEW i \in 1..Len(p)
  PROVE  Unpulled(p)[i] \in Nat /\ Unpulled(p)[i] = Remainder(p[i])
<1>1. p[i] \in Position /\ (~p[i].refunded => p[i].accepted <= p[i].offered)
  BY SeqIsFun DEF RefundOK
<1> QED BY <1>1 DEF Unpulled, Remainder, Position

LEMMA JoinedNat ==
  ASSUME NEW p \in Seq(Position), NEW w, NEW i \in 1..Len(p)
  PROVE  /\ Joined(p, w)[i] \in {0, 1} /\ StillLive(p, w)[i] \in {0, 1}
         /\ Joined(p, w)[i] \in Nat /\ StillLive(p, w)[i] \in Nat
BY DEF Joined, StillLive

-----------------------------------------------------------------------------
(* The open market.                                                        *)

(* create: the legs have no remainder, and one is live on every outcome. *)
LEMMA MoneySeed ==
  ASSUME NEW seed \in Legs, NEW leg \in Legs, NEW k \in Kappa,
         \A o \in Outcomes : leg[o] # 0,
         NEW b, b = [w \in Outcomes |-> SeedBook(leg, w, Sum(leg, N), k)],
         NEW p, p = [w \in Outcomes |-> SeedPosition(seed, leg, w)],
         p \in Seq(Position), Len(p) = N, Sum(leg, N) \in Nat
  PROVE  RefundOK(p) /\ OpenMoney(b, p, Sum(leg, N), Sum(leg, N))
<1>1. N \in Nat /\ Outcomes = 1..N
  BY SizeAssumption DEF Outcomes
<1>2. ASSUME NEW i \in 1..N
      PROVE  /\ p[i].outcome = i /\ p[i].accepted = leg[i] /\ leg[i] \in Nat /\ leg[i] > 0
             /\ p[i].refunded /\ p[i].finalized /\ ~p[i].claimed
  <2>1. leg[i] \in Nat /\ leg[i] # 0
    BY <1>1 DEF Legs
  <2> QED BY <1>1, <2>1 DEF SeedPosition
<1>3. RefundOK(p)
  BY <1>2 DEF RefundOK
<1>4. Sum(Unpulled(p), N) = 0
  <2>1. \A i \in 1..N : Unpulled(p)[i] = 0
    BY <1>2 DEF Unpulled, Remainder
  <2> QED BY <1>1, <2>1, SumZeros
<1>5. ASSUME NEW w \in Outcomes PROVE b[w].live = Sum(Joined(p, w), N)
  <2>1. \A i \in 1..N : Joined(p, w)[i] = IF i = w THEN 1 ELSE 0
    BY <1>2 DEF Joined
  <2>2. Sum(Joined(p, w), N) = 1
    <3>1. PICK x \in Nat : x = 1
      OBVIOUS
    <3>2. /\ x \in Nat /\ w \in 1..N /\ N \in Nat
          /\ \A i \in 1..N : Joined(p, w)[i] = IF i = w THEN x ELSE 0
      BY <1>1, <2>1, <3>1
    <3>3. Sum(Joined(p, w), N) = x
      BY ONLY <3>2, SumSingle
    <3> QED BY <3>1, <3>3
  <2>3. b[w].live = 1
    <3>1. b[w] = SeedBook(leg, w, Sum(leg, N), k)
      OBVIOUS
    <3> QED BY <3>1 DEF SeedBook
  <2> QED BY <2>2, <2>3
<1>6. Sum(leg, N) = Sum(Unpulled(p), Len(p)) + Sum(leg, N)
  <2>1. \A x \in Nat : x = 0 + x
    OBVIOUS
  <2> QED BY <1>4, <2>1
<1>7. \A i \in 1..Len(p) : ~p[i].claimed
  BY <1>2
<1>8. \A w \in Outcomes : b[w].live = Sum(Joined(p, w), Len(p))
  BY <1>5
<1> QED BY <1>3, <1>6, <1>7, <1>8 DEF OpenMoney

(* A roll moves what it accepts from the remainders to the pool. *)
LEMMA MoneyRoll ==
  ASSUME LedgerType, LedgerOK(books, positions, acceptedPool, pending),
         RefundOK(positions), NEW money,
         OpenMoney(books, positions, acceptedPool, money)
  PROVE  /\ RefundOK(FinalPositions)
         /\ OpenMoney(FinalBooks, FinalPositions, acceptedPool + Sum(AcceptedNow, Count), money)
<1> DEFINE q == FinalPositions
           joining(w) == [i \in 1..Count |->
                            IF positions[i].outcome = w /\ AcceptedNow[i] > 0 THEN 1 ELSE 0]
<1>1. Count \in Nat /\ q \in Seq(Position) /\ Len(q) = Count /\ Count = Len(positions)
  BY CountNat, FinalPositionsType DEF Count
<1>2. ASSUME NEW i \in 1..Count
      PROVE  /\ positions[i].accepted \in Nat /\ positions[i].offered \in Nat
             /\ AcceptedNow[i] \in Nat
             /\ q[i].outcome = positions[i].outcome /\ q[i].offered = positions[i].offered
             /\ q[i].refunded = positions[i].refunded /\ q[i].claimed = positions[i].claimed
             /\ q[i].finalized
             /\ i \in pending => /\ positions[i].accepted = 0 /\ ~positions[i].refunded
                                 /\ q[i].accepted = AcceptedNow[i]
                                 /\ AcceptedNow[i] <= positions[i].offered
             /\ i \notin pending => AcceptedNow[i] = 0 /\ q[i].accepted = positions[i].accepted
  BY <1>1, PositionAt, AcceptedNowType, Zenon
     DEF FinalPositions, AcceptedNow, LedgerOK, PendingOK, RefundOK, Position
<1> HIDE DEF q
<1>3. RefundOK(q)
  BY <1>1, <1>2 DEF RefundOK
<1>4. Sum(Unpulled(positions), Count) = Sum(Unpulled(q), Count) + Sum(AcceptedNow, Count)
  <2>1. ASSUME NEW i \in 1..Count
        PROVE  /\ Unpulled(q)[i] \in Nat /\ AcceptedNow[i] \in Nat
               /\ Unpulled(positions)[i] = Unpulled(q)[i] + AcceptedNow[i]
    <3>1. Unpulled(q)[i] \in Nat /\ Unpulled(q)[i] = Remainder(q[i])
      BY <1>1, <1>3, RemainderNat
    <3>2. Unpulled(positions)[i] = Remainder(positions[i])
      BY <1>1 DEF Unpulled
    <3> QED BY <1>2, <3>1, <3>2 DEF Remainder
  <2> QED BY <1>1, <2>1, SumAdd, SMTT(30)
<1>5. ASSUME NEW w \in Outcomes PROVE FinalBooks[w].live = Sum(Joined(q, w), Count)
  <2>1. ASSUME NEW i \in 1..Count
        PROVE  /\ Joined(positions, w)[i] \in Nat /\ joining(w)[i] \in Nat
               /\ Joined(q, w)[i] = Joined(positions, w)[i] + joining(w)[i]
    BY <1>1, <1>2 DEF Joined
  <2> HIDE DEF joining
  <2>2. Sum(Joined(q, w), Count) = Sum(Joined(positions, w), Count) + Sum(joining(w), Count)
    BY <1>1, <2>1, SumAdd, SMTT(30)
  <2>3. books[w].live = Sum(Joined(positions, w), Count)
    BY <1>1 DEF OpenMoney
  <2>4. FinalBooks[w].live = books[w].live + Joiners(w)
    BY DEF FinalBooks
  <2> QED BY <2>2, <2>3, <2>4 DEF joining, Joiners
<1>6. Sum(Unpulled(q), Count) \in Nat /\ Sum(AcceptedNow, Count) \in Nat /\ acceptedPool \in Nat
  <2>1. \A i \in 1..Count : Unpulled(q)[i] \in Nat
    BY <1>1, <1>3, RemainderNat
  <2>2. \A i \in 1..Count : AcceptedNow[i] \in Nat
    BY <1>2
  <2> QED BY <1>1, <2>1, <2>2, SumNat DEF LedgerType
<1>7. money = Sum(Unpulled(q), Count) + (acceptedPool + Sum(AcceptedNow, Count))
  BY <1>1, <1>4, <1>6 DEF OpenMoney
<1>8. \A i \in 1..Len(q) : ~q[i].claimed
  BY <1>1, <1>2 DEF OpenMoney
<1> QED BY <1>1, <1>3, <1>5, <1>7, <1>8 DEF OpenMoney, q

(* The same whether or not a vintage was due. *)
LEMMA MoneyAfterRoll ==
  ASSUME IInv, MoneyInv, status = "Open", NEW due \in BOOLEAN
  PROVE  /\ RefundOK(PositionsAfter(due))
         /\ OpenMoney(BooksAfter(due), PositionsAfter(due), PoolAfter(due), escrow)
<1>1. LedgerType /\ LedgerOK(books, positions, acceptedPool, pending)
  BY LedgerTyped
<1>2. RefundOK(positions) /\ OpenMoney(books, positions, acceptedPool, escrow)
  BY DEF MoneyInv
<1>3. CASE due
  BY <1>1, <1>2, <1>3, MoneyRoll DEF BooksAfter, PositionsAfter, PoolAfter
<1>4. CASE ~due
  BY <1>2, <1>4 DEF BooksAfter, PositionsAfter, PoolAfter
<1> QED BY <1>3, <1>4

(* enter: the offer comes in, all of it a remainder until the vintage is over. *)
LEMMA MoneyAppend ==
  ASSUME NEW b, NEW p \in Seq(Position), NEW pool \in Nat, NEW money,
         RefundOK(p), OpenMoney(b, p, pool, money),
         NEW b2, \A w \in Outcomes : b2[w].live = b[w].live,
         NEW e \in Position, ~e.finalized, ~e.refunded, ~e.claimed, e.accepted = 0
  PROVE  RefundOK(Append(p, e)) /\ OpenMoney(b2, Append(p, e), pool, money + e.offered)
<1> DEFINE n == Len(p)
           q == Append(p, e)
<1>1. /\ n \in Nat /\ q \in Seq(Position) /\ Len(q) = n + 1
      /\ \A i \in 1..n : q[i] = p[i]
      /\ q[n + 1] = e
  BY AppendIsFun, SeqIsFun
<1>2. e.offered \in Nat
  BY DEF Position
<1> HIDE DEF n, q
<1>3. RefundOK(q)
  BY <1>1, <1>2 DEF RefundOK, n
<1>4. Sum(Unpulled(q), n + 1) = Sum(Unpulled(p), n) + e.offered
  <2>1. \A i \in 1..n : Unpulled(q)[i] = Unpulled(p)[i]
    BY <1>1 DEF Unpulled, n
  <2>2. Unpulled(q)[n + 1] = e.offered
    BY <1>1, <1>2 DEF Unpulled, Remainder
  <2>3. Sum(Unpulled(q), n) = Sum(Unpulled(p), n)
    BY <1>1, <2>1, SumEq
  <2> QED BY <1>1, <2>2, <2>3, SumStep
<1>5. ASSUME NEW w \in Outcomes PROVE b2[w].live = Sum(Joined(q, w), n + 1)
  <2>1. \A i \in 1..n : Joined(q, w)[i] = Joined(p, w)[i]
    BY <1>1 DEF Joined, n
  <2>2. Joined(q, w)[n + 1] = 0
    BY <1>1 DEF Joined
  <2>3. Sum(Joined(q, w), n) = Sum(Joined(p, w), n) /\ Sum(Joined(p, w), n) \in Nat
    <3>1. \A i \in 1..n : Joined(p, w)[i] \in Nat
      BY JoinedNat DEF n
    <3> QED BY <1>1, <2>1, <3>1, SumEq, SumNat
  <2>4. Sum(Joined(q, w), n + 1) = Sum(Joined(p, w), n)
    BY <1>1, <2>2, <2>3, SumStep
  <2> QED BY <2>4 DEF OpenMoney, n
<1>6. Sum(Unpulled(p), n) \in Nat
  <2>1. \A i \in 1..n : Unpulled(p)[i] \in Nat
    BY RemainderNat DEF n
  <2> QED BY <1>1, <2>1, SumNat
<1>7. money + e.offered = Sum(Unpulled(q), n + 1) + pool
  BY <1>2, <1>4, <1>6 DEF OpenMoney, n
<1>8. \A i \in 1..(n + 1) : ~q[i].claimed
  BY <1>1 DEF OpenMoney, n
<1> QED BY <1>1, <1>3, <1>5, <1>7, <1>8 DEF OpenMoney, q

-----------------------------------------------------------------------------
(* The settled market.                                                     *)

(* What a position on w is paid is a natural number, at most its weight. *)
LEMMA PaysNat ==
  ASSUME NEW b \in [Outcomes -> Book], NEW p \in Seq(Position), NEW pool, NEW pend,
         LedgerOK(b, p, pool, pend), NEW w \in Outcomes, NEW i \in 1..Len(p)
  PROVE  /\ WeightOn(b, p, w)[i] \in Nat /\ PaysOn(b, p, w)[i] \in Nat
         /\ PaysOn(b, p, w)[i] = WeightOn(b, p, w)[i] \div SCALE
         /\ SCALE * PaysOn(b, p, w)[i] <= WeightOn(b, p, w)[i]
<1>1. p[i] \in Position /\ p[i].outcome \in Outcomes /\ b[p[i].outcome] \in Book
  <2>1. p[i] \in Position
    BY SeqIsFun
  <2>2. p[i].outcome \in Outcomes
    BY <2>1 DEF Position
  <2> QED BY <2>1, <2>2
<1>2. /\ p[i].accepted \in Nat /\ p[i].entryAcc \in Nat /\ b[p[i].outcome].acc \in Nat
      /\ p[i].entryAcc <= b[p[i].outcome].acc
  BY <1>1 DEF Position, Book, LedgerOK, PendingOK
<1>3. p[i].accepted * (SCALE + b[p[i].outcome].acc - p[i].entryAcc) \in Nat
  BY <1>2, WeightNat
<1>4. WeightOn(b, p, w)[i] \in Nat
  BY <1>3 DEF WeightOn
<1>5. PaysOn(b, p, w)[i] = WeightOn(b, p, w)[i] \div SCALE
  BY DEF PaysOn
<1> QED BY <1>4, <1>5, ScaleAssumption, DivType

(* The moment a market is settled nothing is claimed: on void the pool is owed
   back in full, on resolution nothing of it is paid. *)
LEMMA NothingClaimed ==
  ASSUME NEW b \in [Outcomes -> Book], NEW p \in Seq(Position), NEW pool \in Nat, NEW pend,
         LedgerOK(b, p, pool, pend), \A i \in 1..Len(p) : ~p[i].claimed, NEW w \in Outcomes
  PROVE  /\ Sum(Unclaimed(p), Len(p)) = pool
         /\ Sum(PaidOn(b, p, w), Len(p)) = 0
         /\ Sum(StillLive(p, w), Len(p)) = Sum(Joined(p, w), Len(p))
<1>1. Len(p) \in Nat /\ \A i \in 1..Len(p) : p[i] \in Position
  BY SeqIsFun
<1>2. \A i \in 1..Len(p) : /\ StakeOn(p, w)[i] \in Nat /\ StakeOff(p, w)[i] \in Nat
                           /\ Unclaimed(p)[i] = StakeOn(p, w)[i] + StakeOff(p, w)[i]
  BY <1>1 DEF StakeOn, StakeOff, Unclaimed, VoidDue, Position
<1>3. Sum(Unclaimed(p), Len(p)) = Sum(StakeOn(p, w), Len(p)) + Sum(StakeOff(p, w), Len(p))
  BY <1>1, <1>2, SumAdd
<1>4. Sum(StakeOn(p, w), Len(p)) + Sum(StakeOff(p, w), Len(p)) = pool
  BY DEF LedgerOK, SplitOK
<1>5. Sum(PaidOn(b, p, w), Len(p)) = 0
  <2>1. \A i \in 1..Len(p) : PaidOn(b, p, w)[i] = 0
    BY DEF PaidOn
  <2> QED BY <1>1, <2>1, SumZeros
<1>6. Sum(StillLive(p, w), Len(p)) = Sum(Joined(p, w), Len(p))
  <2>1. \A i \in 1..Len(p) : StillLive(p, w)[i] = Joined(p, w)[i]
    BY DEF StillLive
  <2> QED BY <1>1, <2>1, SumEq
<1> QED BY <1>3, <1>4, <1>5, <1>6

(* resolve and voidMarket move no money: the same balance is counted anew. *)
LEMMA SettleMoney ==
  ASSUME IInv, MoneyInv, status = "Open", Roll,
         \/ status' = "Resolved" /\ winner' \in Outcomes
         \/ status' = "Voided",
         UNCHANGED <<paidOut, residueClaimed, escrow>>
  PROVE  MoneyInv'
<1>1. RefundOK(positions') /\ OpenMoney(books', positions', acceptedPool', escrow')
  <2>1. RollDue \in BOOLEAN
    BY DEF RollDue, IInv, TypeOK
  <2> QED BY <2>1, MoneyAfterRoll DEF Roll
<1>2. /\ books' \in [Outcomes -> Book] /\ positions' \in Seq(Position) /\ acceptedPool' \in Nat
      /\ LedgerOK(books', positions', acceptedPool', pending')
  BY RollInv
<1>3. paidOut' = 0 /\ ~residueClaimed' /\ Count' = Len(positions')
  BY DEF MoneyInv, Count
<1>4. escrow' = Sum(Unpulled(positions'), Count') + acceptedPool'
  BY <1>1, <1>3 DEF OpenMoney
<1>5. \A i \in 1..Len(positions') : ~positions'[i].claimed
  BY <1>1 DEF OpenMoney
<1>6. CASE status' = "Voided"
  <2>1. 1 \in Outcomes
    BY SizeAssumption DEF Outcomes
  <2>2. Sum(Unclaimed(positions'), Count') = acceptedPool'
    BY <1>2, <1>3, <1>5, <2>1, NothingClaimed
  <2>3. escrow' = Sum(Unpulled(positions'), Count') + Sum(Unclaimed(positions'), Count')
    BY <1>4, <2>2
  <2> QED BY <1>1, <1>6, <2>3 DEF MoneyInv
<1>7. CASE status' = "Resolved" /\ winner' \in Outcomes
  <2>1. paidOut' = Sum(PaidOn(books', positions', winner'), Count')
    BY <1>2, <1>3, <1>5, <1>7, NothingClaimed
  <2>2. books'[winner'].live = Sum(StillLive(positions', winner'), Count')
    BY <1>1, <1>2, <1>3, <1>5, <1>7, NothingClaimed DEF OpenMoney
  <2>3. acceptedPool' - paidOut' = acceptedPool'
    <3>1. acceptedPool' \in Nat /\ paidOut' = 0
      BY <1>2, <1>3
    <3>2. \A x \in Nat : x - 0 = x
      OBVIOUS
    <3> QED BY ONLY <3>1, <3>2
  <2>4. escrow' = Sum(Unpulled(positions'), Count')
                    + (IF residueClaimed' THEN 0 ELSE acceptedPool' - paidOut')
    BY <1>3, <1>4, <2>3
  <2> QED BY <1>1, <1>3, <1>7, <2>1, <2>2, <2>4 DEF MoneyInv
<1> QED BY <1>6, <1>7

(* What claim, withdrawRefund and transferPosition leave of a position. *)
SameStake(p, p2) ==
  \A j \in 1..Len(p) : /\ p2[j].outcome = p[j].outcome /\ p2[j].offered = p[j].offered
                       /\ p2[j].accepted = p[j].accepted /\ p2[j].entryAcc = p[j].entryAcc
                       /\ p2[j].finalized = p[j].finalized

(* The lists of claims read nothing but the stakes and the claimed flags. *)
LEMMA ListsFrame ==
  ASSUME NEW p, NEW p2, Len(p2) = Len(p), SameStake(p, p2), NEW b, NEW w,
         \A j \in 1..Len(p) : p2[j].claimed = p[j].claimed
  PROVE  /\ Unclaimed(p2) = Unclaimed(p)
         /\ PaidOn(b, p2, w) = PaidOn(b, p, w)
         /\ Joined(p2, w) = Joined(p, w)
         /\ StillLive(p2, w) = StillLive(p, w)
<1>1. WeightOn(b, p2, w) = WeightOn(b, p, w)
  BY DEF WeightOn, SameStake
<1>2. PaysOn(b, p2, w) = PaysOn(b, p, w)
  BY <1>1 DEF PaysOn
<1>3. PaidOn(b, p2, w) = PaidOn(b, p, w)
  BY <1>2 DEF PaidOn
<1>4. Joined(p2, w) = Joined(p, w)
  BY DEF Joined, SameStake
<1>5. StillLive(p2, w) = StillLive(p, w)
  BY <1>4 DEF StillLive
<1>6. Unclaimed(p2) = Unclaimed(p)
  BY DEF Unclaimed, VoidDue, SameStake
<1> QED BY <1>3, <1>4, <1>5, <1>6

(* A remainder that is pulled leaves the sum of the remainders. *)
LEMMA RemainderPulled ==
  ASSUME NEW p, p \in Seq(Position), RefundOK(p), NEW i \in 1..Len(p), p[i].finalized,
         NEW p2, p2 \in Seq(Position), Len(p2) = Len(p), SameStake(p, p2),
         p2[i].refunded, \A j \in 1..Len(p) : j # i => p2[j].refunded = p[j].refunded
  PROVE  /\ RefundOK(p2)
         /\ Sum(Unpulled(p), Len(p)) = Sum(Unpulled(p2), Len(p)) + Remainder(p[i])
         /\ Remainder(p[i]) \in Nat /\ Sum(Unpulled(p2), Len(p)) \in Nat
<1>1. Len(p) \in Nat
  BY SeqIsFun
<1>2. RefundOK(p2)
  BY DEF RefundOK, SameStake
<1>3. \A j \in 1..Len(p) : Unpulled(p)[j] \in Nat /\ Unpulled(p2)[j] \in Nat
  BY <1>2, RemainderNat
<1>4. \A j \in 1..Len(p) : j # i => Unpulled(p2)[j] = Unpulled(p)[j]
  BY DEF Unpulled, Remainder, SameStake
<1>5. Sum(Unpulled(p2), Len(p)) + Unpulled(p)[i] = Sum(Unpulled(p), Len(p)) + Unpulled(p2)[i]
  <2>1. Len(p) \in Nat /\ i \in 1..Len(p)
    BY <1>1
  <2> QED BY ONLY <1>3, <1>4, <2>1, SumUpdate
<1>6. Unpulled(p2)[i] = 0 /\ Unpulled(p)[i] = Remainder(p[i])
  BY DEF Unpulled, Remainder
<1>7. Sum(Unpulled(p2), Len(p)) \in Nat /\ Sum(Unpulled(p), Len(p)) \in Nat
  BY <1>1, <1>3, SumNat
<1> QED BY <1>2, <1>3, <1>5, <1>6, <1>7

(* A claim leaves the lists of the unclaimed, and enters that of the paid. *)
LEMMA ClaimCounted ==
  ASSUME NEW b, b \in [Outcomes -> Book], NEW p, p \in Seq(Position), NEW pool, NEW pend,
         LedgerOK(b, p, pool, pend), NEW w \in Outcomes,
         NEW i \in 1..Len(p), ~p[i].claimed,
         NEW p2, p2 \in Seq(Position), Len(p2) = Len(p), SameStake(p, p2),
         p2[i].claimed, \A j \in 1..Len(p) : j # i => p2[j].claimed = p[j].claimed
  PROVE  /\ Sum(Unclaimed(p), Len(p)) = Sum(Unclaimed(p2), Len(p)) + p[i].accepted
         /\ Sum(PaidOn(b, p2, w), Len(p)) = Sum(PaidOn(b, p, w), Len(p)) + PaysOn(b, p, w)[i]
         /\ Sum(StillLive(p2, w), Len(p)) = Sum(StillLive(p, w), Len(p)) - Joined(p, w)[i]
         /\ \A j \in 1..Len(p) : StillLive(p2, w)[j] <= StillLive(p, w)[j]
<1>1. Len(p) \in Nat /\ \A j \in 1..Len(p) : p[j] \in Position /\ p2[j] \in Position
  BY SeqIsFun
<1>2. Sum(Unclaimed(p), Len(p)) = Sum(Unclaimed(p2), Len(p)) + p[i].accepted
  <2>1. \A j \in 1..Len(p) : Unclaimed(p)[j] \in Nat /\ Unclaimed(p2)[j] \in Nat
    BY <1>1 DEF Unclaimed, VoidDue, Position
  <2>2. \A j \in 1..Len(p) : j # i => Unclaimed(p2)[j] = Unclaimed(p)[j]
    BY DEF Unclaimed, VoidDue, SameStake
  <2>3. Sum(Unclaimed(p2), Len(p)) + Unclaimed(p)[i] = Sum(Unclaimed(p), Len(p)) + Unclaimed(p2)[i]
    <3>1. Len(p) \in Nat /\ i \in 1..Len(p)
      BY <1>1
    <3> QED BY ONLY <2>1, <2>2, <3>1, SumUpdate
  <2>4. Unclaimed(p2)[i] = 0 /\ Unclaimed(p)[i] = p[i].accepted
    BY DEF Unclaimed, VoidDue
  <2>5. Sum(Unclaimed(p2), Len(p)) \in Nat /\ Sum(Unclaimed(p), Len(p)) \in Nat
    BY <1>1, <2>1, SumNat
  <2> QED BY <2>3, <2>4, <2>5
<1>3. PaysOn(b, p2, w) = PaysOn(b, p, w)
  <2>1. WeightOn(b, p2, w) = WeightOn(b, p, w)
    BY DEF WeightOn, SameStake
  <2> QED BY <2>1 DEF PaysOn
<1>4. Sum(PaidOn(b, p2, w), Len(p)) = Sum(PaidOn(b, p, w), Len(p)) + PaysOn(b, p, w)[i]
  <2>1. \A j \in 1..Len(p) : PaysOn(b, p, w)[j] \in Nat
    BY PaysNat
  <2>2. \A j \in 1..Len(p) : PaidOn(b, p, w)[j] \in Nat /\ PaidOn(b, p2, w)[j] \in Nat
    BY <1>3, <2>1 DEF PaidOn
  <2>3. \A j \in 1..Len(p) : j # i => PaidOn(b, p2, w)[j] = PaidOn(b, p, w)[j]
    BY <1>3 DEF PaidOn
  <2>4. Sum(PaidOn(b, p2, w), Len(p)) + PaidOn(b, p, w)[i]
          = Sum(PaidOn(b, p, w), Len(p)) + PaidOn(b, p2, w)[i]
    <3>1. Len(p) \in Nat /\ i \in 1..Len(p)
      BY <1>1
    <3> QED BY ONLY <2>2, <2>3, <3>1, SumUpdate
  <2>5. PaidOn(b, p, w)[i] = 0 /\ PaidOn(b, p2, w)[i] = PaysOn(b, p, w)[i]
    BY <1>3 DEF PaidOn
  <2>6. Sum(PaidOn(b, p2, w), Len(p)) \in Nat /\ Sum(PaidOn(b, p, w), Len(p)) \in Nat
    BY <1>1, <2>2, SumNat
  <2> QED BY <2>1, <2>4, <2>5, <2>6
<1>5. Joined(p2, w) = Joined(p, w)
  BY DEF Joined, SameStake
<1>6. \A j \in 1..Len(p) : /\ StillLive(p, w)[j] \in Nat /\ StillLive(p2, w)[j] \in Nat
                           /\ Joined(p, w)[j] \in Nat
  BY JoinedNat
<1>7. /\ \A j \in 1..Len(p) : j # i => StillLive(p2, w)[j] = StillLive(p, w)[j]
      /\ StillLive(p2, w)[i] = 0 /\ StillLive(p, w)[i] = Joined(p, w)[i]
  BY <1>5 DEF StillLive
<1>8. Sum(StillLive(p2, w), Len(p)) = Sum(StillLive(p, w), Len(p)) - Joined(p, w)[i]
  <2>1. Sum(StillLive(p2, w), Len(p)) + StillLive(p, w)[i]
          = Sum(StillLive(p, w), Len(p)) + StillLive(p2, w)[i]
    <3>1. /\ Len(p) \in Nat /\ i \in 1..Len(p)
          /\ \A j \in 1..Len(p) : StillLive(p, w)[j] \in Nat /\ StillLive(p2, w)[j] \in Nat
          /\ \A j \in 1..Len(p) : j # i => StillLive(p2, w)[j] = StillLive(p, w)[j]
      BY <1>1, <1>6, <1>7
    <3> QED BY ONLY <3>1, SumUpdate
  <2>2. Sum(StillLive(p2, w), Len(p)) \in Nat /\ Sum(StillLive(p, w), Len(p)) \in Nat
    BY <1>1, <1>6, SumNat
  <2> QED BY <1>6, <1>7, <2>1, <2>2
<1>9. \A j \in 1..Len(p) : StillLive(p2, w)[j] <= StillLive(p, w)[j]
  BY <1>6, <1>7
<1> QED BY <1>2, <1>4, <1>8, <1>9

-----------------------------------------------------------------------------
(* Every function keeps the balance and the lists in step.                 *)

LEMMA MoneyInit == Init => MoneyInv
<1> SUFFICES ASSUME Init PROVE MoneyInv
  OBVIOUS
<1>1. positions = <<>> /\ Len(positions) = 0
  BY DEF Init
<1>2. RefundOK(positions)
  BY <1>1 DEF RefundOK
<1>3. status = "None" /\ paidOut = 0 /\ ~residueClaimed /\ escrow = 0
  BY DEF Init
<1> QED BY <1>2, <1>3 DEF MoneyInv

LEMMA CreateMoney ==
  ASSUME IInv, MoneyInv, NEW seed \in Seeds, NEW k \in Kappas, Create(seed, k)
  PROVE  MoneyInv'
<1> DEFINE leg == SeedClamp(seed, k)
<1>1. seed \in Legs /\ k \in Kappa
  BY InputAssumption DEF Legs, Kappa
<1>2. leg \in Legs
  BY <1>1, SeedClampType
<1>3. /\ status = "None" /\ status' = "Open"
      /\ \A o \in Outcomes : leg[o] # 0
      /\ books' = [w \in Outcomes |-> SeedBook(leg, w, Sum(leg, N), k)]
      /\ positions' = [w \in Outcomes |-> SeedPosition(seed, leg, w)]
      /\ acceptedPool' = Sum(leg, N) /\ escrow' = escrow + Sum(leg, N)
      /\ UNCHANGED <<paidOut, residueClaimed>>
  BY DEF Create
<1> HIDE DEF leg
<1>4. positions' \in Seq(Position) /\ Len(positions') = N /\ Sum(leg, N) \in Nat
  BY <1>1, <1>2, <1>3, LedgerSeed
<1>5. RefundOK(positions') /\ OpenMoney(books', positions', Sum(leg, N), Sum(leg, N))
  BY <1>1, <1>2, <1>3, <1>4, MoneySeed
<1>6. escrow' = Sum(leg, N)
  <2>1. escrow = 0
    BY <1>3 DEF MoneyInv
  <2> QED BY <1>3, <1>4, <2>1
<1>7. paidOut' = 0 /\ ~residueClaimed'
  BY <1>3 DEF MoneyInv
<1> QED BY <1>3, <1>5, <1>6, <1>7 DEF MoneyInv

LEMMA EnterMoney ==
  ASSUME IInv, MoneyInv, NEW u \in Users, NEW o \in Outcomes, NEW amount \in Amounts,
         Enter(u, o, amount)
  PROVE  MoneyInv'
<1> DEFINE b == BooksAfter(RollDue)
           p == PositionsAfter(RollDue)
           e == [owner |-> u, outcome |-> o, finalized |-> FALSE, refunded |-> FALSE,
                 claimed |-> FALSE, vintage |-> blockNo, offered |-> amount,
                 accepted |-> 0, entryAcc |-> 0]
<1>1. RollDue \in BOOLEAN
  BY DEF RollDue, IInv, TypeOK
<1>2. /\ status = "Open" /\ status' = "Open"
      /\ positions' = Append(p, e)
      /\ books' = [w \in Outcomes |->
                     IF w = o THEN b[w] ELSE [b[w] EXCEPT !.demand = @ + amount]]
      /\ acceptedPool' = PoolAfter(RollDue)
      /\ escrow' = escrow + amount
      /\ UNCHANGED <<paidOut, residueClaimed>>
  BY DEF Enter, settleVars
<1>3. /\ b \in [Outcomes -> Book] /\ p \in Seq(Position) /\ PoolAfter(RollDue) \in Nat
      /\ RefundOK(p) /\ OpenMoney(b, p, PoolAfter(RollDue), escrow)
  BY <1>1, <1>2, AfterRoll, MoneyAfterRoll
<1>4. /\ e \in Position /\ ~e.finalized /\ ~e.refunded /\ ~e.claimed
      /\ e.accepted = 0 /\ e.offered = amount
  <2>1. blockNo \in Nat /\ amount \in Nat
    BY InputAssumption DEF IInv, TypeOK
  <2> QED BY <2>1 DEF Position
<1> HIDE DEF b, p, e
<1>5. ASSUME NEW w \in Outcomes PROVE books'[w].live = b[w].live
  <2>1. b[w] \in Book
    BY <1>3
  <2>2. books'[w] = b[w] \/ books'[w] = [b[w] EXCEPT !.demand = @ + amount]
    BY <1>2
  <2> QED BY <2>1, <2>2 DEF Book
<1>6. RefundOK(positions') /\ OpenMoney(books', positions', acceptedPool', escrow')
  <2>1. /\ RefundOK(Append(p, e))
        /\ OpenMoney(books', Append(p, e), PoolAfter(RollDue), escrow + e.offered)
    BY <1>3, <1>4, <1>5, MoneyAppend
  <2> QED BY <1>2, <1>4, <2>1
<1>7. paidOut' = 0 /\ ~residueClaimed'
  BY <1>2 DEF MoneyInv
<1> QED BY <1>2, <1>6, <1>7 DEF MoneyInv

(* A settled market has no vintage to roll. *)
LEMMA FinalizeVintageMoney ==
  ASSUME IInv, MoneyInv, FinalizeVintage
  PROVE  MoneyInv'
<1>1. /\ status # "None" /\ Roll
      /\ UNCHANGED <<settleVars, paidOut, residueClaimed, escrow>>
  BY DEF FinalizeVintage
<1>2. status' = status /\ winner' = winner /\ RollDue \in BOOLEAN
  BY <1>1 DEF settleVars, RollDue, IInv, TypeOK
<1>3. CASE status = "Open"
  <2>1. RefundOK(positions') /\ OpenMoney(books', positions', acceptedPool', escrow')
    BY <1>1, <1>2, <1>3, MoneyAfterRoll DEF Roll
  <2> QED BY <1>1, <1>2, <1>3, <2>1 DEF MoneyInv
<1>4. CASE status # "Open"
  <2>1. ~RollDue
    BY <1>4 DEF RollDue, IInv, VintageInv
  <2>2. books' = books /\ positions' = positions /\ acceptedPool' = acceptedPool
    BY <1>1, <2>1 DEF Roll, BooksAfter, PositionsAfter, PoolAfter
  <2> QED BY <1>1, <1>2, <2>2 DEF MoneyInv, Count
<1> QED BY <1>3, <1>4

LEMMA ResolveMoney ==
  ASSUME IInv, MoneyInv, NEW u, NEW w \in Outcomes, Resolve(u, w)
  PROVE  MoneyInv'
BY SettleMoney DEF Resolve

LEMMA VoidMarketMoney ==
  ASSUME IInv, MoneyInv, NEW u, VoidMarket(u)
  PROVE  MoneyInv'
BY SettleMoney DEF VoidMarket

LEMMA WithdrawRefundMoney ==
  ASSUME IInv, MoneyInv, NEW u \in Users, NEW i \in 1..Count, WithdrawRefund(u, i)
  PROVE  MoneyInv'
<1> DEFINE due == status = "Open" /\ RollDue
           b == BooksAfter(due)
           p == PositionsAfter(due)
<1>1. /\ books' = b
      /\ positions' = [p EXCEPT ![i].refunded = TRUE]
      /\ acceptedPool' = PoolAfter(due)
      /\ p[i].finalized /\ ~p[i].refunded
      /\ escrow' = escrow - (p[i].offered - p[i].accepted)
      /\ UNCHANGED <<settleVars, paidOut, residueClaimed>>
  BY DEF WithdrawRefund
<1>2. due \in BOOLEAN /\ (due => status = "Open")
  BY DEF RollDue, IInv, TypeOK
<1>3. status # "None"
  BY DEF IInv, LedgerInv, Blank, Count
<1> HIDE DEF due
<1>4. b \in [Outcomes -> Book] /\ p \in Seq(Position) /\ Len(p) = Count
  BY <1>2, <1>3, AfterRoll
<1>5. RefundOK(p)
  <2>1. CASE status = "Open"
    BY <1>2, <2>1, MoneyAfterRoll
  <2>2. CASE status # "Open"
    BY <1>2, <2>2 DEF PositionsAfter, MoneyInv
  <2> QED BY <2>1, <2>2
<1>6. status' = status /\ winner' = winner /\ paidOut' = paidOut /\ residueClaimed' = residueClaimed
  BY <1>1 DEF settleVars
<1>7. /\ positions' \in Seq(Position) /\ Len(positions') = Len(p) /\ SameStake(p, positions')
      /\ positions'[i].refunded
      /\ \A j \in 1..Len(p) : j # i => positions'[j].refunded = p[j].refunded
      /\ \A j \in 1..Len(p) : positions'[j].claimed = p[j].claimed
  <2>1. p \in [1..Len(p) -> Position] /\ Len(p) \in Nat /\ i \in 1..Len(p)
    BY <1>4, SeqIsFun
  <2> HIDE DEF p
  <2>2. [p[i] EXCEPT !.refunded = TRUE] \in Position
    BY <2>1 DEF Position
  <2>3. positions' \in [1..Len(p) -> Position]
    BY <1>1, <2>1, <2>2
  <2>4. positions' \in Seq(Position) /\ Len(positions') = Len(p)
    BY <2>1, <2>3, FunIsSeq
  <2>5. \A j \in 1..Len(p) : j # i => positions'[j] = p[j]
    BY <1>1, <2>1
  <2>6. positions'[i] = [p[i] EXCEPT !.refunded = TRUE]
    BY <1>1, <2>1
  <2>7. /\ positions'[i].refunded /\ positions'[i].outcome = p[i].outcome
        /\ positions'[i].offered = p[i].offered /\ positions'[i].accepted = p[i].accepted
        /\ positions'[i].entryAcc = p[i].entryAcc /\ positions'[i].finalized = p[i].finalized
        /\ positions'[i].claimed = p[i].claimed
    BY <2>1, <2>6 DEF Position
  <2>8. SameStake(p, positions')
    BY <2>5, <2>7 DEF SameStake
  <2>9. \A j \in 1..Len(p) : positions'[j].claimed = p[j].claimed
    BY <2>5, <2>7
  <2> QED BY <2>4, <2>5, <2>7, <2>8, <2>9
<1> HIDE DEF b, p
<1>8. /\ RefundOK(positions')
      /\ Sum(Unpulled(p), Count) = Sum(Unpulled(positions'), Count) + (p[i].offered - p[i].accepted)
      /\ p[i].offered - p[i].accepted \in Nat /\ Sum(Unpulled(positions'), Count) \in Nat
  <2>1. Remainder(p[i]) = p[i].offered - p[i].accepted
    BY <1>1 DEF Remainder
  <2>2. i \in 1..Len(p)
    BY <1>4
  <2> QED BY <1>1, <1>4, <1>5, <1>7, <2>1, <2>2, RemainderPulled
<1>9. ASSUME NEW w
      PROVE  /\ Unclaimed(positions') = Unclaimed(p)
             /\ PaidOn(b, positions', w) = PaidOn(b, p, w)
             /\ Joined(positions', w) = Joined(p, w)
             /\ StillLive(positions', w) = StillLive(p, w)
  BY <1>7, ListsFrame
<1>10. escrow \in Int /\ Count' = Count /\ Count = Len(positions)
  BY <1>4, <1>7 DEF IInv, TypeOK, Count
<1>11. CASE status = "Open"
  <2>1. OpenMoney(b, p, acceptedPool', escrow)
    BY <1>1, <1>2, <1>11, MoneyAfterRoll DEF b, p
  <2>2. escrow' = Sum(Unpulled(positions'), Len(positions')) + acceptedPool'
    <3>1. escrow = Sum(Unpulled(p), Count) + acceptedPool'
      BY <1>4, <2>1 DEF OpenMoney
    <3>2. acceptedPool' \in Nat
      BY <1>1, <1>2, <1>3, AfterRoll
    <3>3. escrow' = Sum(Unpulled(positions'), Count) + acceptedPool'
      BY <1>1, <1>8, <3>1, <3>2
    <3> QED BY <1>4, <1>7, <3>3
  <2>3. \A j \in 1..Len(positions') : ~positions'[j].claimed
    BY <1>7, <2>1 DEF OpenMoney
  <2>4. \A w \in Outcomes : books'[w].live = Sum(Joined(positions', w), Len(positions'))
    BY <1>1, <1>7, <1>9, <2>1 DEF OpenMoney
  <2>5. OpenMoney(books', positions', acceptedPool', escrow')
    BY <2>2, <2>3, <2>4 DEF OpenMoney
  <2> QED BY <1>6, <1>8, <1>11, <2>5 DEF MoneyInv
<1>12. CASE status # "Open"
  <2>1. b = books /\ p = positions /\ acceptedPool' = acceptedPool /\ books' = books
    BY <1>1, <1>2, <1>12 DEF b, p, BooksAfter, PositionsAfter, PoolAfter
  <2>2. ASSUME NEW x \in Int, escrow = Sum(Unpulled(positions), Count) + x
        PROVE  escrow' = Sum(Unpulled(positions'), Count) + x
    BY <1>1, <1>8, <1>10, <2>1, <2>2
  <2>3. CASE status = "Voided"
    <3>1. Sum(Unclaimed(positions), Count) \in Int
      <4>1. \A j \in 1..Count : Unclaimed(positions)[j] \in Nat
        <5>1. \A j \in 1..Count : positions[j].accepted \in Nat
          BY <1>3, LedgerTyped, PositionAt
        <5> QED BY <5>1 DEF Unclaimed, VoidDue, Count
      <4>2. Count \in Nat
        BY <1>4, SeqIsFun
      <4> QED BY <4>1, <4>2, SumNat
    <3>2. escrow = Sum(Unpulled(positions), Count) + Sum(Unclaimed(positions), Count)
      BY <2>3 DEF MoneyInv
    <3>3. escrow' = Sum(Unpulled(positions'), Count) + Sum(Unclaimed(positions), Count)
      BY <2>2, <3>1, <3>2
    <3>4. escrow' = Sum(Unpulled(positions'), Count') + Sum(Unclaimed(positions'), Count')
      BY <1>9, <1>10, <2>1, <3>3
    <3> QED BY <1>6, <1>8, <2>3, <3>4 DEF MoneyInv
  <2>4. CASE status = "Resolved"
    <3> DEFINE rest == IF residueClaimed THEN 0 ELSE acceptedPool - paidOut
    <3>1. rest \in Int
      BY DEF IInv, TypeOK
    <3>2. escrow = Sum(Unpulled(positions), Count) + rest
      BY <2>4 DEF MoneyInv
    <3>3. escrow' = Sum(Unpulled(positions'), Count) + rest
      <4> HIDE DEF rest
      <4> QED BY <2>2, <3>1, <3>2
    <3>4. escrow' = Sum(Unpulled(positions'), Count')
                      + (IF residueClaimed' THEN 0 ELSE acceptedPool' - paidOut')
      BY <1>6, <1>10, <2>1, <3>3
    <3>5. /\ paidOut' = Sum(PaidOn(books', positions', winner'), Count')
          /\ books'[winner'].live = Sum(StillLive(positions', winner'), Count')
          /\ residueClaimed' => \A j \in 1..Count' : StillLive(positions', winner')[j] = 0
      BY <1>6, <1>9, <1>10, <2>1, <2>4 DEF MoneyInv
    <3> QED BY <1>6, <1>8, <2>4, <3>4, <3>5 DEF MoneyInv
  <2>5. status \in {"Voided", "Resolved"}
    BY <1>3, <1>12 DEF IInv, TypeOK
  <2> QED BY <2>3, <2>4, <2>5
<1> QED BY <1>11, <1>12

LEMMA ClaimMoney ==
  ASSUME IInv, MoneyInv, NEW u \in Users, NEW i \in 1..Count, Claim(u, i)
  PROVE  MoneyInv'
<1> DEFINE p == positions
           pay == Settlement(p[i])
<1>1. /\ ~p[i].claimed /\ status \in {"Resolved", "Voided"}
      /\ paidOut' = IF Wins(p[i]) THEN paidOut + pay ELSE paidOut
      /\ books' = IF Wins(p[i]) THEN [books EXCEPT ![winner].live = @ - 1] ELSE books
      /\ positions' = [p EXCEPT ![i].refunded = TRUE, ![i].claimed = TRUE]
      /\ escrow' = escrow - (pay + Remainder(p[i]))
      /\ UNCHANGED <<settleVars, acceptedPool, residueClaimed>>
  BY DEF Claim
<1>2. /\ status' = status /\ winner' = winner /\ acceptedPool' = acceptedPool
      /\ residueClaimed' = residueClaimed
  BY <1>1 DEF settleVars
<1>3. /\ LedgerOK(books, p, acceptedPool, pending) /\ books \in [Outcomes -> Book]
      /\ p \in Seq(Position) /\ acceptedPool \in Nat /\ paidOut \in Nat /\ escrow \in Int
      /\ Count = Len(p) /\ Count \in Nat /\ p \in [1..Count -> Position]
  <2>1. LedgerType /\ LedgerOK(books, positions, acceptedPool, pending)
    BY <1>1, LedgerTyped
  <2> QED BY <2>1, SeqIsFun DEF LedgerType, Count, IInv, TypeOK
<1>4. RefundOK(p) /\ p[i].finalized
  <2>1. pending = {}
    BY <1>1 DEF IInv, VintageInv
  <2> QED BY <1>3, <2>1 DEF MoneyInv, LedgerOK, PendingOK
<1>5. /\ p[i] \in Position /\ p[i].accepted \in Nat /\ p[i].outcome \in Outcomes
      /\ p[i].entryAcc \in Nat
  BY <1>3 DEF Position
<1> HIDE DEF p, pay
<1>6. /\ positions' \in Seq(Position) /\ Len(positions') = Count /\ Count' = Count
      /\ SameStake(p, positions') /\ positions'[i].refunded /\ positions'[i].claimed
      /\ \A j \in 1..Count : j # i => positions'[j] = p[j]
  <2>1. [p[i] EXCEPT !.refunded = TRUE, !.claimed = TRUE] \in Position
    BY <1>5 DEF Position
  <2>2. positions' \in [1..Count -> Position]
    BY <1>1, <1>3, <2>1
  <2>3. positions' \in Seq(Position) /\ Len(positions') = Count
    BY <1>3, <2>2, FunIsSeq
  <2>4. \A j \in 1..Count : j # i => positions'[j] = p[j]
    BY <1>1, <1>3
  <2>5. positions'[i] = [p[i] EXCEPT !.refunded = TRUE, !.claimed = TRUE]
    BY <1>1, <1>3
  <2>6. /\ positions'[i].refunded /\ positions'[i].claimed
        /\ positions'[i].outcome = p[i].outcome /\ positions'[i].offered = p[i].offered
        /\ positions'[i].accepted = p[i].accepted /\ positions'[i].entryAcc = p[i].entryAcc
        /\ positions'[i].finalized = p[i].finalized
    BY <1>5, <2>5 DEF Position
  <2>7. SameStake(p, positions')
    BY <1>3, <2>4, <2>6 DEF SameStake
  <2>8. Count' = Count
    BY <2>3 DEF Count
  <2> QED BY <2>3, <2>4, <2>6, <2>7, <2>8
<1>7. /\ RefundOK(positions') /\ Remainder(p[i]) \in Nat
      /\ Sum(Unpulled(p), Count) = Sum(Unpulled(positions'), Count) + Remainder(p[i])
      /\ Sum(Unpulled(positions'), Count) \in Nat
  <2>1. \A j \in 1..Len(p) : j # i => positions'[j].refunded = p[j].refunded
    BY <1>3, <1>6
  <2> QED BY <1>3, <1>4, <1>6, <2>1, RemainderPulled
<1>8. ASSUME NEW w \in Outcomes
      PROVE  /\ Sum(Unclaimed(p), Count) = Sum(Unclaimed(positions'), Count) + p[i].accepted
             /\ Sum(PaidOn(books, positions', w), Count)
                  = Sum(PaidOn(books, p, w), Count) + PaysOn(books, p, w)[i]
             /\ Sum(StillLive(positions', w), Count)
                  = Sum(StillLive(p, w), Count) - Joined(p, w)[i]
             /\ \A j \in 1..Count : StillLive(positions', w)[j] <= StillLive(p, w)[j]
  <2>1. \A j \in 1..Len(p) : j # i => positions'[j].claimed = p[j].claimed
    BY <1>3, <1>6
  <2>2. /\ i \in 1..Len(p) /\ Len(positions') = Len(p) /\ ~p[i].claimed
        /\ positions'[i].claimed /\ positions' \in Seq(Position)
    BY <1>1, <1>3, <1>6
  <2>3. /\ Sum(Unclaimed(p), Len(p)) = Sum(Unclaimed(positions'), Len(p)) + p[i].accepted
        /\ Sum(PaidOn(books, positions', w), Len(p))
             = Sum(PaidOn(books, p, w), Len(p)) + PaysOn(books, p, w)[i]
        /\ Sum(StillLive(positions', w), Len(p))
             = Sum(StillLive(p, w), Len(p)) - Joined(p, w)[i]
        /\ \A j \in 1..Len(p) : StillLive(positions', w)[j] <= StillLive(p, w)[j]
    BY <1>3, <1>6, <2>1, <2>2, ClaimCounted
  <2> QED BY <1>3, <2>3
<1>9. CASE status = "Voided"
  <2>1. pay = p[i].accepted /\ paidOut' = paidOut
    BY <1>1, <1>9 DEF pay, Settlement, Wins
  <2>2. 1 \in Outcomes
    BY SizeAssumption DEF Outcomes
  <2>3. Sum(Unclaimed(p), Count) = Sum(Unclaimed(positions'), Count) + p[i].accepted
    BY <1>8, <2>2
  <2>4. Sum(Unclaimed(positions'), Count) \in Nat
    <3>1. ASSUME NEW j \in 1..Count PROVE Unclaimed(positions')[j] \in Nat
      <4>1. positions'[j] \in Position
        BY <1>6, SeqIsFun
      <4> QED BY <1>6, <4>1 DEF Unclaimed, VoidDue, Position
    <3> QED BY <1>3, <3>1, SumNat
  <2>5. escrow = Sum(Unpulled(p), Count) + Sum(Unclaimed(p), Count)
    BY <1>9 DEF MoneyInv, p
  <2>6. escrow' = Sum(Unpulled(positions'), Count) + Sum(Unclaimed(positions'), Count)
    BY <1>1, <1>5, <1>7, <2>1, <2>3, <2>4, <2>5
  <2> QED BY <1>2, <1>6, <1>7, <1>9, <2>6 DEF MoneyInv
<1>10. CASE status = "Resolved"
  <2> DEFINE owed == PaysOn(books, p, winner)[i]
             one == Joined(p, winner)[i]
             b2 == books'
  <2>1. winner \in Outcomes
    BY <1>10 DEF IInv, TypeOK
  <2>2. owed \in Nat /\ one \in {0, 1} /\ (Wins(p[i]) <=> one = 1)
    BY <1>3, <1>5, <1>10, <2>1, PaysNat, JoinedNat DEF Joined, Wins
  <2>3. pay = owed /\ (~Wins(p[i]) => owed = 0)
    <3>1. owed = (IF p[i].outcome = winner THEN Weight(p[i]) ELSE 0) \div SCALE
      BY <1>3, <1>5 DEF PaysOn, WeightOn, Weight
    <3>2. 0 \div SCALE = 0
      BY ScaleAssumption
    <3>3. CASE Wins(p[i])
      BY <1>10, <3>1, <3>3 DEF pay, Settlement, Payout, Wins
    <3>4. CASE ~Wins(p[i])
      <4>1. p[i].outcome = winner => p[i].accepted = 0
        BY <1>5, <1>10, <3>4 DEF Wins
      <4>2. p[i].outcome = winner => Weight(p[i]) = 0
        <5>1. books[p[i].outcome].acc \in Nat
          BY <1>3, <1>5 DEF Book
        <5>2. SCALE + books[p[i].outcome].acc - p[i].entryAcc \in Int
          BY <1>5, <5>1, ScaleAssumption
        <5> QED BY <4>1, <5>2 DEF Weight
      <4>3. owed = 0
        BY <3>1, <3>2, <4>2
      <4>4. pay = 0
        BY <1>10, <3>4 DEF pay, Settlement
      <4> QED BY <4>3, <4>4
    <3> QED BY <3>3, <3>4
  <2> HIDE DEF owed, one
  <2>4. paidOut' = paidOut + owed
    BY <1>1, <1>3, <2>2, <2>3
  <2>5. /\ books'[winner].live = books[winner].live - one
        /\ \A v \in Outcomes : books'[v].acc = books[v].acc
    <3>1. ASSUME NEW v \in Outcomes PROVE books[v] \in Book /\ books[v].live \in Int
      BY <1>3 DEF Book
    <3>2. CASE Wins(p[i])
      <4>1. books' = [books EXCEPT ![winner].live = @ - 1] /\ one = 1
        BY <1>1, <2>2, <3>2
      <4>2. books'[winner] = [books[winner] EXCEPT !.live = @ - 1]
        BY <1>3, <2>1, <4>1
      <4>3. books'[winner].live = books[winner].live - 1 /\ books'[winner].acc = books[winner].acc
        BY <2>1, <3>1, <4>2 DEF Book
      <4>4. \A v \in Outcomes : v # winner => books'[v] = books[v]
        BY <1>3, <2>1, <4>1
      <4> QED BY <4>1, <4>3, <4>4
    <3>3. CASE ~Wins(p[i])
      <4>1. books' = books /\ one = 0
        BY <1>1, <2>2, <3>3
      <4> QED BY <2>1, <3>1, <4>1
    <3> QED BY <3>2, <3>3
  <2>6. PaidOn(books', positions', winner) = PaidOn(books, positions', winner)
    <3>1. \A j \in 1..Count : positions'[j].outcome \in Outcomes
      <4>1. positions' \in [1..Count -> Position]
        BY <1>6, SeqIsFun
      <4> QED BY <4>1 DEF Position
    <3>2. WeightOn(books', positions', winner) = WeightOn(books, positions', winner)
      BY <1>6, <2>5, <3>1 DEF WeightOn
    <3>3. PaysOn(books', positions', winner) = PaysOn(books, positions', winner)
      BY <3>2 DEF PaysOn
    <3> QED BY <3>3 DEF PaidOn
  <2>7. paidOut' = Sum(PaidOn(books', positions', winner), Count)
    <3>1. paidOut = Sum(PaidOn(books, p, winner), Count)
      BY <1>10 DEF MoneyInv, p
    <3> QED BY <1>8, <2>1, <2>4, <2>6, <3>1 DEF owed
  <2>8. books'[winner].live = Sum(StillLive(positions', winner), Count)
    <3>1. books[winner].live = Sum(StillLive(p, winner), Count)
      BY <1>10 DEF MoneyInv, p
    <3> QED BY <1>8, <2>1, <2>5, <3>1 DEF one
  <2>9. residueClaimed => /\ owed = 0
                          /\ \A j \in 1..Count : StillLive(positions', winner)[j] = 0
    <3> SUFFICES ASSUME residueClaimed
                 PROVE  owed = 0 /\ \A j \in 1..Count : StillLive(positions', winner)[j] = 0
      OBVIOUS
    <3>1. \A j \in 1..Count : StillLive(p, winner)[j] = 0
      BY <1>10 DEF MoneyInv, p
    <3>2. one = 0
      BY <1>1, <1>3, <3>1 DEF StillLive, one
    <3>3. \A j \in 1..Count : StillLive(positions', winner)[j] <= 0
      BY <1>8, <2>1, <3>1
    <3>4. \A j \in 1..Count : StillLive(positions', winner)[j] \in {0, 1}
      BY <1>6, JoinedNat
    <3>5. \A x \in {0, 1} : x <= 0 => x = 0
      OBVIOUS
    <3> QED BY <2>2, <2>3, <3>2, <3>3, <3>4, <3>5
  <2>10. escrow' = Sum(Unpulled(positions'), Count)
                     + (IF residueClaimed THEN 0 ELSE acceptedPool - paidOut')
    <3>1. escrow = Sum(Unpulled(p), Count)
                     + (IF residueClaimed THEN 0 ELSE acceptedPool - paidOut)
      BY <1>10 DEF MoneyInv, p
    <3>2. escrow' = escrow - (owed + Remainder(p[i]))
      BY <1>1, <2>3
    <3> QED BY <1>3, <1>7, <2>2, <2>4, <2>9, <3>1, <3>2
  <2> QED BY <1>2, <1>6, <1>7, <1>10, <2>7, <2>8, <2>9, <2>10 DEF MoneyInv
<1> QED BY <1>1, <1>9, <1>10

(* The residue goes once no winner is left to be paid. *)
LEMMA ClaimResidueMoney ==
  ASSUME IInv, MoneyInv, NEW u, ClaimResidue(u)
  PROVE  MoneyInv'
<1>1. /\ status = "Resolved" /\ books[winner].live = 0 /\ ~residueClaimed /\ residueClaimed'
      /\ escrow' = escrow - (acceptedPool - paidOut)
      /\ UNCHANGED <<settleVars, ledgerVars, paidOut>>
  BY DEF ClaimResidue
<1>2. /\ status' = status /\ winner' = winner /\ books' = books /\ positions' = positions
      /\ acceptedPool' = acceptedPool /\ Count' = Count
  BY <1>1 DEF settleVars, ledgerVars, Count
<1>3. /\ positions \in Seq(Position) /\ Count \in Nat /\ Count = Len(positions)
      /\ acceptedPool \in Nat /\ paidOut \in Nat /\ escrow \in Int
  BY SeqIsFun DEF IInv, TypeOK, Count
<1>4. /\ RefundOK(positions)
      /\ escrow = Sum(Unpulled(positions), Count) + (acceptedPool - paidOut)
      /\ paidOut = Sum(PaidOn(books, positions, winner), Count)
      /\ Sum(StillLive(positions, winner), Count) = 0
      /\ books[winner].live = Sum(StillLive(positions, winner), Count)
  BY <1>1 DEF MoneyInv
<1>5. ASSUME NEW j \in 1..Count PROVE StillLive(positions, winner)[j] = 0
  <2>1. \A h \in 1..Count : StillLive(positions, winner)[h] \in Nat
    BY <1>3, JoinedNat
  <2>2. StillLive(positions, winner)[j] <= Sum(StillLive(positions, winner), Count)
    BY <1>3, <2>1, SumMember
  <2> QED BY <1>4, <2>1, <2>2
<1>6. Sum(Unpulled(positions), Count) \in Nat
  <2>1. \A j \in 1..Count : Unpulled(positions)[j] \in Nat
    BY <1>3, <1>4, RemainderNat
  <2> QED BY <1>3, <2>1, SumNat
<1>7. escrow' = Sum(Unpulled(positions), Count) + 0
  BY <1>1, <1>3, <1>4, <1>6
<1> QED BY <1>1, <1>2, <1>4, <1>5, <1>7 DEF MoneyInv

LEMMA TransferPositionMoney ==
  ASSUME IInv, MoneyInv, NEW u \in Users, NEW to \in Users, NEW i \in 1..Count,
         TransferPosition(u, i, to)
  PROVE  MoneyInv'
<1> DEFINE p == positions
<1>1. /\ positions' = [p EXCEPT ![i].owner = to]
      /\ UNCHANGED <<settleVars, books, acceptedPool, paidOut, residueClaimed, escrow>>
  BY DEF TransferPosition
<1>2. /\ status' = status /\ winner' = winner
      /\ p \in Seq(Position) /\ Len(p) = Count /\ p \in [1..Count -> Position]
  BY <1>1, SeqIsFun DEF settleVars, IInv, TypeOK, Count
<1> HIDE DEF p
<1>3. /\ Len(positions') = Len(p) /\ Count' = Count
      /\ \A j \in 1..Count : /\ positions'[j].outcome = p[j].outcome
                             /\ positions'[j].offered = p[j].offered
                             /\ positions'[j].accepted = p[j].accepted
                             /\ positions'[j].entryAcc = p[j].entryAcc
                             /\ positions'[j].finalized = p[j].finalized
                             /\ positions'[j].refunded = p[j].refunded
                             /\ positions'[j].claimed = p[j].claimed
  <2>1. \A j \in 1..Count : positions'[j] = IF j = i THEN [p[i] EXCEPT !.owner = to] ELSE p[j]
    BY <1>1, <1>2
  <2>2. Len(positions') = Len(p) /\ Count' = Count
    BY <1>1, <1>2 DEF Count
  <2>3. ASSUME NEW j \in 1..Count
        PROVE  /\ positions'[j].outcome = p[j].outcome /\ positions'[j].offered = p[j].offered
               /\ positions'[j].accepted = p[j].accepted
               /\ positions'[j].entryAcc = p[j].entryAcc
               /\ positions'[j].finalized = p[j].finalized
               /\ positions'[j].refunded = p[j].refunded
               /\ positions'[j].claimed = p[j].claimed
    <3>1. p[j] \in Position
      BY <1>2
    <3>2. positions'[j] = p[j] \/ positions'[j] = [p[j] EXCEPT !.owner = to]
      BY <2>1
    <3> QED BY <3>1, <3>2 DEF Position
  <2> QED BY <2>2, <2>3
<1>4. SameStake(p, positions') /\ \A j \in 1..Len(p) : positions'[j].claimed = p[j].claimed
  BY <1>2, <1>3 DEF SameStake
<1>5. ASSUME NEW w
      PROVE  /\ Unclaimed(positions') = Unclaimed(p)
             /\ PaidOn(books, positions', w) = PaidOn(books, p, w)
             /\ Joined(positions', w) = Joined(p, w)
             /\ StillLive(positions', w) = StillLive(p, w)
  BY <1>3, <1>4, ListsFrame
<1>6. Unpulled(positions') = Unpulled(p)
  BY <1>2, <1>3 DEF Unpulled, Remainder
<1>7. RefundOK(p) => RefundOK(positions')
  BY <1>2, <1>3 DEF RefundOK
<1>8. OpenMoney(books, p, acceptedPool, escrow) => OpenMoney(books, positions', acceptedPool, escrow)
  BY <1>2, <1>3, <1>5, <1>6 DEF OpenMoney
<1>9. /\ RefundOK(p)
      /\ status \in {"None", "Open"} => paidOut = 0 /\ ~residueClaimed
      /\ status = "None" => escrow = 0
      /\ status = "Open" => OpenMoney(books, p, acceptedPool, escrow)
      /\ status = "Voided" => escrow = Sum(Unpulled(p), Count) + Sum(Unclaimed(p), Count)
      /\ status = "Resolved" =>
           /\ escrow = Sum(Unpulled(p), Count)
                         + (IF residueClaimed THEN 0 ELSE acceptedPool - paidOut)
           /\ paidOut = Sum(PaidOn(books, p, winner), Count)
           /\ books[winner].live = Sum(StillLive(p, winner), Count)
           /\ residueClaimed => \A j \in 1..Count : StillLive(p, winner)[j] = 0
  BY Zenon DEF MoneyInv, p
<1>10. /\ books' = books /\ acceptedPool' = acceptedPool /\ paidOut' = paidOut
       /\ residueClaimed' = residueClaimed /\ escrow' = escrow
  BY <1>1
<1> QED BY <1>2, <1>3, <1>5, <1>6, <1>7, <1>8, <1>9, <1>10 DEF MoneyInv

LEMMA MoneyStep == IInv /\ MoneyInv /\ [Next]_vars => MoneyInv'
<1> SUFFICES ASSUME IInv, MoneyInv, [Next]_vars PROVE MoneyInv'
  OBVIOUS
<1>1. ASSUME NEW seed \in Seeds, NEW k \in Kappas, Create(seed, k) PROVE MoneyInv'
  BY <1>1, CreateMoney
<1>2. ASSUME NEW u \in Users, NEW o \in Outcomes, NEW amount \in Amounts, Enter(u, o, amount)
      PROVE MoneyInv'
  BY <1>2, EnterMoney
<1>3. CASE FinalizeVintage
  BY <1>3, FinalizeVintageMoney
<1>4. ASSUME NEW u \in Users \cup {Resolver}, NEW w \in Outcomes, Resolve(u, w) PROVE MoneyInv'
  BY <1>4, ResolveMoney
<1>5. ASSUME NEW u \in Users \cup {Resolver}, VoidMarket(u) PROVE MoneyInv'
  BY <1>5, VoidMarketMoney
<1>6. ASSUME NEW u \in Users, NEW i \in 1..Count, WithdrawRefund(u, i) PROVE MoneyInv'
  BY <1>6, WithdrawRefundMoney
<1>7. ASSUME NEW u \in Users, NEW i \in 1..Count, Claim(u, i) PROVE MoneyInv'
  BY <1>7, ClaimMoney
<1>8. ASSUME NEW u \in Users, ClaimResidue(u) PROVE MoneyInv'
  BY <1>8, ClaimResidueMoney
<1>9. ASSUME NEW u \in Users, NEW to \in Users, NEW i \in 1..Count, TransferPosition(u, i, to)
      PROVE MoneyInv'
  BY <1>9, TransferPositionMoney
<1>10. CASE NextBlock
  BY <1>10 DEF NextBlock, MoneyInv, settleVars, ledgerVars, Count
<1>11. CASE UNCHANGED vars
  BY <1>11 DEF vars, MoneyInv, settleVars, ledgerVars, Count
<1> QED BY <1>1, <1>2, <1>3, <1>4, <1>5, <1>6, <1>7, <1>8, <1>9, <1>10, <1>11 DEF Next

-----------------------------------------------------------------------------
(* From the lists to what the contract promises.                           *)

(* What a branch pays, floor by floor, is at most the pool. *)
LEMMA PaysWithinPool ==
  ASSUME NEW b, b \in [Outcomes -> Book], NEW p, p \in Seq(Position), NEW pool, pool \in Nat,
         NEW pend, LedgerOK(b, p, pool, pend), NEW w \in Outcomes
  PROVE  Sum(PaysOn(b, p, w), Len(p)) \in Nat /\ Sum(PaysOn(b, p, w), Len(p)) <= pool
<1> DEFINE pays == PaysOn(b, p, w)
           weight == WeightOn(b, p, w)
           scaled == [i \in 1..Len(p) |-> SCALE * pays[i]]
<1>1. Len(p) \in Nat /\ SCALE \in Nat /\ SCALE > 0
  BY SeqIsFun, ScaleAssumption
<1>2. \A i \in 1..Len(p) : pays[i] \in Nat /\ weight[i] \in Nat /\ SCALE * pays[i] <= weight[i]
  BY PaysNat
<1>3. Sum(weight, Len(p)) <= SCALE * pool
  BY DEF LedgerOK, CoveredOK
<1> HIDE DEF pays, weight
<1>4. \A i \in 1..Len(p) : /\ scaled[i] \in Nat /\ scaled[i] = SCALE * pays[i]
                           /\ weight[i] \in Nat /\ scaled[i] <= weight[i] /\ pays[i] \in Nat
  <2>1. \A x \in Nat : SCALE * x \in Nat
    BY <1>1
  <2> QED BY <1>2, <2>1
<1> HIDE DEF scaled
<1>5. Sum(scaled, Len(p)) = SCALE * Sum(pays, Len(p))
  BY ONLY <1>1, <1>4, SumScale
<1>6. Sum(scaled, Len(p)) <= Sum(weight, Len(p))
  BY ONLY <1>1, <1>4, SumLe
<1>7. Sum(pays, Len(p)) \in Nat /\ Sum(weight, Len(p)) \in Nat
  BY ONLY <1>1, <1>4, SumNat
<1>8. SCALE * Sum(pays, Len(p)) <= SCALE * pool
  BY ONLY <1>1, <1>3, <1>5, <1>6, <1>7, pool \in Nat
<1>9. ASSUME NEW x \in Nat, NEW y \in Nat, SCALE * x <= SCALE * y PROVE x <= y
  BY <1>1, <1>9
<1>10. Sum(pays, Len(p)) <= pool
  BY <1>7, <1>8, <1>9
<1> QED BY <1>7, <1>10 DEF pays

(* The balance is the sum of what the ledger says it holds. *)
LEMMA BalanceCounted ==
  ASSUME IInv, MoneyInv
  PROVE  escrow = Over(Remainder) +
                    (IF status = "Voided" THEN Over(VoidDue)
                     ELSE IF residueClaimed THEN 0 ELSE acceptedPool - paidOut)
<1>1. Over(Remainder) = Sum(Unpulled(positions), Count)
  BY DEF Over, Unpulled, Count
<1>2. Over(VoidDue) = Sum(Unclaimed(positions), Count)
  BY DEF Over, Unclaimed, Count
<1>3. status \in {"None", "Open", "Resolved", "Voided"} /\ acceptedPool \in Nat
  BY DEF IInv, TypeOK
<1>4. CASE status = "None"
  <2>1. Count = 0 /\ acceptedPool = 0 /\ paidOut = 0 /\ escrow = 0
    BY <1>4 DEF IInv, LedgerInv, Blank, Count, MoneyInv
  <2>2. Sum(Unpulled(positions), Count) = 0
    BY <2>1, SumZero
  <2>3. ~residueClaimed
    BY <1>4 DEF MoneyInv
  <2> QED BY <1>1, <1>4, <2>1, <2>2, <2>3
<1>5. CASE status = "Open"
  <2>1. paidOut = 0 /\ ~residueClaimed
    BY <1>5 DEF MoneyInv
  <2>2. escrow = Sum(Unpulled(positions), Count) + acceptedPool
    BY <1>5 DEF MoneyInv, OpenMoney, Count
  <2>3. acceptedPool - paidOut = acceptedPool
    BY <1>3, <2>1
  <2> QED BY <1>1, <1>5, <2>1, <2>2, <2>3
<1>6. CASE status = "Resolved"
  BY <1>1, <1>6 DEF MoneyInv
<1>7. CASE status = "Voided"
  BY <1>1, <1>2, <1>7 DEF MoneyInv
<1> QED BY <1>3, <1>4, <1>5, <1>6, <1>7

(* Once settled, whoever has not claimed yet is covered in full. *)
LEMMA LastClaimCovered ==
  ASSUME IInv, MoneyInv, Settled
  PROVE  Over(StillDue) <= escrow
<1> DEFINE p == positions
           due == [i \in 1..Count |-> StillDue(p[i])]
           rest == Unpulled(p)
<1>1. /\ LedgerOK(books, p, acceptedPool, pending) /\ books \in [Outcomes -> Book]
      /\ p \in Seq(Position) /\ acceptedPool \in Nat /\ paidOut \in Nat
      /\ Count = Len(p) /\ Count \in Nat /\ RefundOK(p) /\ status # "None"
  <2>1. status # "None"
    BY DEF Settled
  <2>2. LedgerType /\ LedgerOK(books, positions, acceptedPool, pending)
    BY <2>1, LedgerTyped
  <2> QED BY <2>1, <2>2, SeqIsFun DEF LedgerType, Count, IInv, TypeOK, MoneyInv
<1>2. Over(StillDue) = Sum(due, Count)
  BY DEF Over
<1>3. ASSUME NEW i \in 1..Count
      PROVE  /\ rest[i] \in Nat /\ rest[i] = Remainder(p[i]) /\ p[i] \in Position
             /\ p[i].accepted \in Nat /\ p[i].outcome \in Outcomes
             /\ Settlement(p[i]) \in Nat
  <2>1. rest[i] \in Nat /\ rest[i] = Remainder(p[i])
    BY <1>1, <1>3, RemainderNat
  <2>2. p[i] \in Position
    BY <1>1, SeqIsFun
  <2>3. p[i].accepted \in Nat /\ p[i].outcome \in Outcomes
    BY <2>2 DEF Position
  <2> QED BY <1>1, <2>1, <2>2, <2>3, SettlementNat
<1>4. ASSUME NEW f, \A i \in 1..Count : f[i] \in Nat,
             \A i \in 1..Count : ~p[i].claimed => f[i] = Settlement(p[i])
      PROVE  Sum(due, Count) <= Sum(rest, Count) + Sum(f, Count)
  <2> DEFINE both == [i \in 1..Count |-> rest[i] + f[i]]
  <2>1. ASSUME NEW i \in 1..Count
        PROVE  due[i] \in Nat /\ rest[i] \in Nat /\ f[i] \in Nat /\ due[i] <= rest[i] + f[i]
    <3>1. CASE p[i].claimed
      BY <1>3, <1>4, <3>1 DEF StillDue
    <3>2. CASE ~p[i].claimed
      BY <1>3, <1>4, <3>2 DEF StillDue
    <3> QED BY <3>1, <3>2
  <2> HIDE DEF due, rest
  <2>2. \A i \in 1..Count : /\ due[i] \in Nat /\ both[i] \in Nat /\ due[i] <= both[i]
                            /\ rest[i] \in Nat /\ f[i] \in Nat /\ both[i] = rest[i] + f[i]
    BY <2>1
  <2> HIDE DEF both
  <2>3. Count \in Nat
    BY <1>1
  <2>4. Sum(due, Count) <= Sum(both, Count)
    BY ONLY <2>2, <2>3, SumLe
  <2>5. Sum(both, Count) = Sum(rest, Count) + Sum(f, Count)
    BY ONLY <2>2, <2>3, SumAdd
  <2> QED BY <2>4, <2>5
<1>5. Sum(rest, Count) \in Nat
  BY <1>1, <1>3, SumNat
<1>6. CASE status = "Voided"
  <2>1. ASSUME NEW i \in 1..Count
        PROVE  /\ Unclaimed(p)[i] \in Nat
               /\ ~p[i].claimed => Unclaimed(p)[i] = Settlement(p[i])
    BY <1>1, <1>3, <1>6 DEF Unclaimed, VoidDue, Settlement
  <2>2. Sum(due, Count) <= Sum(rest, Count) + Sum(Unclaimed(p), Count)
    <3> HIDE DEF due, rest
    <3> QED BY <1>4, <2>1
  <2> QED BY <1>2, <1>6, <2>2 DEF MoneyInv
<1>7. CASE status = "Resolved"
  <2> DEFINE pays == PaysOn(books, p, winner)
             paid == PaidOn(books, p, winner)
             owed == OwedOn(books, p, winner)
  <2>1. winner \in Outcomes
    BY <1>7 DEF IInv, TypeOK
  <2>2. ASSUME NEW i \in 1..Count
        PROVE  /\ pays[i] \in Nat /\ paid[i] \in Nat /\ owed[i] \in Nat
               /\ pays[i] = paid[i] + owed[i]
    <3>1. pays[i] \in Nat
      BY <1>1, <2>1, PaysNat
    <3> QED BY <1>1, <3>1 DEF PaidOn, OwedOn
  <2>3. ASSUME NEW i \in 1..Count
        PROVE  pays[i] = Settlement(p[i]) /\ (~Wins(p[i]) => pays[i] = 0)
    <3>1. pays[i] = (IF p[i].outcome = winner THEN Weight(p[i]) ELSE 0) \div SCALE
      BY <1>1, <1>3 DEF PaysOn, WeightOn, Weight
    <3>2. 0 \div SCALE = 0
      BY ScaleAssumption
    <3>3. CASE Wins(p[i])
      BY <1>7, <3>1, <3>3 DEF Settlement, Payout, Wins
    <3>4. CASE ~Wins(p[i])
      <4>1. p[i].outcome = winner => p[i].accepted = 0
        BY <1>3, <1>7, <3>4 DEF Wins
      <4>2. p[i].outcome = winner => Weight(p[i]) = 0
        <5>1. books[p[i].outcome].acc \in Nat /\ p[i].entryAcc \in Nat
          BY <1>1, <1>3 DEF Book, Position
        <5>2. SCALE + books[p[i].outcome].acc - p[i].entryAcc \in Int
          BY <5>1, ScaleAssumption
        <5> QED BY <4>1, <5>2 DEF Weight
      <4>3. pays[i] = 0
        BY <3>1, <3>2, <4>2
      <4>4. Settlement(p[i]) = 0
        BY <1>7, <3>4 DEF Settlement
      <4> QED BY <4>3, <4>4
    <3> QED BY <3>3, <3>4
  <2>4. \A i \in 1..Count : ~p[i].claimed => owed[i] = Settlement(p[i])
    BY <1>1, <2>3 DEF OwedOn
  <2>5. Sum(due, Count) <= Sum(rest, Count) + Sum(owed, Count)
    <3> HIDE DEF due, rest, owed
    <3> QED BY <1>4, <2>2, <2>4
  <2>6. CASE residueClaimed
    <3>1. ASSUME NEW i \in 1..Count PROVE owed[i] = 0
      <4>1. StillLive(p, winner)[i] = 0
        BY <1>7, <2>6 DEF MoneyInv
      <4>2. p[i].claimed \/ ~Wins(p[i])
        BY <1>1, <4>1 DEF StillLive, Joined, Wins
      <4> QED BY <1>1, <2>3, <4>2 DEF OwedOn
    <3>2. Sum(owed, Count) = 0
      <4> HIDE DEF owed
      <4> QED BY <1>1, <3>1, SumZeros
    <3>3. escrow = Sum(rest, Count) + 0
      BY <1>7, <2>6 DEF MoneyInv
    <3> QED BY <1>2, <2>5, <3>2, <3>3
  <2>7. CASE ~residueClaimed
    <3>1. Sum(pays, Count) \in Nat /\ Sum(pays, Count) <= acceptedPool
      <4>1. Sum(PaysOn(books, p, winner), Len(p)) \in Nat
            /\ Sum(PaysOn(books, p, winner), Len(p)) <= acceptedPool
        BY <1>1, <2>1, PaysWithinPool
      <4> QED BY <1>1, <4>1
    <3>2. paidOut = Sum(paid, Count) /\ escrow = Sum(rest, Count) + (acceptedPool - paidOut)
      BY <1>7, <2>7 DEF MoneyInv
    <3> HIDE DEF pays, paid, owed, due, rest
    <3>3. Sum(pays, Count) = Sum(paid, Count) + Sum(owed, Count)
      BY <1>1, <2>2, SumAdd, Zenon
    <3>4. Sum(owed, Count) \in Nat /\ Sum(paid, Count) \in Nat
      BY <1>1, <2>2, SumNat
    <3>5. Sum(owed, Count) <= acceptedPool - paidOut
      BY <1>1, <3>1, <3>2, <3>3, <3>4
    <3>6. Sum(due, Count) <= escrow
      <4>1. \A a, b, c, d \in Int : a <= b + c /\ c <= d => a <= b + d
        OBVIOUS
      <4>2. Sum(due, Count) \in Int
        <5>1. \A i \in 1..Count : due[i] \in Nat
          BY <1>3 DEF due, rest, StillDue
        <5> QED BY <1>1, <5>1, SumNat
      <4> QED BY <1>1, <1>5, <2>5, <3>2, <3>4, <3>5, <4>1, <4>2
    <3> QED BY <1>2, <3>6
  <2> QED BY <2>6, <2>7
<1> QED BY <1>6, <1>7 DEF Settled

(* The balance a market holds is exactly what its ledger says, whatever is called
   in whatever order, and once it is settled the last holder to claim is still
   paid in full: no claim, refund or residue takes what another is owed. *)
THEOREM EscrowIsTheLedger == Spec => []EscrowBacksLedger
<1>1. Init => IInv /\ MoneyInv
  BY InitInv, MoneyInit
<1>2. (IInv /\ MoneyInv) /\ [Next]_vars => (IInv /\ MoneyInv)'
  BY StepInv, MoneyStep
<1>3. IInv /\ MoneyInv => EscrowBacksLedger
  BY BalanceCounted, LastClaimCovered DEF EscrowBacksLedger
<1> QED BY <1>1, <1>2, <1>3, PTL DEF Spec

-----------------------------------------------------------------------------
(* That the vesting settler implements the settlement interface: every     *)
(* function of the contract, on any market, is a step the interface        *)
(* promises or changes nothing that the interface speaks of.               *)

(* StakesOf, over any positions. *)
View(p) == [outcome   |-> p.outcome,
            undecided |-> OfferPending(p),
            accepted  |-> p.accepted,
            remainder |-> IF p.finalized THEN Remainder(p) ELSE 0,
            claimed   |-> p.claimed]
Views(p) == [i \in 1..Len(p) |-> View(p[i])]

(* An undecided entry offers something, and a claim takes the remainder along. *)
EntryOK(p) == \A i \in 1..Len(p) : /\ ~p[i].finalized => p[i].offered > 0
                                   /\ p[i].claimed => p[i].refunded
EntryInv == EntryOK(positions)

RInv == IInv /\ MoneyInv /\ EntryInv

LEMMA ViewsAreStakes == StakesOf = Views(positions)
BY DEF StakesOf, Views, View, Count

LEMMA SameSum == \A f, k : Settler!Sum(f, k) = Sum(f, k)
BY DEF Settler!Sum, Sum

LEMMA ViewsAreList ==
  ASSUME NEW p \in Seq(Position)
  PROVE  /\ Len(p) \in Nat /\ Len(Views(p)) = Len(p)
         /\ Views(p) \in [1..Len(p) -> {View(p[i]) : i \in 1..Len(p)}]
         /\ Views(p) \in Seq({View(p[i]) : i \in 1..Len(p)})
<1>1. Len(p) \in Nat
  BY SeqIsFun
<1> DEFINE S == {View(p[i]) : i \in 1..Len(p)}
<1>2. Views(p) \in [1..Len(p) -> S]
  BY DEF Views
<1> HIDE DEF S
<1>3. Views(p) \in Seq(S) /\ Len(Views(p)) = Len(p)
  BY <1>1, <1>2, FunIsSeq
<1> QED BY <1>1, <1>2, <1>3 DEF S

LEMMA SameStakeOtherwise ==
  ASSUME NEW s \in Settler!Stake, NEW t \in Settler!Stake,
         t.outcome = s.outcome, t.claimed = s.claimed, t.undecided = 0
  PROVE  t = [s EXCEPT !.undecided = 0, !.accepted = t.accepted, !.remainder = t.remainder]
BY DEF Settler!Stake

LEMMA SameButRemainder ==
  ASSUME NEW s \in Settler!Stake, NEW t \in Settler!Stake, NEW r, t.remainder = r,
         t.outcome = s.outcome, t.undecided = s.undecided, t.accepted = s.accepted,
         t.claimed = s.claimed
  PROVE  [s EXCEPT !.remainder = r] = t
BY DEF Settler!Stake

LEMMA SameButClaimed ==
  ASSUME NEW s \in Settler!Stake, NEW t \in Settler!Stake, t.remainder = 0, t.claimed = TRUE,
         t.outcome = s.outcome, t.undecided = s.undecided, t.accepted = s.accepted
  PROVE  [s EXCEPT !.claimed = TRUE, !.remainder = 0] = t
BY DEF Settler!Stake

(* A roll decides the pending entries, and nothing else. *)
LEMMA RollDecides ==
  ASSUME IInv, MoneyInv, EntryInv, status # "None", NEW due \in BOOLEAN
  PROVE  /\ Settler!Decision(Views(positions), Views(PositionsAfter(due)))
         /\ EntryOK(PositionsAfter(due))
<1> DEFINE q == PositionsAfter(due)
<1>1. /\ LedgerType /\ LedgerOK(books, positions, acceptedPool, pending)
      /\ positions \in Seq(Position) /\ q \in Seq(Position) /\ Len(q) = Len(positions)
      /\ Count = Len(positions) /\ RefundOK(positions)
  BY LedgerTyped, AfterRoll DEF LedgerType, Count, MoneyInv
<1>2. Len(positions) \in Nat /\ Len(Views(positions)) = Len(positions) /\ Len(Views(q)) = Len(positions)
  BY <1>1, ViewsAreList
<1>3. ASSUME NEW i \in 1..Len(positions)
      PROVE  \/ q[i] = positions[i]
             \/ /\ ~positions[i].finalized /\ ~positions[i].refunded
                /\ positions[i].offered > 0
                /\ AcceptedNow[i] \in Nat /\ AcceptedNow[i] <= positions[i].offered
                /\ q[i] = [positions[i] EXCEPT !.accepted = AcceptedNow[i],
                             !.entryAcc = AccAfter(positions[i].outcome), !.finalized = TRUE]
  <2>1. AcceptedNow[i] \in Nat /\ AcceptedNow[i] <= positions[i].offered
    BY <1>1, AcceptedNowType
  <2>2. i \in pending => ~positions[i].finalized /\ ~positions[i].refunded /\ positions[i].offered > 0
    BY <1>1 DEF LedgerOK, PendingOK, RefundOK, EntryInv, EntryOK
  <2>3. i \notin pending => FinalPositions[i] = positions[i]
    BY <1>1 DEF FinalPositions
  <2>4. i \in pending => FinalPositions[i] = [positions[i] EXCEPT !.accepted = AcceptedNow[i],
                             !.entryAcc = AccAfter(positions[i].outcome), !.finalized = TRUE]
    BY <1>1 DEF FinalPositions
  <2> QED BY <2>1, <2>2, <2>3, <2>4 DEF PositionsAfter
<1> HIDE DEF q
<1>4. ASSUME NEW i \in 1..Len(positions)
      PROVE  /\ ~q[i].finalized => q[i].offered > 0
             /\ q[i].claimed => q[i].refunded
             /\ \/ Views(q)[i] = Views(positions)[i]
                \/ /\ Views(positions)[i].undecided > 0
                   /\ Views(q)[i] = [Views(positions)[i] EXCEPT !.undecided = 0,
                          !.accepted = Views(q)[i].accepted, !.remainder = Views(q)[i].remainder]
                   /\ Views(q)[i].accepted >= 0 /\ Views(q)[i].remainder >= 0
                   /\ Views(q)[i].accepted + Views(q)[i].remainder = Views(positions)[i].undecided
  <2>1. /\ Views(positions)[i] = View(positions[i]) /\ Views(q)[i] = View(q[i])
        /\ ~positions[i].finalized => positions[i].offered > 0
        /\ positions[i].claimed => positions[i].refunded
        /\ positions[i] \in Position
    BY <1>1, SeqIsFun DEF Views, EntryInv, EntryOK
  <2>2. CASE q[i] = positions[i]
    BY <2>1, <2>2
  <2>3. CASE q[i] # positions[i]
    <3> DEFINE a == AcceptedNow[i]
               o == positions[i]
    <3>1. /\ ~o.finalized /\ ~o.refunded /\ o.offered > 0 /\ a \in Nat /\ a <= o.offered
          /\ q[i] = [o EXCEPT !.accepted = a,
                             !.entryAcc = AccAfter(positions[i].outcome), !.finalized = TRUE]
          /\ o \in Position
      BY <1>3, <2>1, <2>3, Zenon
    <3> HIDE DEF a, o
    <3>2. /\ q[i].finalized /\ q[i].outcome = o.outcome /\ q[i].offered = o.offered
          /\ q[i].accepted = a /\ q[i].refunded = o.refunded /\ q[i].claimed = o.claimed
          /\ o.offered \in Nat
      BY <3>1 DEF Position
    <3>3. View(q[i]) = [outcome |-> o.outcome, undecided |-> 0, accepted |-> a,
                        remainder |-> o.offered - a, claimed |-> o.claimed]
      BY <3>1, <3>2 DEF View, OfferPending, Remainder
    <3>4. View(o) = [outcome |-> o.outcome, undecided |-> o.offered, accepted |-> o.accepted,
                     remainder |-> 0, claimed |-> o.claimed]
      BY <3>1 DEF View, OfferPending
    <3>5. /\ View(o).undecided = o.offered /\ View(q[i]).accepted = a
          /\ View(q[i]).remainder = o.offered - a
      BY <3>3, <3>4
    <3>6. View(q[i]) = [View(o) EXCEPT !.undecided = 0, !.accepted = View(q[i]).accepted,
                                       !.remainder = View(q[i]).remainder]
      <4>1. View(o) \in Settler!Stake /\ View(q[i]) \in Settler!Stake
        BY <3>1, <3>2, <3>3, <3>4 DEF Position, Settler!Stake, Outcomes
      <4>2. /\ View(q[i]).outcome = View(o).outcome /\ View(q[i]).claimed = View(o).claimed
            /\ View(q[i]).undecided = 0
        BY <3>3, <3>4
      <4> QED BY <4>1, <4>2, SameStakeOtherwise, Zenon
    <3>7. o.offered - a >= 0 /\ a >= 0 /\ a + (o.offered - a) = o.offered
      BY <3>1, <3>2
    <3> QED BY <2>1, <3>1, <3>2, <3>5, <3>6, <3>7 DEF o
  <2> QED BY <2>2, <2>3
<1>5. EntryOK(q)
  BY <1>1, <1>4, Zenon DEF EntryOK
<1>6. Settler!Decision(Views(positions), Views(q))
  BY <1>2, <1>4, Zenon DEF Settler!Decision
<1> QED BY <1>5, <1>6 DEF q

LEMMA ProductGrows ==
  ASSUME NEW a \in Nat, NEW s \in Nat, NEW g \in Nat
  PROVE  a * (s + g) \in Nat /\ s * a <= a * (s + g)
<1>1. a * (s + g) = s * a + a * g
  OBVIOUS
<1>2. a * g \in Nat /\ s * a \in Nat
  OBVIOUS
<1> QED BY <1>1, <1>2

-----------------------------------------------------------------------------
(* Each function of the contract is a step of the interface.                *)

LEMMA CreateImplements ==
  ASSUME RInv, NEW seed \in Seeds, NEW k \in Kappas, Create(seed, k)
  PROVE  Settler!Create /\ EntryInv'
<1> DEFINE leg == SeedClamp(seed, k)
           total == Sum(leg, N)
<1>1. /\ status = "None" /\ status' = "Open" /\ winner' = winner
      /\ residueClaimed' = residueClaimed
      /\ \A o \in Outcomes : leg[o] # 0
      /\ positions' = [w \in Outcomes |-> SeedPosition(seed, leg, w)]
      /\ escrow' = escrow + total
  BY DEF Create
<1>2. escrow = 0 /\ N \in Nat /\ Outcomes = 1..N
  BY <1>1, SizeAssumption DEF RInv, MoneyInv, Outcomes
<1>3. leg \in Legs /\ seed \in Legs
  BY SeedClampType, InputAssumption DEF Legs, Kappa
<1> HIDE DEF leg
<1>4. positions' \in Seq(Position) /\ Len(positions') = N /\ total \in Nat
  <2>1. k \in Kappa
    BY InputAssumption DEF Kappa
  <2>2. PICK b : b = [w \in Outcomes |-> SeedBook(leg, w, Sum(leg, N), k)]
    OBVIOUS
  <2> QED BY <1>1, <1>3, <2>1, <2>2, LedgerSeed
<1>5. ASSUME NEW o \in 1..N
      PROVE  /\ positions'[o].finalized /\ ~positions'[o].claimed
             /\ leg[o] \in Nat /\ leg[o] > 0
             /\ View(positions'[o]) = [outcome |-> o, undecided |-> 0, accepted |-> leg[o],
                                       remainder |-> 0, claimed |-> FALSE]
  <2>1. leg[o] \in Nat /\ leg[o] # 0
    BY <1>1, <1>2, <1>3 DEF Legs
  <2>2. positions'[o] = SeedPosition(seed, leg, o)
    BY <1>1, <1>2
  <2> QED BY <2>1, <2>2 DEF SeedPosition, View, OfferPending, Remainder
<1>6. EntryInv'
  BY <1>4, <1>5 DEF EntryInv, EntryOK
<1>7. StakesOf' = Views(positions')
  BY ViewsAreStakes DEF StakesOf, Views, View, Count
<1>8. Len(StakesOf') = N
  BY <1>4, <1>7, ViewsAreList
<1>9. ASSUME NEW o \in 1..N
      PROVE  StakesOf'[o] = [outcome |-> o, undecided |-> 0, accepted |-> leg[o],
                             remainder |-> 0, claimed |-> FALSE]
  BY <1>4, <1>5, <1>7 DEF Views
<1>12. ASSUME NEW o \in 1..N PROVE StakesOf'[o].accepted = leg[o]
  <2>1. \A a : [outcome |-> o, undecided |-> 0, accepted |-> a,
                remainder |-> 0, claimed |-> FALSE].accepted = a
    OBVIOUS
  <2> QED BY <1>9, <2>1
<1>10. escrow' = Settler!Sum([o \in 1..N |-> StakesOf'[o].accepted], N)
  <2>1. \A o \in 1..N : [i \in 1..N |-> StakesOf'[i].accepted][o] = leg[o]
    BY <1>12
  <2>2. Sum([i \in 1..N |-> StakesOf'[i].accepted], N) = total
    BY <1>2, <2>1, SumEq
  <2> QED BY <1>1, <1>2, <1>4, <2>2, SameSum
<1>11. \A o \in 1..N : /\ StakesOf'[o] = [outcome |-> o, undecided |-> 0, remainder |-> 0,
                             accepted |-> StakesOf'[o].accepted, claimed |-> FALSE]
                        /\ StakesOf'[o].accepted > 0
  <2>1. ASSUME NEW o \in 1..N
        PROVE  StakesOf'[o] = [outcome |-> o, undecided |-> 0, remainder |-> 0,
                               accepted |-> leg[o], claimed |-> FALSE]
    BY <1>9
  <2> QED BY <1>5, <1>12, <2>1
<1> QED BY <1>1, <1>6, <1>8, <1>10, <1>11 DEF Settler!Create

LEMMA EnterImplements ==
  ASSUME RInv, NEW u \in Users, NEW o \in Outcomes, NEW amount \in Amounts, Enter(u, o, amount)
  PROVE  Settler!Enter /\ EntryInv'
<1> DEFINE q == PositionsAfter(RollDue)
           e == [owner |-> u, outcome |-> o, finalized |-> FALSE, refunded |-> FALSE,
                 claimed |-> FALSE, vintage |-> blockNo, offered |-> amount,
                 accepted |-> 0, entryAcc |-> 0]
           n == Len(positions)
<1>1. /\ status = "Open" /\ amount # 0 /\ positions' = Append(q, e)
      /\ escrow' = escrow + amount
      /\ UNCHANGED <<settleVars, residueClaimed>>
  BY DEF Enter
<1>2. /\ IInv /\ MoneyInv /\ EntryInv /\ RollDue \in BOOLEAN /\ amount \in Nat /\ amount > 0
      /\ blockNo \in Nat /\ escrow \in Int
  BY <1>1, InputAssumption DEF RInv, IInv, TypeOK, RollDue
<1>3. q \in Seq(Position) /\ Len(q) = n /\ n \in Nat /\ e \in Position
  BY <1>1, <1>2, AfterRoll, SeqIsFun DEF Position, Count
<1>4. Settler!Decision(Views(positions), Views(q)) /\ EntryOK(q)
  BY <1>1, <1>2, RollDecides
<1>5. /\ View(e) = [outcome |-> o, undecided |-> amount, accepted |-> 0,
                    remainder |-> 0, claimed |-> FALSE]
      /\ ~e.finalized /\ ~e.claimed /\ e.offered = amount
  BY DEF View, OfferPending
<1> HIDE DEF q, e
<1>6. /\ positions' \in Seq(Position) /\ Len(positions') = n + 1 /\ positions'[n + 1] = e
      /\ \A i \in 1..n : positions'[i] = q[i]
  BY <1>1, <1>3, AppendIsFun
<1>7. EntryInv'
  BY <1>2, <1>3, <1>4, <1>5, <1>6 DEF EntryInv, EntryOK
<1>8. StakesOf' = Views(positions') /\ StakesOf = Views(positions)
  BY ViewsAreStakes DEF StakesOf, Views, View, Count
<1>9. /\ Len(StakesOf) = n /\ Len(StakesOf') = n + 1 /\ StakesOf'[n + 1] = View(e)
      /\ \A i \in 1..n : StakesOf'[i] = Views(q)[i]
  <2>1. Len(StakesOf) = n /\ Len(StakesOf') = n + 1
    BY <1>2, <1>6, <1>8, ViewsAreList DEF IInv, TypeOK
  <2> QED BY <1>3, <1>6, <1>8, <2>1 DEF Views
<1>10. SubSeq(StakesOf', 1, n) = Views(q)
  <2>1. SubSeq(StakesOf', 1, n) = [i \in 1..n |-> StakesOf'[i]]
    BY <1>3, <1>9
  <2> QED BY <1>3, <1>9, <2>1 DEF Views
<1>11. Len(StakesOf) + 1 - 1 = n /\ Len(StakesOf) + 1 = n + 1
  BY <1>3, <1>9
<1>12. /\ StakesOf'[n + 1].remainder = 0 /\ ~StakesOf'[n + 1].claimed
       /\ StakesOf'[n + 1].outcome \in 1..N
       /\ StakesOf'[n + 1].undecided = amount /\ StakesOf'[n + 1].accepted = 0
  BY <1>5, <1>9 DEF Outcomes
<1>13. status' = status /\ winner' = winner /\ residueClaimed' = residueClaimed
  BY <1>1 DEF settleVars
<1>14. /\ StakesOf'[n + 1].undecided + StakesOf'[n + 1].accepted > 0
       /\ escrow' = escrow + StakesOf'[n + 1].undecided + StakesOf'[n + 1].accepted
  BY <1>1, <1>2, <1>12
<1>15. /\ Len(StakesOf') = Len(StakesOf) + 1
       /\ Settler!Decision(StakesOf, SubSeq(StakesOf', 1, Len(StakesOf) + 1 - 1))
  BY <1>4, <1>8, <1>9, <1>10, <1>11
<1> HIDE DEF n
<1> QED BY <1>1, <1>7, <1>11, <1>12, <1>13, <1>14, <1>15 DEF Settler!Enter

(* The calls that only roll: finalizeVintage, and with the outcome resolve and
   voidMarket, after which nothing is left undecided. *)
LEMMA RollImplements ==
  ASSUME RInv, status # "None", Roll
  PROVE  Settler!Decision(StakesOf, StakesOf') /\ EntryInv'
<1>1. StakesOf' = Views(positions') /\ StakesOf = Views(positions)
  BY ViewsAreStakes DEF StakesOf, Views, View, Count
<1>2. RollDue \in BOOLEAN /\ IInv /\ MoneyInv /\ EntryInv
  BY DEF RInv, IInv, TypeOK, RollDue
<1>3. positions' = PositionsAfter(RollDue)
  BY DEF Roll
<1> QED BY <1>1, <1>2, <1>3, RollDecides DEF EntryInv

LEMMA FinalizeVintageImplements ==
  ASSUME RInv, FinalizeVintage
  PROVE  [Settler!Next]_(Settler!settlerVars) /\ EntryInv'
<1>1. /\ status # "None" /\ Roll /\ status' = status /\ winner' = winner
      /\ residueClaimed' = residueClaimed /\ escrow' = escrow
  BY DEF FinalizeVintage, settleVars
<1>2. Settler!Decision(StakesOf, StakesOf') /\ EntryInv'
  BY <1>1, RollImplements
<1>3. CASE status = "Open"
  BY <1>1, <1>2, <1>3 DEF Settler!Decide, Settler!Next
<1>4. CASE status # "Open"
  <2>1. ~RollDue
    BY <1>4 DEF RInv, IInv, VintageInv, RollDue
  <2>2. positions' = positions
    BY <1>1, <2>1 DEF Roll, PositionsAfter
  <2>3. StakesOf' = StakesOf
    BY <2>2 DEF StakesOf, Count
  <2> QED BY <1>1, <1>2, <2>3 DEF Settler!settlerVars
<1> QED BY <1>3, <1>4

(* The settling calls. *)
LEMMA SettleImplements ==
  ASSUME RInv, IInv', status = "Open", Roll,
         \/ status' = "Resolved" /\ winner' \in Outcomes
         \/ status' = "Voided" /\ winner' = winner,
         escrow' = escrow, residueClaimed' = residueClaimed
  PROVE  Settler!Settle /\ EntryInv'
<1>1. Settler!Decision(StakesOf, StakesOf') /\ EntryInv'
  BY RollImplements
<1>2. StakesOf' = Views(positions')
  BY ViewsAreStakes DEF StakesOf, Views, View, Count
<1>3. /\ positions' \in Seq(Position) /\ LedgerOK(books', positions', acceptedPool', pending')
      /\ pending' = {}
  BY DEF IInv, TypeOK, LedgerInv, VintageInv
<1>4. \A i \in 1..Len(positions') : positions'[i].finalized
  BY <1>3 DEF LedgerOK, PendingOK
<1>5. Len(StakesOf') = Len(positions')
  BY <1>2, <1>3, ViewsAreList
<1>6. \A i \in 1..Len(StakesOf') : StakesOf'[i].undecided = 0
  BY <1>2, <1>4, <1>5 DEF Views, View, OfferPending
<1> QED BY <1>1, <1>6 DEF Settler!Settle, Outcomes

(* withdrawRefund: the vintage is rolled if it is due, then one remainder goes. *)
LEMMA WithdrawRefundImplements ==
  ASSUME RInv, NEW u \in Users, NEW i \in 1..Count, WithdrawRefund(u, i)
  PROVE  Settler!WithdrawRefund(i) /\ EntryInv' /\ i \in 1..Len(StakesOf)
<1> DEFINE due == status = "Open" /\ RollDue
           q == PositionsAfter(due)
           r == q[i].offered - q[i].accepted
<1>1. /\ q[i].finalized /\ ~q[i].refunded /\ r # 0
      /\ positions' = [q EXCEPT ![i].refunded = TRUE]
      /\ escrow' = escrow - r
      /\ status' = status /\ winner' = winner /\ residueClaimed' = residueClaimed
  BY DEF WithdrawRefund, settleVars
<1>2. /\ IInv /\ MoneyInv /\ EntryInv /\ due \in BOOLEAN /\ (due => status = "Open")
      /\ escrow \in Int /\ positions \in Seq(Position)
  BY DEF RInv, IInv, TypeOK, RollDue
<1>3. status # "None"
  BY <1>2 DEF IInv, LedgerInv, Blank, Count
<1> HIDE DEF due
<1>4. /\ q \in Seq(Position) /\ Len(q) = Count /\ Count \in Nat /\ Count = Len(positions)
      /\ q \in [1..Count -> Position]
  BY <1>2, <1>3, AfterRoll, SeqIsFun DEF Count
<1>5. Settler!Decision(Views(positions), Views(q)) /\ EntryOK(q)
  BY <1>2, <1>3, RollDecides
<1>6. RefundOK(q)
  <2>1. CASE status = "Open"
    BY <1>2, <2>1, MoneyAfterRoll
  <2>2. CASE status # "Open"
    BY <1>2, <2>2 DEF PositionsAfter, MoneyInv
  <2> QED BY <2>1, <2>2
<1> HIDE DEF q
<1>7. q[i] \in Position /\ q[i].offered \in Nat /\ q[i].accepted \in Nat /\ r \in Nat /\ r > 0
  <2>1. q[i] \in Position
    BY <1>4
  <2>2. q[i].offered \in Nat /\ q[i].accepted \in Nat
    BY <2>1 DEF Position
  <2>3. q[i].accepted <= q[i].offered
    BY <1>1, <1>4, <1>6 DEF RefundOK
  <2> QED BY <1>1, <2>1, <2>2, <2>3
<1>8. /\ positions' \in Seq(Position) /\ Len(positions') = Count
      /\ \A j \in 1..Count : j # i => positions'[j] = q[j]
      /\ positions'[i] = [q[i] EXCEPT !.refunded = TRUE]
  <2>1. [q[i] EXCEPT !.refunded = TRUE] \in Position
    BY <1>7 DEF Position
  <2>2. positions' \in [1..Count -> Position]
    BY <1>1, <1>4, <2>1
  <2> QED BY <1>1, <1>4, <2>2, FunIsSeq
<1>9. /\ positions'[i].refunded /\ positions'[i].outcome = q[i].outcome
      /\ positions'[i].accepted = q[i].accepted /\ positions'[i].finalized
      /\ positions'[i].claimed = q[i].claimed
  BY <1>1, <1>7, <1>8 DEF Position
<1>10. EntryInv'
  <2>1. ASSUME NEW j \in 1..Count
        PROVE  /\ ~positions'[j].finalized => positions'[j].offered > 0
               /\ positions'[j].claimed => positions'[j].refunded
    <3>1. CASE j = i
      BY <1>9, <3>1
    <3>2. CASE j # i
      BY <1>4, <1>5, <1>8, <3>2 DEF EntryOK
    <3> QED BY <3>1, <3>2
  <2> QED BY <1>8, <2>1 DEF EntryInv, EntryOK
<1> HIDE DEF r
<1>11. /\ View(positions'[i]) = [outcome |-> q[i].outcome, undecided |-> 0,
                accepted |-> q[i].accepted, remainder |-> 0, claimed |-> q[i].claimed]
       /\ View(q[i]) = [outcome |-> q[i].outcome, undecided |-> 0,
                accepted |-> q[i].accepted, remainder |-> r, claimed |-> q[i].claimed]
  BY <1>1, <1>9 DEF View, OfferPending, Remainder, r
<1>12. StakesOf' = Views(positions') /\ StakesOf = Views(positions)
  BY ViewsAreStakes DEF StakesOf, Views, View, Count
<1>13. Len(StakesOf) = Count /\ Len(StakesOf') = Count
  BY <1>2, <1>4, <1>8, <1>12, ViewsAreList
<1>14. /\ StakesOf'[i] = View(positions'[i])
       /\ \A j \in 1..Count : j # i => StakesOf'[j] = View(q[j])
  BY <1>8, <1>12 DEF Views
<1>15. StakesOf'[i].remainder = 0 /\ StakesOf'[i].undecided = 0
  BY <1>11, <1>14
<1>16. [StakesOf' EXCEPT ![i].remainder = r] = Views(q)
  <2>1. [StakesOf'[i] EXCEPT !.remainder = r] = View(q[i])
    <3>1. /\ View(positions'[i]) \in Settler!Stake /\ View(q[i]) \in Settler!Stake
          /\ View(q[i]).remainder = r /\ View(q[i]).undecided = View(positions'[i]).undecided
          /\ View(q[i]).outcome = View(positions'[i]).outcome
          /\ View(q[i]).accepted = View(positions'[i]).accepted
          /\ View(q[i]).claimed = View(positions'[i]).claimed
      BY <1>7, <1>11 DEF Settler!Stake, Position, Outcomes
    <3> QED BY <1>14, <3>1, SameButRemainder
  <2>2. StakesOf' = [j \in 1..Count |-> StakesOf'[j]]
    BY <1>8, <1>12 DEF Views
  <2>3. [StakesOf' EXCEPT ![i].remainder = r]
          = [j \in 1..Count |-> IF j = i THEN [StakesOf'[i] EXCEPT !.remainder = r] ELSE StakesOf'[j]]
    BY <2>2, Zenon
  <2>4. Views(q) = [j \in 1..Count |-> View(q[j])]
    BY <1>4 DEF Views
  <2> QED BY <1>14, <2>1, <2>3, <2>4
<1>17. escrow - escrow' = r
  BY <1>1, <1>2, <1>7
<1> QED BY <1>1, <1>5, <1>7, <1>10, <1>12, <1>13, <1>15, <1>16, <1>17 DEF Settler!WithdrawRefund

(* A winner's accumulator has only grown since it entered: it is paid its
   accepted stake at least. *)
LEMMA WinnerKeepsPrincipal ==
  ASSUME NEW p \in Position, p.entryAcc <= books[p.outcome].acc,
         books \in [Outcomes -> Book], status = "Resolved", p.outcome = winner
  PROVE  p.accepted <= Settlement(p)
<1>1. p.accepted \in Nat /\ p.entryAcc \in Nat /\ books[p.outcome].acc \in Nat
  BY DEF Position, Book
<1>2. SCALE \in Nat /\ SCALE > 0
  BY ScaleAssumption
<1>3. CASE p.accepted = 0
  BY <1>1, <1>3 DEF Settlement, Wins
<1>4. CASE p.accepted > 0
  <2>1. PICK gain \in Nat : books[p.outcome].acc = p.entryAcc + gain
    <3>1. books[p.outcome].acc - p.entryAcc \in Nat
      BY <1>1
    <3>2. books[p.outcome].acc = p.entryAcc + (books[p.outcome].acc - p.entryAcc)
      BY <1>1
    <3> QED BY <3>1, <3>2
  <2>2. Weight(p) = p.accepted * (SCALE + gain)
    BY <1>1, <1>2, <2>1 DEF Weight
  <2>3. Weight(p) \in Nat /\ SCALE * p.accepted <= Weight(p)
    BY <1>1, <1>2, <2>1, <2>2, ProductGrows
  <2>4. p.accepted <= Weight(p) \div SCALE
    BY <1>1, <1>2, <2>3, QuotientAtLeast
  <2> QED BY <1>4, <2>4 DEF Settlement, Wins, Payout
<1> QED BY <1>1, <1>3, <1>4

(* What a stake is owed for certain is within what it is still due. *)
LEMMA OwedWithinDue ==
  ASSUME RInv, Settled, NEW i \in 1..Count
  PROVE  /\ Settler!Owed(StakesOf[i]) \in Nat /\ StillDue(positions[i]) \in Nat
         /\ Settler!Owed(StakesOf[i]) <= StillDue(positions[i])
<1> DEFINE p == positions[i]
           s == StakesOf[i]
<1>1. /\ status \in {"Resolved", "Voided"} /\ status # "None" /\ positions \in Seq(Position)
      /\ Count = Len(positions) /\ pending = {}
      /\ IInv /\ MoneyInv /\ EntryInv
  BY DEF Settled, RInv, IInv, TypeOK, VintageInv, Count
<1>2. LedgerType /\ LedgerOK(books, positions, acceptedPool, pending)
  BY <1>1, LedgerTyped
<1>3. /\ p \in Position /\ p.finalized /\ p.entryAcc <= books[p.outcome].acc
      /\ p.claimed => p.refunded
  BY <1>1, <1>2, PositionAt DEF LedgerOK, PendingOK, EntryInv, EntryOK
<1>4. Remainder(p) \in Nat
  BY <1>1, RemainderNat DEF MoneyInv
<1>5. s.undecided = 0 /\ s.remainder = Remainder(p) /\ s.accepted = p.accepted
      /\ s.outcome = p.outcome /\ s.claimed = p.claimed
  BY <1>3 DEF StakesOf, OfferPending
<1>6. p.accepted \in Nat /\ p.outcome \in Outcomes /\ Settlement(p) \in Nat
  BY <1>1, <1>2, PositionAt, SettlementNat
<1>7. CASE p.claimed
  BY <1>3, <1>4, <1>5, <1>7 DEF Settler!Owed, StillDue, Remainder
<1>8. CASE ~p.claimed
  <2>1. Settler!Owed(s) = Remainder(p) +
          (IF status = "Resolved" /\ p.outcome # winner THEN 0 ELSE p.accepted)
    BY <1>4, <1>5, <1>6, <1>8 DEF Settler!Owed
  <2>2. StillDue(p) = Settlement(p) + Remainder(p)
    BY <1>8 DEF StillDue
  <2>3. (IF status = "Resolved" /\ p.outcome # winner THEN 0 ELSE p.accepted) <= Settlement(p)
    <3>0. books \in [Outcomes -> Book]
      BY <1>2 DEF LedgerType
    <3>1. CASE status = "Voided"
      <4>1. Settlement(p) = p.accepted
        BY <3>1 DEF Settlement
      <4> QED BY <1>6, <3>1, <4>1
    <3>2. CASE status = "Resolved" /\ p.outcome # winner
      BY <1>6, <3>2
    <3>3. CASE status = "Resolved" /\ p.outcome = winner
      <4>1. p.accepted <= Settlement(p)
        BY <1>3, <3>0, <3>3, WinnerKeepsPrincipal
      <4> QED BY <3>3, <4>1
    <3> HIDE DEF p
    <3> QED BY <1>1, <3>1, <3>2, <3>3
  <2> QED BY <1>4, <1>6, <2>1, <2>2, <2>3
<1> QED BY <1>7, <1>8

(* On every settled market the balance covers what the interface says is owed. *)
LEMMA AlwaysCovered == RInv /\ Settled => Settler!Covered
<1> SUFFICES ASSUME RInv, Settled PROVE Settler!Covered
  OBVIOUS
<1>1. positions \in Seq(Position) /\ Count = Len(positions) /\ escrow \in Int
  BY DEF RInv, IInv, TypeOK, Count
<1>2. Count \in Nat /\ Len(StakesOf) = Count
  BY <1>1, ViewsAreStakes, ViewsAreList
<1> DEFINE owed == [i \in 1..Count |-> Settler!Owed(StakesOf[i])]
           due == [i \in 1..Count |-> StillDue(positions[i])]
<1>3. \A i \in 1..Count : owed[i] \in Nat /\ due[i] \in Nat /\ owed[i] <= due[i]
  BY OwedWithinDue
<1>4. Settler!TotalOwed = Sum(owed, Count)
  BY <1>2, SameSum DEF Settler!TotalOwed
<1>5. Over(StillDue) = Sum(due, Count)
  BY DEF Over
<1> HIDE DEF owed, due
<1>6. Sum(owed, Count) <= Sum(due, Count)
  BY ONLY <1>2, <1>3, SumLe
<1>7. Sum(owed, Count) \in Nat /\ Sum(due, Count) \in Nat
  BY ONLY <1>2, <1>3, SumNat
<1>8. Sum(due, Count) <= escrow
  BY <1>5, LastClaimCovered DEF RInv
<1> QED BY <1>1, <1>4, <1>6, <1>7, <1>8 DEF Settler!Covered

(* claim: the stake is settled as the interface says, and nobody else's share of
   the balance is touched. *)
LEMMA ClaimImplements ==
  ASSUME RInv, (IInv /\ MoneyInv)', NEW u \in Users, NEW i \in 1..Count, Claim(u, i)
  PROVE  Settler!Claim(i) /\ EntryInv' /\ i \in 1..Len(StakesOf)
<1> DEFINE p == positions
           s == StakesOf[i]
<1>1. /\ ~p[i].claimed /\ status \in {"Resolved", "Voided"}
      /\ positions' = [p EXCEPT ![i].refunded = TRUE, ![i].claimed = TRUE]
      /\ escrow' = escrow - (Settlement(p[i]) + Remainder(p[i]))
      /\ status' = status /\ winner' = winner /\ residueClaimed' = residueClaimed
  BY DEF Claim, settleVars
<1>2. /\ IInv /\ MoneyInv /\ EntryInv /\ status # "None" /\ Settled
      /\ p \in Seq(Position) /\ Count = Len(p) /\ Count \in Nat /\ escrow \in Int
      /\ p \in [1..Count -> Position] /\ pending = {}
  BY <1>1, SeqIsFun DEF RInv, IInv, TypeOK, VintageInv, Count, Settled
<1>3. LedgerType /\ LedgerOK(books, positions, acceptedPool, pending)
  BY <1>2, LedgerTyped
<1>4. /\ p[i] \in Position /\ p[i].finalized /\ p[i].entryAcc <= books[p[i].outcome].acc
      /\ p[i].accepted \in Nat /\ p[i].outcome \in Outcomes
      /\ Settlement(p[i]) \in Nat /\ Remainder(p[i]) \in Nat
  <2>1. Settlement(p[i]) \in Nat
    BY <1>2, SettlementNat
  <2>2. Remainder(p[i]) \in Nat
    BY <1>2, RemainderNat DEF MoneyInv
  <2> QED BY <1>2, <1>3, <2>1, <2>2, PositionAt DEF LedgerOK, PendingOK
<1>5. books \in [Outcomes -> Book]
  BY <1>3 DEF LedgerType
<1>6. /\ s = View(p[i]) /\ s.remainder = Remainder(p[i]) /\ s.accepted = p[i].accepted
      /\ s.outcome = p[i].outcome /\ s.claimed = p[i].claimed /\ s.undecided = 0
  BY <1>4 DEF StakesOf, View, OfferPending
<1>7. Len(StakesOf) = Count
  BY <1>2, ViewsAreStakes, ViewsAreList
<1> HIDE DEF p, s
<1>8. /\ positions' \in Seq(Position) /\ Len(positions') = Count /\ Count' = Count
      /\ \A j \in 1..Count : j # i => positions'[j] = p[j]
      /\ positions'[i] = [p[i] EXCEPT !.refunded = TRUE, !.claimed = TRUE]
  <2>1. [p[i] EXCEPT !.refunded = TRUE, !.claimed = TRUE] \in Position
    BY <1>4 DEF Position
  <2>2. positions' \in [1..Count -> Position]
    BY <1>1, <1>2, <2>1
  <2>3. positions' \in Seq(Position) /\ Len(positions') = Count
    BY <1>2, <2>2, FunIsSeq
  <2> QED BY <1>1, <1>2, <2>3 DEF Count
<1>9. /\ positions'[i].refunded /\ positions'[i].claimed /\ positions'[i].finalized
      /\ positions'[i].outcome = p[i].outcome /\ positions'[i].accepted = p[i].accepted
  BY <1>4, <1>8 DEF Position
<1>10. EntryInv'
  <2>1. ASSUME NEW j \in 1..Count
        PROVE  /\ ~positions'[j].finalized => positions'[j].offered > 0
               /\ positions'[j].claimed => positions'[j].refunded
    <3>1. CASE j = i
      BY <1>9, <3>1
    <3>2. CASE j # i
      BY <1>2, <1>8, <3>2 DEF EntryInv, EntryOK, p
    <3> QED BY <3>1, <3>2
  <2> QED BY <1>8, <2>1 DEF EntryInv, EntryOK
<1>11. Settler!Covered'
  <2>1. (RInv /\ Settled)'
    BY <1>1, <1>10 DEF RInv, Settled
  <2>2. (RInv /\ Settled)' => Settler!Covered'
    BY AlwaysCovered, PTL
  <2> QED BY <2>1, <2>2
<1>12. StakesOf' = [StakesOf EXCEPT ![i].claimed = TRUE, ![i].remainder = 0]
  <2>1. View(positions'[i]) = [outcome |-> p[i].outcome, undecided |-> 0,
            accepted |-> p[i].accepted, remainder |-> 0, claimed |-> TRUE]
    BY <1>9 DEF View, OfferPending, Remainder
  <2>2. [s EXCEPT !.claimed = TRUE, !.remainder = 0] = View(positions'[i])
    <3>1. s \in Settler!Stake
      <4>1. p[i].claimed \in BOOLEAN
        BY <1>4 DEF Position
      <4>2. s = [outcome |-> p[i].outcome, undecided |-> 0, accepted |-> p[i].accepted,
                 remainder |-> Remainder(p[i]), claimed |-> p[i].claimed]
        BY <1>4, <1>6 DEF View, OfferPending
      <4> QED BY <1>4, <4>1, <4>2 DEF Settler!Stake, Outcomes
    <3>2. View(positions'[i]) \in Settler!Stake
      BY <1>4, <2>1 DEF Settler!Stake, Outcomes
    <3>3. /\ View(positions'[i]).outcome = s.outcome /\ View(positions'[i]).undecided = s.undecided
          /\ View(positions'[i]).accepted = s.accepted
          /\ View(positions'[i]).remainder = 0 /\ View(positions'[i]).claimed = TRUE
      BY <1>6, <2>1
    <3> QED BY <3>1, <3>2, <3>3, SameButClaimed, Zenon
  <2>3. StakesOf' = [j \in 1..Count |-> View(positions'[j])]
    BY <1>8 DEF StakesOf, View
  <2>4. StakesOf = [j \in 1..Count |-> View(p[j])]
    BY DEF StakesOf, View, p
  <2>5. [StakesOf EXCEPT ![i].claimed = TRUE, ![i].remainder = 0]
          = [j \in 1..Count |-> IF j = i THEN [s EXCEPT !.claimed = TRUE, !.remainder = 0]
                                ELSE View(p[j])]
    <3>1. \A f, v, w : f = [j \in 1..Count |-> View(p[j])] =>
            [f EXCEPT ![i] = v] = [j \in 1..Count |-> IF j = i THEN v ELSE View(p[j])]
      OBVIOUS
    <3>2. [StakesOf EXCEPT ![i].claimed = TRUE, ![i].remainder = 0]
            = [StakesOf EXCEPT ![i] = [s EXCEPT !.claimed = TRUE, !.remainder = 0]]
      BY <2>4 DEF s
    <3> QED BY <2>4, <3>1, <3>2
  <2> QED BY <1>8, <2>2, <2>3, <2>5
<1>13. escrow - escrow' - s.remainder = Settlement(p[i])
  BY <1>1, <1>2, <1>4, <1>6
<1>14. /\ status = "Voided" => Settlement(p[i]) = s.accepted
       /\ status = "Resolved" /\ s.outcome # winner => Settlement(p[i]) = 0
       /\ status = "Resolved" /\ s.outcome = winner => Settlement(p[i]) >= s.accepted
  <2>1. status = "Voided" => Settlement(p[i]) = s.accepted
    BY <1>6 DEF Settlement
  <2>2. status = "Resolved" /\ s.outcome # winner => Settlement(p[i]) = 0
    BY <1>6 DEF Settlement, Wins
  <2>3. status = "Resolved" /\ s.outcome = winner => p[i].accepted <= Settlement(p[i])
    BY <1>4, <1>5, <1>6, WinnerKeepsPrincipal
  <2> QED BY <1>4, <1>6, <2>1, <2>2, <2>3
<1> QED BY <1>1, <1>6, <1>7, <1>10, <1>11, <1>12, <1>13, <1>14 DEF Settler!Claim, s

(* claimResidue: every winner is paid by then, so what is left is the remainders
   the losers have not pulled, which is all that anybody is owed. *)
LEMMA ClaimResidueImplements ==
  ASSUME RInv, (IInv /\ MoneyInv)', NEW u, ClaimResidue(u)
  PROVE  Settler!ClaimResidue /\ EntryInv'
<1> DEFINE live == StillLive(positions, winner)
           rest == Unpulled(positions)
           paid == PaidOn(books, positions, winner)
           pays == PaysOn(books, positions, winner)
<1>1. /\ status = "Resolved" /\ books[winner].live = 0 /\ residueClaimed = FALSE
      /\ residueClaimed' = TRUE /\ escrow' = escrow - (acceptedPool - paidOut)
      /\ status' = status /\ winner' = winner /\ positions' = positions
  BY DEF ClaimResidue, settleVars, ledgerVars, RInv, IInv, TypeOK
<1>2. /\ IInv /\ MoneyInv /\ EntryInv /\ Settled /\ winner \in Outcomes
      /\ positions \in Seq(Position) /\ Count = Len(positions) /\ Count \in Nat
      /\ escrow \in Int /\ acceptedPool \in Nat /\ paidOut \in Nat
  BY <1>1, SeqIsFun DEF RInv, IInv, TypeOK, Count, Settled
<1>3. /\ LedgerType /\ LedgerOK(books, positions, acceptedPool, pending)
      /\ books \in [Outcomes -> Book] /\ RefundOK(positions)
  BY <1>1, <1>2, LedgerTyped DEF LedgerType, MoneyInv
<1>4. /\ escrow = Sum(rest, Count) + (acceptedPool - paidOut)
      /\ paidOut = Sum(paid, Count) /\ books[winner].live = Sum(live, Count)
  BY <1>1, <1>2 DEF MoneyInv
<1>5. ASSUME NEW i \in 1..Count
      PROVE  /\ live[i] \in Nat /\ rest[i] \in Nat /\ rest[i] = Remainder(positions[i])
             /\ pays[i] \in Nat /\ paid[i] \in Nat /\ paid[i] <= pays[i]
  <2>1. pays[i] \in Nat
    BY <1>2, <1>3, PaysNat
  <2>2. paid[i] \in Nat /\ paid[i] <= pays[i]
    BY <1>2, <2>1 DEF PaidOn
  <2> QED BY <1>2, <1>3, <2>1, <2>2, JoinedNat, RemainderNat
<1>6. ASSUME NEW i \in 1..Count
      PROVE  positions[i].outcome = winner /\ positions[i].accepted > 0 => positions[i].claimed
  <2>1. live[i] <= 0 /\ live[i] \in Nat
    <3> HIDE DEF live
    <3> QED BY <1>1, <1>2, <1>4, <1>5, SumMember
  <2>2. live[i] = 0
    BY <2>1
  <2> QED BY <1>2, <2>2 DEF StillLive, Joined
<1>7. Len(StakesOf) = Count /\ StakesOf' = StakesOf
  BY <1>1, <1>2, ViewsAreStakes, ViewsAreList DEF StakesOf, Count
<1>8. ASSUME NEW i \in 1..Count
      PROVE  /\ StakesOf[i].outcome = winner /\ StakesOf[i].accepted > 0 => StakesOf[i].claimed
             /\ Settler!Owed(StakesOf[i]) = rest[i]
  <2>1. positions[i] \in Position /\ positions[i].accepted \in Nat /\ positions[i].finalized
    BY <1>1, <1>2, <1>3, PositionAt DEF IInv, VintageInv, LedgerOK, PendingOK
  <2>2. /\ StakesOf[i].undecided = 0 /\ StakesOf[i].remainder = rest[i]
        /\ StakesOf[i].accepted = positions[i].accepted
        /\ StakesOf[i].outcome = positions[i].outcome
        /\ StakesOf[i].claimed = positions[i].claimed
    BY <1>2, <1>5, <2>1 DEF StakesOf, OfferPending
  <2>3. Settler!Owed(StakesOf[i]) = 0 + rest[i] + 0
    <3>1. StakesOf[i].claimed \/ StakesOf[i].outcome # winner \/ StakesOf[i].accepted = 0
      BY <1>6, <2>1, <2>2
    <3> HIDE DEF rest
    <3> QED BY <1>1, <2>2, <3>1 DEF Settler!Owed
  <2> QED BY <1>5, <1>6, <2>2, <2>3
<1>9. Settler!TotalOwed = Sum(rest, Count)
  <2> DEFINE owed == [i \in 1..Count |-> Settler!Owed(StakesOf[i])]
  <2>1. \A i \in 1..Count : owed[i] = rest[i]
    BY <1>8
  <2>2. Settler!TotalOwed = Sum(owed, Count)
    BY <1>7, SameSum DEF Settler!TotalOwed
  <2> HIDE DEF owed, rest
  <2> QED BY ONLY <1>2, <2>1, <2>2, SumEq
<1>10. paidOut <= acceptedPool
  <2>1. Sum(pays, Count) \in Nat /\ Sum(pays, Count) <= acceptedPool
    BY <1>2, <1>3, PaysWithinPool
  <2> HIDE DEF pays, paid
  <2>2. Sum(paid, Count) <= Sum(pays, Count)
    BY ONLY <1>2, <1>5, SumLe
  <2>3. Sum(paid, Count) \in Nat
    BY ONLY <1>2, <1>5, SumNat
  <2> QED BY <1>2, <1>4, <2>1, <2>2, <2>3
<1>11. escrow' = Sum(rest, Count) /\ escrow' <= escrow
  <2>1. Sum(rest, Count) \in Nat
    <3> HIDE DEF rest
    <3> QED BY ONLY <1>2, <1>5, SumNat
  <2> QED BY <1>1, <1>2, <1>4, <1>10, <2>1
<1>12. EntryInv'
  BY <1>1, <1>2 DEF EntryInv
<1> QED BY <1>1, <1>7, <1>8, <1>9, <1>11, <1>12 DEF Settler!ClaimResidue

(* Who owns a position, and what the clock says, is nothing to the interface. *)
LEMMA TransferImplements ==
  ASSUME RInv, NEW u \in Users, NEW to \in Users, NEW i \in 1..Count,
         TransferPosition(u, i, to)
  PROVE  UNCHANGED Settler!settlerVars /\ EntryInv'
<1>1. /\ positions' = [positions EXCEPT ![i].owner = to]
      /\ status' = status /\ winner' = winner /\ escrow' = escrow
      /\ residueClaimed' = residueClaimed
  BY DEF TransferPosition, settleVars
<1>2. positions \in Seq(Position) /\ Count = Len(positions)
      /\ positions \in [1..Count -> Position] /\ Count \in Nat /\ EntryInv
  BY SeqIsFun DEF RInv, IInv, TypeOK, Count
<1>3. positions' \in Seq(Position) /\ Len(positions') = Count /\ Count' = Count
  <2>1. [positions[i] EXCEPT !.owner = to] \in Position
    <3>1. positions[i] \in Position
      BY <1>2
    <3> QED BY <3>1 DEF Position
  <2>2. positions' \in [1..Count -> Position]
    BY <1>1, <1>2, <2>1
  <2> QED BY <1>2, <2>2, FunIsSeq DEF Count
<1>4. ASSUME NEW j \in 1..Count
      PROVE  /\ View(positions'[j]) = View(positions[j])
             /\ ~positions'[j].finalized => positions'[j].offered > 0
             /\ positions'[j].claimed => positions'[j].refunded
  <2>1. positions'[j] = positions[j] \/ positions'[j] = [positions[j] EXCEPT !.owner = to]
    BY <1>1, <1>2
  <2>2. positions[j] \in Position
    BY <1>2
  <2>3. /\ positions'[j].outcome = positions[j].outcome
        /\ positions'[j].offered = positions[j].offered
        /\ positions'[j].accepted = positions[j].accepted
        /\ positions'[j].finalized = positions[j].finalized
        /\ positions'[j].refunded = positions[j].refunded
        /\ positions'[j].claimed = positions[j].claimed
    BY <2>1, <2>2 DEF Position
  <2> QED BY <1>2, <2>3 DEF View, OfferPending, Remainder, EntryInv, EntryOK
<1>5. StakesOf' = StakesOf
  BY <1>3, <1>4 DEF StakesOf, View
<1>6. EntryInv'
  BY <1>3, <1>4 DEF EntryInv, EntryOK
<1> QED BY <1>1, <1>5, <1>6 DEF Settler!settlerVars

LEMMA NextBlockImplements ==
  ASSUME RInv, UNCHANGED <<settleVars, positions, escrow, residueClaimed>>
  PROVE  UNCHANGED Settler!settlerVars /\ EntryInv'
BY DEF Settler!settlerVars, StakesOf, Count, RInv, EntryInv, settleVars

-----------------------------------------------------------------------------
(* The refinement.                                                          *)

LEMMA InitImplements == Init => RInv /\ Settler!Init
<1> SUFFICES ASSUME Init PROVE RInv /\ Settler!Init
  OBVIOUS
<1>1. IInv /\ MoneyInv
  BY InitInv, MoneyInit
<1>2. /\ positions = <<>> /\ status = "None" /\ winner = 0 /\ escrow = 0
      /\ residueClaimed = FALSE
  BY DEF Init
<1>3. EntryInv
  BY <1>2 DEF EntryInv, EntryOK
<1>4. StakesOf = <<>>
  BY <1>2 DEF StakesOf, Count
<1> QED BY <1>1, <1>2, <1>3, <1>4 DEF RInv, Settler!Init

LEMMA StepImplements ==
  RInv /\ [Next]_vars => RInv' /\ [Settler!Next]_(Settler!settlerVars)
<1> SUFFICES ASSUME RInv, [Next]_vars
             PROVE  RInv' /\ [Settler!Next]_(Settler!settlerVars)
  OBVIOUS
<1>1. (IInv /\ MoneyInv)'
  BY StepInv, MoneyStep DEF RInv
<1> SUFFICES EntryInv' /\ [Settler!Next]_(Settler!settlerVars)
  BY <1>1 DEF RInv
<1>2. ASSUME NEW seed \in Seeds, NEW k \in Kappas, Create(seed, k)
      PROVE  EntryInv' /\ Settler!Next
  BY <1>2, CreateImplements DEF Settler!Next
<1>3. ASSUME NEW u \in Users, NEW o \in Outcomes, NEW amount \in Amounts, Enter(u, o, amount)
      PROVE  EntryInv' /\ Settler!Next
  BY <1>3, EnterImplements DEF Settler!Next
<1>4. CASE FinalizeVintage
  BY <1>4, FinalizeVintageImplements
<1>5. ASSUME NEW u \in Users \cup {Resolver}, NEW w \in Outcomes, Resolve(u, w)
      PROVE  EntryInv' /\ Settler!Next
  <2>1. Settler!Settle /\ EntryInv'
    BY <1>1, <1>5, SettleImplements DEF Resolve
  <2> QED BY <2>1 DEF Settler!Next
<1>6. ASSUME NEW u \in Users \cup {Resolver}, VoidMarket(u)
      PROVE  EntryInv' /\ Settler!Next
  <2>1. Settler!Settle /\ EntryInv'
    BY <1>1, <1>6, SettleImplements DEF VoidMarket
  <2> QED BY <2>1 DEF Settler!Next
<1>7. ASSUME NEW u \in Users, NEW i \in 1..Count, WithdrawRefund(u, i)
      PROVE  EntryInv' /\ Settler!Next
  BY <1>7, WithdrawRefundImplements DEF Settler!Next
<1>8. ASSUME NEW u \in Users, NEW i \in 1..Count, Claim(u, i)
      PROVE  EntryInv' /\ Settler!Next
  BY <1>1, <1>8, ClaimImplements DEF Settler!Next
<1>9. ASSUME NEW u \in Users, ClaimResidue(u)
      PROVE  EntryInv' /\ Settler!Next
  BY <1>1, <1>9, ClaimResidueImplements DEF Settler!Next
<1>10. ASSUME NEW u \in Users, NEW to \in Users, NEW i \in 1..Count, TransferPosition(u, i, to)
       PROVE  EntryInv' /\ [Settler!Next]_(Settler!settlerVars)
  BY <1>10, TransferImplements
<1>11. CASE NextBlock
  BY <1>11, NextBlockImplements DEF NextBlock, ledgerVars
<1>12. CASE UNCHANGED vars
  BY <1>12, NextBlockImplements DEF vars, ledgerVars
<1> QED BY <1>2, <1>3, <1>4, <1>5, <1>6, <1>7, <1>8, <1>9, <1>10, <1>11, <1>12 DEF Next

(* The vesting settler keeps every promise of IParimutuelSettler on every market:
   an offer is decided once and split exactly, a stake is paid once, a winner gets
   its principal at least and a void exactly gives it back, and no payment leaves
   less in the balance than is still owed. *)
THEOREM VestedImplementsSettler == Spec => ImplementsSettler
<1>1. Init => RInv /\ Settler!Init
  BY InitImplements
<1>2. RInv /\ [Next]_vars => RInv' /\ [Settler!Next]_(Settler!settlerVars)
  BY StepImplements
<1> QED BY <1>1, <1>2, PTL DEF Spec, ImplementsSettler, Settler!Spec

=============================================================================
