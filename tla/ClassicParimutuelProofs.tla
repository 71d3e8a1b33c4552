---------------------- MODULE ClassicParimutuelProofs ----------------------
(***************************************************************************)
(* That the classic settler implements the settlement interface, whatever  *)
(* the number of outcomes, the stakes and the order of calls: its books    *)
(* and its balance count its stakes, the floors of the shares of a branch  *)
(* add up to no more than the pool, and so every claim can be paid.        *)
(***************************************************************************)
EXTENDS ClassicParimutuel, SumTheorems

-----------------------------------------------------------------------------
(* The lists the books and the balance count, over any positions p.        *)

Staked(p) == [i \in 1..Len(p) |-> p[i].accepted]
StakedOn(p, w) == [i \in 1..Len(p) |-> IF p[i].outcome = w THEN p[i].accepted ELSE 0]
Unclaimed(p) == [i \in 1..Len(p) |-> IF p[i].claimed THEN 0 ELSE p[i].accepted]
StillLive(p, w) == [i \in 1..Len(p) |-> IF p[i].outcome = w /\ ~p[i].claimed THEN 1 ELSE 0]

(* What the stakes are paid of a pool when w wins with so much principal. *)
SharesOf(p, w, pool, principal) ==
  [i \in 1..Len(p) |-> IF p[i].outcome = w THEN (pool * p[i].accepted) \div principal ELSE 0]
PaidOf(p, w, pool, principal) ==
  [i \in 1..Len(p) |-> IF p[i].claimed THEN SharesOf(p, w, pool, principal)[i] ELSE 0]

(* No stake is empty; books and pool are the sums of the stakes; live counts the
   unclaimed ones. *)
LedgerOK(b, p, pool) ==
  /\ \A i \in 1..Len(p) : p[i].accepted > 0
  /\ pool = Sum(Staked(p), Len(p))
  /\ \A w \in Outcomes : /\ b[w].principal > 0
                         /\ b[w].principal = Sum(StakedOn(p, w), Len(p))
                         /\ b[w].live = Sum(StillLive(p, w), Len(p))

TypeOK ==
  /\ status \in {"None", "Open", "Resolved", "Voided"}
  /\ winner \in IF status = "Resolved" THEN Outcomes ELSE {0}
  /\ books \in [Outcomes -> Book]
  /\ positions \in Seq(Position)
  /\ acceptedPool \in Nat /\ paidOut \in Nat /\ residueClaimed \in BOOLEAN /\ escrow \in Int

LedgerInv ==
  IF status = "None" THEN positions = <<>> /\ acceptedPool = 0 /\ escrow = 0
  ELSE LedgerOK(books, positions, acceptedPool)

(* An open market holds its pool, a void one the unclaimed stakes, a resolved one
   what it has not paid, and nothing once the residue is gone. *)
MoneyInv ==
  /\ status # "Resolved" => paidOut = 0 /\ ~residueClaimed
  /\ status = "Open" => /\ escrow = acceptedPool
                        /\ \A i \in 1..Count : ~positions[i].claimed
  /\ status = "Voided" => escrow = Sum(Unclaimed(positions), Count)
  /\ status = "Resolved" =>
       /\ escrow = IF residueClaimed THEN 0 ELSE acceptedPool - paidOut
       /\ paidOut = Sum(PaidOf(positions, winner, acceptedPool, books[winner].principal), Count)
       /\ residueClaimed => \A i \in 1..Count : StillLive(positions, winner)[i] = 0

CInv == TypeOK /\ LedgerInv /\ MoneyInv

-----------------------------------------------------------------------------
(* Arithmetic of a share.                                                  *)

(* A share of the pool is a natural number, no smaller than the stake. *)
LEMMA ShareAtLeastStake ==
  ASSUME NEW pool \in Nat, NEW stake \in Nat, NEW principal \in Nat, principal > 0,
         principal <= pool
  PROVE  /\ (pool * stake) \div principal \in Nat
         /\ stake <= (pool * stake) \div principal
         /\ principal * ((pool * stake) \div principal) <= pool * stake
<1>1. pool * stake \in Nat
  OBVIOUS
<1>2. principal * stake <= pool * stake
  <2>1. PICK d \in Nat : pool = principal + d
    <3>1. pool - principal \in Nat /\ pool = principal + (pool - principal)
      OBVIOUS
    <3> QED BY <3>1
  <2>2. pool * stake = principal * stake + d * stake
    BY <2>1
  <2>3. d * stake \in Nat /\ principal * stake \in Nat
    OBVIOUS
  <2> QED BY <2>2, <2>3
<1> QED BY <1>1, <1>2, DivType, QuotientAtLeast

-----------------------------------------------------------------------------
(* What the lists hold.                                                    *)

LEMMA StakeAt ==
  ASSUME NEW p \in Seq(Position), NEW i \in 1..Len(p), NEW w
  PROVE  /\ p[i] \in Position /\ p[i].outcome \in Outcomes /\ p[i].accepted \in Nat
         /\ Staked(p)[i] \in Nat /\ StakedOn(p, w)[i] \in Nat /\ Unclaimed(p)[i] \in Nat
         /\ StillLive(p, w)[i] \in Nat
<1>1. p[i] \in Position
  BY SeqIsFun
<1>2. p[i].outcome \in Outcomes /\ p[i].accepted \in Nat
  BY <1>1 DEF Position
<1> QED BY <1>1, <1>2 DEF Staked, StakedOn, Unclaimed, StillLive

LEMMA SharesAt ==
  ASSUME NEW p \in Seq(Position), NEW i \in 1..Len(p), NEW w, NEW pool \in Nat,
         NEW principal \in Nat, principal > 0
  PROVE  /\ SharesOf(p, w, pool, principal)[i] \in Nat
         /\ PaidOf(p, w, pool, principal)[i] \in Nat
         /\ PaidOf(p, w, pool, principal)[i] <= SharesOf(p, w, pool, principal)[i]
         /\ principal * SharesOf(p, w, pool, principal)[i] <= pool * StakedOn(p, w)[i]
<1>1. p[i].accepted \in Nat
  BY StakeAt
<1>2. pool * p[i].accepted \in Nat
  BY <1>1
<1>3. /\ (pool * p[i].accepted) \div principal \in Nat
      /\ principal * ((pool * p[i].accepted) \div principal) <= pool * p[i].accepted
  BY <1>2, DivType
<1>4. principal * 0 <= pool * 0
  OBVIOUS
<1>5. CASE p[i].outcome = w
  BY <1>3, <1>5 DEF SharesOf, PaidOf, StakedOn
<1>6. CASE p[i].outcome # w
  BY <1>4, <1>6 DEF SharesOf, PaidOf, StakedOn
<1> QED BY <1>5, <1>6

(* The stakes on one outcome are part of the pool. *)
LEMMA PrincipalWithinPool ==
  ASSUME NEW p, p \in Seq(Position), NEW w
  PROVE  Sum(StakedOn(p, w), Len(p)) <= Sum(Staked(p), Len(p))
<1> DEFINE on == StakedOn(p, w)
           all == Staked(p)
<1>1. Len(p) \in Nat
  BY SeqIsFun
<1>2. \A i \in 1..Len(p) : on[i] \in Nat /\ all[i] \in Nat /\ on[i] <= all[i]
  BY StakeAt DEF StakedOn, Staked
<1> HIDE DEF on, all
<1> QED BY ONLY <1>1, <1>2, SumLe DEF on, all

(* The floors of the shares of a branch never exceed the pool. *)
LEMMA SharesWithinPool ==
  ASSUME NEW p, p \in Seq(Position), NEW w, NEW pool, pool \in Nat,
         NEW principal, principal \in Nat, principal > 0,
         principal = Sum(StakedOn(p, w), Len(p))
  PROVE  /\ Sum(SharesOf(p, w, pool, principal), Len(p)) \in Nat
         /\ Sum(SharesOf(p, w, pool, principal), Len(p)) <= pool
<1> DEFINE on == StakedOn(p, w)
           share == SharesOf(p, w, pool, principal)
           up == [i \in 1..Len(p) |-> principal * share[i]]
           due == [i \in 1..Len(p) |-> pool * on[i]]
<1>1. Len(p) \in Nat /\ pool \in Nat /\ principal \in Nat /\ principal > 0
  BY SeqIsFun
<1>2. \A i \in 1..Len(p) : on[i] \in Nat /\ share[i] \in Nat /\ principal * share[i] <= pool * on[i]
  BY StakeAt, SharesAt
<1>3. principal = Sum(on, Len(p))
  OBVIOUS
<1> HIDE DEF on, share
<1>4. \A i \in 1..Len(p) : /\ up[i] \in Nat /\ up[i] = principal * share[i] /\ share[i] \in Nat
                           /\ due[i] \in Nat /\ due[i] = pool * on[i] /\ on[i] \in Nat
                           /\ up[i] <= due[i]
  <2>1. \A x, y \in Nat : x * y \in Nat
    OBVIOUS
  <2> QED BY <1>1, <1>2, <2>1
<1> HIDE DEF up, due
<1>5. Sum(up, Len(p)) = principal * Sum(share, Len(p))
  BY ONLY <1>1, <1>4, SumScale
<1>6. Sum(due, Len(p)) = pool * principal
  BY ONLY <1>1, <1>3, <1>4, SumScale
<1>7. Sum(up, Len(p)) <= Sum(due, Len(p))
  BY ONLY <1>1, <1>4, SumLe
<1>8. Sum(share, Len(p)) \in Nat
  BY ONLY <1>1, <1>4, SumNat
<1>9. ASSUME NEW x \in Nat, principal * x <= pool * principal PROVE x <= pool
  BY <1>1, <1>9
<1>10. Sum(share, Len(p)) <= pool
  BY <1>5, <1>6, <1>7, <1>8, <1>9
<1> QED BY <1>8, <1>10 DEF share

-----------------------------------------------------------------------------
(* Creation and entries.                                                   *)

(* create: every outcome is seeded by one stake of its own. *)
LEMMA LedgerSeed ==
  ASSUME NEW seed \in [1..N -> Nat], \A o \in Outcomes : seed[o] # 0,
         NEW b, b = [o \in Outcomes |-> [principal |-> seed[o], live |-> 1]],
         NEW p, p = [o \in Outcomes |-> NewPosition(Creator, o, seed[o])]
  PROVE  /\ Sum(seed, N) \in Nat /\ b \in [Outcomes -> Book]
         /\ p \in Seq(Position) /\ Len(p) = N /\ \A i \in 1..N : ~p[i].claimed
         /\ LedgerOK(b, p, Sum(seed, N))
<1>1. N \in Nat /\ Outcomes = 1..N
  BY OutcomeAssumption DEF Outcomes
<1>2. ASSUME NEW i \in 1..N
      PROVE  /\ p[i].outcome = i /\ p[i].accepted = seed[i] /\ seed[i] \in Nat /\ seed[i] > 0
             /\ ~p[i].claimed /\ p[i] \in Position
  <2>1. seed[i] \in Nat /\ seed[i] # 0 /\ p[i] = NewPosition(Creator, i, seed[i])
    BY <1>1
  <2>2. Creator \in Users /\ i \in Outcomes
    BY <1>1, UserAssumption
  <2> QED BY <2>1, <2>2 DEF NewPosition, Position
<1>3. p \in [1..N -> Position]
  BY <1>1, <1>2
<1>4. p \in Seq(Position) /\ Len(p) = N
  BY <1>1, <1>3, FunIsSeq
<1>5. Sum(Staked(p), N) = Sum(seed, N)
  <2>1. \A i \in 1..N : Staked(p)[i] = seed[i]
    BY <1>2, <1>4 DEF Staked
  <2> QED BY <1>1, <2>1, SumEq
<1>6. Sum(seed, N) \in Nat
  BY <1>1, SumNat
<1>7. ASSUME NEW w \in Outcomes
      PROVE  /\ b[w] \in Book /\ b[w].principal > 0
             /\ b[w].principal = Sum(StakedOn(p, w), N) /\ b[w].live = Sum(StillLive(p, w), N)
  <2>1. b[w] = [principal |-> seed[w], live |-> 1] /\ seed[w] \in Nat /\ seed[w] > 0
    BY <1>1, <1>2
  <2>2. Sum(StakedOn(p, w), N) = seed[w]
    <3>1. \A i \in 1..N : StakedOn(p, w)[i] = IF i = w THEN seed[w] ELSE 0
      BY <1>1, <1>2, <1>4 DEF StakedOn
    <3> QED BY <1>1, <2>1, <3>1, SumSingle
  <2>3. Sum(StillLive(p, w), N) = 1
    <3>1. \A i \in 1..N : StillLive(p, w)[i] = IF i = w THEN 1 ELSE 0
      BY <1>1, <1>2, <1>4 DEF StillLive
    <3>2. 1 \in Nat
      OBVIOUS
    <3> QED BY ONLY <1>1, <3>1, <3>2, w \in Outcomes, SumSingle
  <2>4. b[w].principal = seed[w] /\ b[w].live = 1 /\ b[w] \in Book
    BY <2>1 DEF Book
  <2> QED BY <2>1, <2>2, <2>3, <2>4
<1>8. b \in [Outcomes -> Book]
  BY <1>7
<1>9. LedgerOK(b, p, Sum(seed, N))
  <2>1. \A i \in 1..Len(p) : p[i].accepted > 0
    <3>1. \A i \in 1..N : p[i].accepted > 0
      BY <1>2
    <3> QED BY ONLY <1>4, <3>1
  <2>2. Sum(seed, N) = Sum(Staked(p), Len(p))
    BY ONLY <1>4, <1>5
  <2>3. \A w \in Outcomes : /\ b[w].principal > 0
                            /\ b[w].principal = Sum(StakedOn(p, w), Len(p))
                            /\ b[w].live = Sum(StillLive(p, w), Len(p))
    BY ONLY <1>4, <1>7
  <2> QED BY ONLY <2>1, <2>2, <2>3 DEF LedgerOK
<1> QED BY <1>2, <1>4, <1>6, <1>8, <1>9

LEMMA BookedMoves ==
  ASSUME books \in [Outcomes -> Book], NEW o \in Outcomes, NEW amount \in Nat
  PROVE  /\ Booked(o, amount) \in [Outcomes -> Book]
         /\ Booked(o, amount)[o].principal = books[o].principal + amount
         /\ Booked(o, amount)[o].live = books[o].live + 1
         /\ \A w \in Outcomes : w # o => Booked(o, amount)[w] = books[w]
<1> DEFINE new == [books[o] EXCEPT !.principal = books[o].principal + amount,
                                   !.live = books[o].live + 1]
<1>1. books[o] \in Book /\ books[o].principal \in Nat /\ books[o].live \in Int
  BY DEF Book
<1>2. Booked(o, amount) = [books EXCEPT ![o] = new]
  BY DEF Booked
<1>3. new \in Book /\ new.principal = books[o].principal + amount /\ new.live = books[o].live + 1
  <2>1. books[o].principal + amount \in Nat /\ books[o].live + 1 \in Int
    BY <1>1
  <2> QED BY <1>1, <2>1 DEF Book
<1> HIDE DEF new
<1> QED BY <1>2, <1>3

(* enter: the stake is booked at once, in full. *)
LEMMA LedgerAppend ==
  ASSUME NEW b \in [Outcomes -> Book], NEW p \in Seq(Position), NEW pool \in Nat,
         LedgerOK(b, p, pool),
         NEW e \in Position, e.accepted > 0, ~e.claimed,
         NEW o \in Outcomes, o = e.outcome, NEW amount \in Nat, amount = e.accepted,
         NEW b2 \in [Outcomes -> Book],
         b2[o].principal = b[o].principal + amount, b2[o].live = b[o].live + 1,
         \A w \in Outcomes : w # o => b2[w] = b[w]
  PROVE  LedgerOK(b2, Append(p, e), pool + e.accepted)
<1> DEFINE n == Len(p)
           q == Append(p, e)
<1>1. /\ n \in Nat /\ q \in Seq(Position) /\ Len(q) = n + 1 /\ q[n + 1] = e
      /\ \A i \in 1..n : q[i] = p[i]
  BY SeqIsFun, AppendIsFun
<1>2. e.accepted \in Nat /\ e.outcome \in Outcomes
  BY DEF Position
<1> HIDE DEF q
<1>3. b[o].principal \in Nat /\ b[o].live \in Int
  BY DEF Book
<1>4. Sum(Staked(q), n + 1) = pool + e.accepted
  <2>1. Sum(Staked(q), n) = Sum(Staked(p), n)
    <3>1. \A i \in 1..n : Staked(q)[i] = Staked(p)[i]
      BY <1>1 DEF Staked
    <3> QED BY <1>1, <3>1, SumEq
  <2>2. Staked(q)[n + 1] = e.accepted
    BY <1>1 DEF Staked
  <2>3. Sum(Staked(q), n + 1) = Sum(Staked(q), n) + Staked(q)[n + 1]
    BY <1>1, SumStep
  <2>4. pool = Sum(Staked(p), n)
    BY DEF LedgerOK
  <2> QED BY ONLY <2>1, <2>2, <2>3, <2>4
<1>5. ASSUME NEW w \in Outcomes
      PROVE  /\ Sum(StakedOn(q, w), n + 1)
                  = b[w].principal + (IF w = e.outcome THEN e.accepted ELSE 0)
             /\ Sum(StillLive(q, w), n + 1) = b[w].live + (IF w = e.outcome THEN 1 ELSE 0)
  <2>1. Sum(StakedOn(q, w), n) = Sum(StakedOn(p, w), n)
    <3>1. \A i \in 1..n : StakedOn(q, w)[i] = StakedOn(p, w)[i]
      BY <1>1 DEF StakedOn
    <3> QED BY <1>1, <3>1, SumEq
  <2>2. Sum(StillLive(q, w), n) = Sum(StillLive(p, w), n)
    <3>1. \A i \in 1..n : StillLive(q, w)[i] = StillLive(p, w)[i]
      BY <1>1 DEF StillLive
    <3> QED BY <1>1, <3>1, SumEq
  <2>3. /\ StakedOn(q, w)[n + 1] = IF w = e.outcome THEN e.accepted ELSE 0
        /\ StillLive(q, w)[n + 1] = IF w = e.outcome THEN 1 ELSE 0
    BY <1>1 DEF StakedOn, StillLive
  <2>4. Sum(StakedOn(p, w), n) = b[w].principal /\ Sum(StillLive(p, w), n) = b[w].live
    BY DEF LedgerOK
  <2>5. /\ Sum(StakedOn(q, w), n + 1) = Sum(StakedOn(q, w), n) + StakedOn(q, w)[n + 1]
        /\ Sum(StillLive(q, w), n + 1) = Sum(StillLive(q, w), n) + StillLive(q, w)[n + 1]
    BY <1>1, SumStep
  <2> QED BY ONLY <2>1, <2>2, <2>3, <2>4, <2>5
<1>6. \A i \in 1..(n + 1) : q[i].accepted > 0
  BY <1>1 DEF LedgerOK
<1>7. ASSUME NEW w \in Outcomes
      PROVE  /\ b2[w].principal > 0
             /\ b2[w].principal = Sum(StakedOn(q, w), n + 1)
             /\ b2[w].live = Sum(StillLive(q, w), n + 1)
  <2>1. /\ b[w].principal > 0 /\ b[w].principal \in Nat /\ b[w].live \in Int
    BY DEF LedgerOK, Book
  <2> QED BY <1>2, <1>3, <1>5, <2>1
<1> QED BY <1>1, <1>3, <1>4, <1>6, <1>7 DEF LedgerOK, q

(* Lists that differ only in who owns the stakes count the same. *)
LEMMA SameLists ==
  ASSUME NEW p \in Seq(Position), NEW q \in Seq(Position), Len(q) = Len(p),
         \A i \in 1..Len(p) : /\ q[i].outcome = p[i].outcome
                              /\ q[i].accepted = p[i].accepted
                              /\ q[i].claimed = p[i].claimed
  PROVE  /\ Staked(q) = Staked(p) /\ Unclaimed(q) = Unclaimed(p)
         /\ \A w : /\ StakedOn(q, w) = StakedOn(p, w) /\ StillLive(q, w) = StillLive(p, w)
                   /\ \A pool, principal :
                        PaidOf(q, w, pool, principal) = PaidOf(p, w, pool, principal)
<1>1. Staked(q) = Staked(p) /\ Unclaimed(q) = Unclaimed(p)
  BY DEF Staked, Unclaimed
<1>2. ASSUME NEW w PROVE StakedOn(q, w) = StakedOn(p, w) /\ StillLive(q, w) = StillLive(p, w)
  BY DEF StakedOn, StillLive
<1>3. ASSUME NEW w, NEW pool, NEW principal
      PROVE  PaidOf(q, w, pool, principal) = PaidOf(p, w, pool, principal)
  <2>1. SharesOf(q, w, pool, principal) = SharesOf(p, w, pool, principal)
    BY DEF SharesOf
  <2> QED BY <2>1 DEF PaidOf
<1> QED BY <1>1, <1>2, <1>3

LEMMA ReleasedMoves ==
  ASSUME books \in [Outcomes -> Book], NEW p \in Position, p.accepted > 0
  PROVE  /\ Released(p) \in [Outcomes -> Book]
         /\ Released(p)[p.outcome].principal = books[p.outcome].principal
         /\ Released(p)[p.outcome].live = books[p.outcome].live - 1
         /\ \A w \in Outcomes : w # p.outcome => Released(p)[w] = books[w]
<1> DEFINE new == [books[p.outcome] EXCEPT !.live = books[p.outcome].live - 1]
<1>1. p.outcome \in Outcomes
  BY DEF Position
<1>2. books[p.outcome] \in Book /\ books[p.outcome].live \in Int
  BY <1>1 DEF Book
<1>3. Released(p) = [books EXCEPT ![p.outcome] = new]
  BY <1>1 DEF Released
<1>4. new \in Book /\ new.principal = books[p.outcome].principal /\ new.live = books[p.outcome].live - 1
  BY <1>2 DEF Book
<1> HIDE DEF new
<1> QED BY <1>1, <1>3, <1>4

(* q is p, but that stake i is claimed. *)
ClaimedAt(q, p, i) ==
  /\ q \in Seq(Position) /\ Len(q) = Len(p)
  /\ \A j \in 1..Len(p) : j # i => q[j] = p[j]
  /\ q[i].outcome = p[i].outcome /\ q[i].accepted = p[i].accepted /\ q[i].claimed

LEMMA ClaimMarks ==
  ASSUME positions \in Seq(Position), NEW i \in 1..Len(positions),
         positions' = [positions EXCEPT ![i].claimed = TRUE]
  PROVE  ClaimedAt(positions', positions, i)
<1> DEFINE n == Len(positions)
<1>1. positions \in [1..n -> Position] /\ n \in Nat /\ positions[i] \in Position
  BY SeqIsFun, StakeAt
<1>2. [positions[i] EXCEPT !.claimed = TRUE] \in Position
  BY <1>1 DEF Position
<1>3. positions' \in [1..n -> Position]
  BY <1>1, <1>2
<1>4. /\ positions' \in Seq(Position) /\ Len(positions') = n
      /\ \A j \in 1..n : j # i => positions'[j] = positions[j]
      /\ positions'[i] = [positions[i] EXCEPT !.claimed = TRUE]
  BY <1>1, <1>3, FunIsSeq
<1>5. /\ positions'[i].outcome = positions[i].outcome /\ positions'[i].claimed
      /\ positions'[i].accepted = positions[i].accepted
  BY <1>1, <1>4 DEF Position
<1> QED BY <1>4, <1>5 DEF ClaimedAt

(* claim: the stake leaves the live ones of its outcome and nothing else moves. *)
LEMMA LedgerClaim ==
  ASSUME NEW b \in [Outcomes -> Book], NEW p \in Seq(Position), NEW pool \in Nat,
         LedgerOK(b, p, pool), NEW i \in 1..Len(p), ~p[i].claimed,
         NEW q, ClaimedAt(q, p, i),
         NEW b2 \in [Outcomes -> Book],
         b2[p[i].outcome].principal = b[p[i].outcome].principal,
         b2[p[i].outcome].live = b[p[i].outcome].live - 1,
         \A w \in Outcomes : w # p[i].outcome => b2[w] = b[w]
  PROVE  LedgerOK(b2, q, pool)
<1> DEFINE o == p[i].outcome
           n == Len(p)
<1>1. p \in [1..n -> Position] /\ n \in Nat /\ p[i] \in Position /\ o \in Outcomes
  BY SeqIsFun, StakeAt
<1>4. q \in Seq(Position) /\ Len(q) = n /\ \A j \in 1..n : j # i => q[j] = p[j]
  BY DEF ClaimedAt
<1>5. q[i].outcome = o /\ q[i].accepted = p[i].accepted /\ q[i].claimed
  BY DEF ClaimedAt
<1>6. /\ \A w \in Outcomes : b2[w].principal = b[w].principal
      /\ \A w \in Outcomes : w # o => b2[w].live = b[w].live
      /\ b2[o].live = b[o].live - 1
  OBVIOUS
<1> HIDE DEF o
<1>7. /\ Staked(q) = Staked(p) /\ \A w : StakedOn(q, w) = StakedOn(p, w)
  <2>1. \A j \in 1..n : q[j].outcome = p[j].outcome /\ q[j].accepted = p[j].accepted
    BY <1>4, <1>5 DEF o
  <2> QED BY <1>4, <2>1 DEF Staked, StakedOn
<1>8. ASSUME NEW w \in Outcomes PROVE b2[w].live = Sum(StillLive(q, w), n)
  <2> DEFINE f == StillLive(p, w)
             g == StillLive(q, w)
  <2>1. \A j \in 1..n : f[j] \in Nat /\ g[j] \in Nat
    BY <1>4 DEF StillLive
  <2>2. \A j \in 1..n : j # i => g[j] = f[j]
    BY <1>4 DEF StillLive
  <2>3. f[i] = (IF o = w THEN 1 ELSE 0) /\ g[i] = 0
    BY <1>1, <1>4, <1>5 DEF StillLive, o
  <2>4. b[w].live = Sum(f, n) /\ b[w].live \in Int
    BY DEF LedgerOK, Book
  <2> HIDE DEF f, g
  <2>0. n \in Nat /\ i \in 1..n
    BY <1>1
  <2>5. Sum(g, n) + f[i] = Sum(f, n) + g[i]
    <3> HIDE DEF n
    <3> QED BY ONLY <2>0, <2>1, <2>2, SumUpdate
  <2>6. Sum(g, n) \in Nat
    BY ONLY <1>1, <2>1, SumNat
  <2>7. b2[w].live = b[w].live - (IF o = w THEN 1 ELSE 0)
    BY <1>6, <2>4
  <2>8. b2[w].live = Sum(g, n)
    BY ONLY <2>3, <2>4, <2>5, <2>6, <2>7
  <2> QED BY <2>8 DEF g
<1>9. \A j \in 1..n : q[j].accepted > 0
  BY <1>4, <1>5 DEF LedgerOK
<1>10. pool = Sum(Staked(q), n)
  BY <1>7 DEF LedgerOK
<1>11. \A w \in Outcomes : /\ b2[w].principal > 0
                           /\ b2[w].principal = Sum(StakedOn(q, w), n)
  BY <1>6, <1>7 DEF LedgerOK
<1>12. LedgerOK(b2, q, pool)
  BY <1>4, <1>8, <1>9, <1>10, <1>11 DEF LedgerOK
<1> QED BY <1>4, <1>6, <1>12

(* What a claim moves in the two lists of money. *)
LEMMA MoneyClaim ==
  ASSUME NEW p \in Seq(Position), NEW i \in 1..Len(p), ~p[i].claimed,
         NEW q, ClaimedAt(q, p, i),
         NEW w, NEW pool \in Nat, NEW principal \in Nat, principal > 0
  PROVE  /\ Sum(Unclaimed(p), Len(p)) = Sum(Unclaimed(q), Len(p)) + p[i].accepted
         /\ Sum(PaidOf(q, w, pool, principal), Len(p))
              = Sum(PaidOf(p, w, pool, principal), Len(p)) + SharesOf(p, w, pool, principal)[i]
         /\ Sum(Unclaimed(q), Len(p)) \in Nat
         /\ Sum(PaidOf(p, w, pool, principal), Len(p)) \in Nat
<1> DEFINE n == Len(p)
           f == Unclaimed(p)
           g == Unclaimed(q)
           x == PaidOf(p, w, pool, principal)
           y == PaidOf(q, w, pool, principal)
           s == SharesOf(p, w, pool, principal)
<1>1. n \in Nat /\ p[i] \in Position /\ p[i].accepted \in Nat /\ s[i] \in Nat
  BY SeqIsFun, StakeAt, SharesAt
<1>2. /\ q \in Seq(Position) /\ Len(q) = n /\ \A j \in 1..n : j # i => q[j] = p[j]
      /\ q[i].outcome = p[i].outcome /\ q[i].accepted = p[i].accepted /\ q[i].claimed
  BY DEF ClaimedAt
<1>3. \A j \in 1..n : /\ f[j] \in Nat /\ g[j] \in Nat /\ x[j] \in Nat /\ y[j] \in Nat
                      /\ j # i => g[j] = f[j] /\ y[j] = x[j]
  <2>1. \A j \in 1..n : f[j] \in Nat /\ g[j] \in Nat
    BY <1>2, StakeAt
  <2>2. \A j \in 1..n : x[j] \in Nat /\ y[j] \in Nat
    BY <1>2, SharesAt
  <2>3. \A j \in 1..n : j # i => g[j] = f[j]
    BY <1>2 DEF Unclaimed
  <2>4. \A j \in 1..n : j # i => y[j] = x[j]
    BY <1>2 DEF PaidOf, SharesOf
  <2> QED BY <2>1, <2>2, <2>3, <2>4
<1>4. f[i] = p[i].accepted /\ g[i] = 0 /\ x[i] = 0 /\ y[i] = s[i]
  BY <1>2 DEF Unclaimed, PaidOf, SharesOf
<1> HIDE DEF f, g, x, y, s
<1>5. Sum(g, n) + f[i] = Sum(f, n) + g[i]
  <2>1. /\ \A j \in 1..n : f[j] \in Nat /\ g[j] \in Nat
        /\ \A j \in 1..n : j # i => g[j] = f[j]
    BY <1>3
  <2>2. n \in Nat /\ i \in 1..n
    BY <1>1
  <2> QED BY ONLY <2>1, <2>2, SumUpdate
<1>6. Sum(y, n) + x[i] = Sum(x, n) + y[i]
  <2>1. /\ \A j \in 1..n : x[j] \in Nat /\ y[j] \in Nat
        /\ \A j \in 1..n : j # i => y[j] = x[j]
    BY <1>3
  <2>2. n \in Nat /\ i \in 1..n
    BY <1>1
  <2> HIDE DEF n
  <2> QED BY ONLY <2>1, <2>2, SumUpdate
<1>7. Sum(f, n) \in Nat /\ Sum(g, n) \in Nat /\ Sum(x, n) \in Nat /\ Sum(y, n) \in Nat
  BY ONLY <1>1, <1>3, SumNat
<1>8. Sum(f, n) = Sum(g, n) + p[i].accepted /\ Sum(y, n) = Sum(x, n) + s[i]
  BY ONLY <1>1, <1>4, <1>5, <1>6, <1>7
<1> QED BY <1>7, <1>8 DEF f, g, x, y, s

-----------------------------------------------------------------------------
(* The invariant.                                                          *)

LEMMA InitInv == Init => CInv
<1> SUFFICES ASSUME Init PROVE CInv
  OBVIOUS
<1>1. /\ status = "None" /\ winner = 0 /\ positions = <<>> /\ acceptedPool = 0
      /\ paidOut = 0 /\ residueClaimed = FALSE /\ escrow = 0
      /\ books = [o \in Outcomes |-> [principal |-> 0, live |-> 0]]
  BY DEF Init
<1>2. books \in [Outcomes -> Book]
  BY <1>1 DEF Book
<1>3. positions \in Seq(Position)
  BY <1>1
<1>4. TypeOK
  <2>1. status \in {"None", "Open", "Resolved", "Voided"} /\ status # "Resolved"
    BY <1>1
  <2>2. /\ winner \in IF status = "Resolved" THEN Outcomes ELSE {0}
        /\ acceptedPool \in Nat /\ paidOut \in Nat /\ escrow \in Int
    BY <1>1, <2>1
  <2>3. residueClaimed \in BOOLEAN
    BY <1>1, Zenon
  <2> QED BY <1>2, <1>3, <2>1, <2>2, <2>3 DEF TypeOK
<1> QED BY <1>1, <1>4 DEF CInv, LedgerInv, MoneyInv

LEMMA CreateInv ==
  ASSUME CInv, NEW seed \in Seeds, Create(seed)
  PROVE  CInv'
<1>1. /\ status = "None" /\ status' = "Open" /\ acceptedPool' = Sum(seed, N)
      /\ escrow' = escrow + Sum(seed, N) /\ winner' = winner /\ paidOut' = paidOut
      /\ residueClaimed' = residueClaimed
      /\ books' = [o \in Outcomes |-> [principal |-> seed[o], live |-> 1]]
      /\ positions' = [o \in Outcomes |-> NewPosition(Creator, o, seed[o])]
      /\ \A o \in Outcomes : seed[o] # 0
  BY DEF Create
<1>2. escrow = 0 /\ winner = 0 /\ paidOut = 0 /\ ~residueClaimed /\ residueClaimed \in BOOLEAN
  BY <1>1 DEF CInv, TypeOK, LedgerInv, MoneyInv
<1>3. seed \in [1..N -> Nat]
  BY InputAssumption
<1>4. /\ Sum(seed, N) \in Nat /\ books' \in [Outcomes -> Book]
      /\ positions' \in Seq(Position) /\ Len(positions') = N
      /\ \A i \in 1..N : ~positions'[i].claimed
      /\ LedgerOK(books', positions', Sum(seed, N))
  BY <1>1, <1>3, LedgerSeed
<1>5. TypeOK'
  BY <1>1, <1>2, <1>4 DEF TypeOK
<1>6. LedgerInv'
  BY <1>1, <1>4 DEF LedgerInv
<1>7. MoneyInv'
  BY <1>1, <1>2, <1>4 DEF MoneyInv, Count
<1> QED BY <1>5, <1>6, <1>7 DEF CInv

LEMMA EnterInv ==
  ASSUME CInv, NEW u \in Users, NEW o \in Outcomes, NEW amount \in Amounts, Enter(u, o, amount)
  PROVE  CInv'
<1> DEFINE e == NewPosition(u, o, amount)
<1>1. /\ status = "Open" /\ status' = status /\ winner' = winner /\ paidOut' = paidOut
      /\ residueClaimed' = residueClaimed /\ acceptedPool' = acceptedPool + amount
      /\ escrow' = escrow + amount /\ positions' = Append(positions, e)
      /\ books' = Booked(o, amount) /\ amount # 0
  BY DEF Enter, settleVars
<1>2. /\ winner = 0 /\ paidOut = 0 /\ ~residueClaimed /\ residueClaimed \in BOOLEAN
      /\ escrow = acceptedPool /\ acceptedPool \in Nat
      /\ books \in [Outcomes -> Book] /\ positions \in Seq(Position)
      /\ LedgerOK(books, positions, acceptedPool)
      /\ \A i \in 1..Count : ~positions[i].claimed
  BY <1>1 DEF CInv, TypeOK, LedgerInv, MoneyInv
<1>3. amount \in Nat /\ amount > 0
  BY <1>1, InputAssumption
<1>4. /\ e \in Position /\ e.outcome = o /\ e.accepted = amount /\ ~e.claimed
  BY <1>3 DEF NewPosition, Position
<1> HIDE DEF e
<1>5. books' \in [Outcomes -> Book] /\ LedgerOK(books', positions', acceptedPool')
  <2>1. e.accepted > 0 /\ o = e.outcome /\ amount = e.accepted
    BY <1>3, <1>4
  <2>2. /\ books' \in [Outcomes -> Book] /\ \A w \in Outcomes : w # o => books'[w] = books[w]
        /\ books'[o].principal = books[o].principal + amount /\ books'[o].live = books[o].live + 1
    BY <1>1, <1>2, <1>3, BookedMoves
  <2>3. LedgerOK(books', Append(positions, e), acceptedPool + e.accepted)
    BY <1>2, <1>3, <1>4, <2>1, <2>2, LedgerAppend
  <2> QED BY <1>1, <1>4, <2>2, <2>3
<1>6. /\ positions' \in Seq(Position) /\ Len(positions') = Count + 1 /\ Count \in Nat
      /\ \A i \in 1..Count : positions'[i] = positions[i]
      /\ positions'[Count + 1] = e
  BY <1>1, <1>2, <1>4, SeqIsFun, AppendIsFun DEF Count
<1>7. \A i \in 1..Count' : ~positions'[i].claimed
  BY <1>2, <1>4, <1>6 DEF Count
<1>8. TypeOK'
  BY <1>1, <1>2, <1>3, <1>5, <1>6 DEF TypeOK
<1>9. LedgerInv'
  BY <1>1, <1>5 DEF LedgerInv
<1>10. MoneyInv'
  BY <1>1, <1>2, <1>7 DEF MoneyInv
<1> QED BY <1>8, <1>9, <1>10 DEF CInv

(* resolve and voidMarket: nothing has been claimed yet, so the pool is what the
   unclaimed stakes add up to, and nothing has been paid. *)
LEMMA SettleInv ==
  ASSUME CInv, status = "Open",
         \/ status' = "Resolved" /\ winner' \in Outcomes
         \/ status' = "Voided" /\ winner' = winner,
         UNCHANGED <<ledgerVars, paidOut, residueClaimed, escrow>>
  PROVE  CInv'
<1>1. /\ books' = books /\ positions' = positions /\ acceptedPool' = acceptedPool
      /\ paidOut' = paidOut /\ residueClaimed' = residueClaimed /\ escrow' = escrow
      /\ Count' = Count
  BY DEF ledgerVars, Count
<1>2. /\ winner = 0 /\ paidOut = 0 /\ ~residueClaimed /\ residueClaimed \in BOOLEAN
      /\ escrow = acceptedPool /\ acceptedPool \in Nat /\ escrow \in Int
      /\ books \in [Outcomes -> Book] /\ positions \in Seq(Position)
      /\ LedgerOK(books, positions, acceptedPool)
      /\ \A i \in 1..Count : ~positions[i].claimed
  BY DEF CInv, TypeOK, LedgerInv, MoneyInv
<1>3. TypeOK'
  BY <1>1, <1>2 DEF TypeOK
<1>4. LedgerInv'
  BY <1>1, <1>2 DEF LedgerInv
<1>5. Count \in Nat /\ Count = Len(positions)
  BY <1>2, SeqIsFun DEF Count
<1>6. Sum(Unclaimed(positions), Count) = escrow
  <2>1. Unclaimed(positions) = Staked(positions)
    BY <1>2, <1>5 DEF Unclaimed, Staked
  <2> QED BY <1>2, <1>5, <2>1 DEF LedgerOK
<1>7. ASSUME NEW w, NEW principal
      PROVE  Sum(PaidOf(positions, w, acceptedPool, principal), Count) = 0
  <2>1. \A i \in 1..Count : PaidOf(positions, w, acceptedPool, principal)[i] = 0
    BY <1>2, <1>5 DEF PaidOf
  <2> QED BY <1>5, <2>1, SumZeros
<1>8. MoneyInv'
  <2>1. CASE status' = "Voided"
    BY <1>1, <1>2, <1>6, <2>1 DEF MoneyInv
  <2>2. CASE status' = "Resolved"
    <3>1. /\ escrow' = acceptedPool' - paidOut' /\ ~residueClaimed'
      BY <1>1, <1>2
    <3>2. paidOut' = Sum(PaidOf(positions', winner', acceptedPool', books'[winner'].principal), Count')
      BY <1>1, <1>2, <1>7
    <3> QED BY <2>2, <3>1, <3>2 DEF MoneyInv
  <2> QED BY <2>1, <2>2
<1> QED BY <1>3, <1>4, <1>8 DEF CInv

LEMMA ResolveSettles ==
  ASSUME CInv, NEW u, NEW w \in Outcomes, Resolve(u, w)
  PROVE  /\ status = "Open"
         /\ \/ status' = "Resolved" /\ winner' \in Outcomes
            \/ status' = "Voided" /\ winner' = winner
         /\ UNCHANGED <<ledgerVars, paidOut, residueClaimed, escrow>>
BY DEF Resolve, Verdict

(* What claim does, in the words of the lists. *)
LEMMA ClaimMoves ==
  ASSUME CInv, NEW u, NEW i \in 1..Count, Claim(u, i)
  PROVE  /\ status \in {"Resolved", "Voided"} /\ status' = status /\ winner' = winner
         /\ acceptedPool' = acceptedPool /\ residueClaimed' = residueClaimed
         /\ positions' = [positions EXCEPT ![i].claimed = TRUE] /\ ~positions[i].claimed
         /\ books' = Released(positions[i]) /\ positions[i] \in Position
         /\ LedgerOK(books, positions, acceptedPool) /\ positions[i].accepted \in Nat
         /\ status = "Voided" => /\ paidOut' = paidOut
                                 /\ escrow' = escrow - positions[i].accepted
         /\ status = "Resolved" =>
              LET s == SharesOf(positions, winner, acceptedPool, books[winner].principal)[i]
              IN  /\ winner \in Outcomes /\ s \in Nat /\ books[winner].principal \in Nat
                  /\ books[winner].principal > 0
                  /\ paidOut' = paidOut + s /\ escrow' = escrow - s
                  /\ positions[i].outcome # winner => s = 0
                  /\ positions[i].outcome = winner => s >= positions[i].accepted
<1> DEFINE p == positions[i]
           s == SharesOf(positions, winner, acceptedPool, books[winner].principal)[i]
<1>1. /\ status \in {"Resolved", "Voided"} /\ status' = status /\ winner' = winner
      /\ acceptedPool' = acceptedPool /\ residueClaimed' = residueClaimed
      /\ positions' = [positions EXCEPT ![i].claimed = TRUE] /\ ~p.claimed
      /\ books' = Released(p)
  BY DEF Claim, settleVars
<1>2. /\ positions \in Seq(Position) /\ Count = Len(positions)
      /\ books \in [Outcomes -> Book] /\ acceptedPool \in Nat /\ paidOut \in Nat /\ escrow \in Int
      /\ LedgerOK(books, positions, acceptedPool)
  BY <1>1 DEF CInv, TypeOK, LedgerInv, Count
<1>3. p \in Position /\ p.accepted \in Nat /\ p.accepted > 0
  BY <1>2, StakeAt DEF LedgerOK
<1>5. CASE status = "Voided"
  <2>1. paidOut' = paidOut + 0 /\ escrow' = escrow - (0 + p.accepted)
    BY <1>5 DEF Claim
  <2>2. paidOut' = paidOut /\ escrow' = escrow - p.accepted
    BY <1>2, <1>3, <2>1
  <2> HIDE DEF p, s
  <2> QED BY <1>1, <1>2, <1>3, <1>5, <2>2 DEF p
<1>6. CASE status = "Resolved"
  <2>1. winner \in Outcomes
    BY <1>6 DEF CInv, TypeOK
  <2>2. books[winner].principal \in Nat /\ books[winner].principal > 0
    BY <1>2, <2>1 DEF LedgerOK, Book
  <2>3. s \in Nat
    BY <1>2, <2>2, SharesAt
  <2>4. Payout(p) = s
    BY <1>2, <2>2 DEF Payout, Share, SharesOf
  <2>5. paidOut' = paidOut + s /\ escrow' = escrow - (s + 0)
    BY <1>6, <2>4 DEF Claim
  <2>6. escrow' = escrow - s
    BY <1>2, <2>3, <2>5
  <2>7. p.outcome # winner => s = 0
    BY <1>2 DEF SharesOf
  <2>8. p.outcome = winner => s >= p.accepted
    <3>1. books[winner].principal <= acceptedPool
      BY <1>2, <2>1, PrincipalWithinPool DEF LedgerOK
    <3>2. p.accepted <= (acceptedPool * p.accepted) \div books[winner].principal
      BY <1>2, <1>3, <2>2, <3>1, ShareAtLeastStake
    <3>3. p.outcome = winner => s = (acceptedPool * p.accepted) \div books[winner].principal
      BY <1>2 DEF SharesOf
    <3> QED BY <1>3, <2>3, <3>2, <3>3
  <2> HIDE DEF p, s
  <2> QED BY <1>1, <1>2, <1>3, <1>6, <2>1, <2>2, <2>3, <2>5, <2>6, <2>7, <2>8 DEF p, s
<1> QED BY <1>1, <1>5, <1>6

LEMMA ClaimInv ==
  ASSUME CInv, NEW u, NEW i \in 1..Count, Claim(u, i)
  PROVE  CInv'
<1> DEFINE p == positions
           q == positions'
           b == books
           b2 == books'
           pool == acceptedPool
<1>1. /\ status \in {"Resolved", "Voided"} /\ status' = status /\ winner' = winner
      /\ acceptedPool' = pool /\ residueClaimed' = residueClaimed
      /\ ~p[i].claimed /\ LedgerOK(b, p, pool) /\ p[i].accepted \in Nat
  BY ClaimMoves
<1>2. /\ p \in Seq(Position) /\ Count = Len(p) /\ b \in [Outcomes -> Book] /\ pool \in Nat
      /\ paidOut \in Nat /\ escrow \in Int /\ residueClaimed \in BOOLEAN
      /\ winner \in IF status = "Resolved" THEN Outcomes ELSE {0}
  BY DEF CInv, TypeOK, Count
<1>0. i \in 1..Len(p) /\ p[i] \in Position
  BY <1>2, StakeAt
<1>3. /\ ClaimedAt(q, p, i) /\ q \in Seq(Position) /\ Len(q) = Len(p)
      /\ b2 \in [Outcomes -> Book] /\ LedgerOK(b2, q, pool)
      /\ \A w \in Outcomes : b2[w].principal = b[w].principal
  <2>1. b2 = Released(p[i]) /\ positions' = [positions EXCEPT ![i].claimed = TRUE]
    BY ClaimMoves
  <2>2. p[i].accepted > 0
    BY <1>0, <1>1, <1>2 DEF LedgerOK
  <2>3. /\ b2 \in [Outcomes -> Book]
        /\ b2[p[i].outcome].principal = b[p[i].outcome].principal
        /\ b2[p[i].outcome].live = b[p[i].outcome].live - 1
        /\ \A w \in Outcomes : w # p[i].outcome => b2[w] = b[w]
    BY <1>0, <1>2, <2>1, <2>2, ReleasedMoves
  <2>4. \A w \in Outcomes : b2[w].principal = b[w].principal
    BY <2>3
  <2>5. ClaimedAt(q, p, i)
    BY <1>0, <1>2, <2>1, ClaimMarks
  <2> HIDE DEF p, q, b, b2, pool
  <2>6. LedgerOK(b2, q, pool)
    BY <1>0, <1>1, <1>2, <2>3, <2>5, LedgerClaim
  <2> QED BY <2>3, <2>4, <2>5, <2>6 DEF ClaimedAt
<1> HIDE DEF p, q, b, b2, pool
<1>4. LedgerInv'
  BY <1>1, <1>3 DEF LedgerInv, q, b2
<1>5. CASE status = "Voided"
  <2>1. paidOut' = paidOut /\ escrow' = escrow - p[i].accepted
    BY <1>5, ClaimMoves DEF p
  <2>2. paidOut = 0 /\ ~residueClaimed /\ escrow = Sum(Unclaimed(p), Len(p))
    BY <1>2, <1>5 DEF CInv, MoneyInv, p
  <2>3. Sum(Unclaimed(p), Len(p)) = Sum(Unclaimed(q), Len(p)) + p[i].accepted
        /\ Sum(Unclaimed(q), Len(p)) \in Nat
    BY <1>0, <1>1, <1>2, <1>3, MoneyClaim, 1 \in Nat, 1 > 0
  <2>4. escrow' = Sum(Unclaimed(q), Len(q))
    BY <1>1, <1>3, <2>1, <2>2, <2>3
  <2>5. TypeOK'
    BY <1>1, <1>2, <1>3, <1>5, <2>1 DEF TypeOK, p, q, b, b2, pool
  <2>6. MoneyInv'
    BY <1>1, <1>5, <2>1, <2>2, <2>4 DEF MoneyInv, Count, q
  <2> QED BY <1>4, <2>5, <2>6 DEF CInv
<1>6. CASE status = "Resolved"
  <2> DEFINE pr == b[winner].principal
             s == SharesOf(p, winner, pool, pr)[i]
  <2>1. /\ winner \in Outcomes /\ s \in Nat /\ pr \in Nat /\ pr > 0
        /\ paidOut' = paidOut + s /\ escrow' = escrow - s
        /\ p[i].outcome # winner => s = 0
    BY <1>6, ClaimMoves DEF p, b, pool
  <2>2. /\ escrow = IF residueClaimed THEN 0 ELSE pool - paidOut
        /\ paidOut = Sum(PaidOf(p, winner, pool, pr), Len(p))
        /\ residueClaimed => \A j \in 1..Len(p) : StillLive(p, winner)[j] = 0
    BY <1>2, <1>6 DEF CInv, MoneyInv, p, b, pool
  <2>3. b2[winner].principal = pr
    BY <1>3, <2>1
  <2> HIDE DEF pr, s
  <2>4. Sum(PaidOf(q, winner, pool, pr), Len(p)) = Sum(PaidOf(p, winner, pool, pr), Len(p)) + s
    <3>1. Sum(PaidOf(q, winner, pool, pr), Len(p))
            = Sum(PaidOf(p, winner, pool, pr), Len(p)) + SharesOf(p, winner, pool, pr)[i]
      BY ONLY <1>0, <1>1, <1>2, <1>3, <2>1, MoneyClaim
    <3> QED BY <3>1 DEF s
  <2>5. paidOut' = Sum(PaidOf(q, winner, pool, pr), Len(q))
    BY <1>3, <2>1, <2>2, <2>4
  <2>6. residueClaimed => s = 0
    <3>1. p[i].outcome = winner => StillLive(p, winner)[i] = 1
      BY <1>1, <1>2 DEF StillLive
    <3> QED BY <1>2, <2>1, <2>2, <3>1
  <2>7. residueClaimed => \A j \in 1..Len(q) : StillLive(q, winner)[j] = 0
    <3> SUFFICES ASSUME residueClaimed, NEW j \in 1..Len(q) PROVE StillLive(q, winner)[j] = 0
      OBVIOUS
    <3>1. StillLive(p, winner)[j] = 0
      BY <1>3, <2>2
    <3>2. CASE j = i
      <4>1. q[i].claimed
        BY <1>3 DEF ClaimedAt
      <4> QED BY <1>3, <3>2, <4>1 DEF StillLive
    <3>3. CASE j # i
      BY <1>3, <3>1, <3>3 DEF StillLive, ClaimedAt
    <3> QED BY <3>2, <3>3
  <2>8. escrow' = IF residueClaimed THEN 0 ELSE pool - paidOut'
    BY <1>2, <2>1, <2>2, <2>6
  <2>9. paidOut' \in Nat /\ escrow' \in Int
    BY <1>2, <2>1
  <2>10. TypeOK'
    BY <1>1, <1>2, <1>3, <1>6, <2>9 DEF TypeOK, p, q, b, b2, pool
  <2>11. MoneyInv'
    BY <1>1, <1>6, <2>3, <2>5, <2>7, <2>8 DEF MoneyInv, Count, q, b2, pool
  <2> QED BY <1>4, <2>10, <2>11 DEF CInv
<1> QED BY <1>1, <1>5, <1>6

LEMMA TransferMoves ==
  ASSUME CInv, NEW u, NEW i \in 1..Count, NEW to \in Users, TransferPosition(u, i, to)
  PROVE  /\ positions' \in Seq(Position) /\ Len(positions') = Count /\ Count = Len(positions)
         /\ \A j \in 1..Count : /\ positions'[j].outcome = positions[j].outcome
                                /\ positions'[j].accepted = positions[j].accepted
                                /\ positions'[j].claimed = positions[j].claimed
         /\ UNCHANGED <<status, winner, books, acceptedPool, paidOut, residueClaimed, escrow>>
<1>1. /\ positions' = [positions EXCEPT ![i].owner = to]
      /\ UNCHANGED <<status, winner, books, acceptedPool, paidOut, residueClaimed, escrow>>
  BY DEF TransferPosition, settleVars
<1>2. /\ positions \in Seq(Position) /\ Count = Len(positions) /\ Count \in Nat
      /\ positions \in [1..Count -> Position]
  BY SeqIsFun DEF CInv, TypeOK, Count
<1>3. positions[i] \in Position
  BY <1>2
<1>4. [positions[i] EXCEPT !.owner = to] \in Position
  BY <1>3 DEF Position
<1>5. positions' \in [1..Count -> Position]
  BY <1>1, <1>2, <1>4
<1>6. positions' \in Seq(Position) /\ Len(positions') = Count
  BY <1>2, <1>5, FunIsSeq
<1>7. ASSUME NEW j \in 1..Count
      PROVE  /\ positions'[j].outcome = positions[j].outcome
             /\ positions'[j].accepted = positions[j].accepted
             /\ positions'[j].claimed = positions[j].claimed
  <2>1. positions'[j] = positions[j] \/ positions'[j] = [positions[j] EXCEPT !.owner = to]
    BY <1>1, <1>2
  <2>2. positions[j] \in Position
    BY <1>2
  <2> QED BY <2>1, <2>2 DEF Position
<1> QED BY <1>1, <1>2, <1>6, <1>7

LEMMA TransferInv ==
  ASSUME CInv, NEW u, NEW i \in 1..Count, NEW to \in Users, TransferPosition(u, i, to)
  PROVE  CInv'
<1> DEFINE p == positions
           q == positions'
<1>1. /\ q \in Seq(Position) /\ Len(q) = Len(p) /\ p \in Seq(Position) /\ Count = Len(p)
      /\ \A j \in 1..Len(p) : /\ q[j].outcome = p[j].outcome
                              /\ q[j].accepted = p[j].accepted
                              /\ q[j].claimed = p[j].claimed
      /\ status' = status /\ winner' = winner /\ books' = books /\ acceptedPool' = acceptedPool
      /\ paidOut' = paidOut /\ residueClaimed' = residueClaimed /\ escrow' = escrow
  <2>1. positions \in Seq(Position)
    BY DEF CInv, TypeOK
  <2> QED BY <2>1, TransferMoves
<1> HIDE DEF p, q
<1>2. /\ Staked(q) = Staked(p) /\ Unclaimed(q) = Unclaimed(p)
      /\ \A w : /\ StakedOn(q, w) = StakedOn(p, w) /\ StillLive(q, w) = StillLive(p, w)
                /\ \A pool, principal : PaidOf(q, w, pool, principal) = PaidOf(p, w, pool, principal)
  BY <1>1, SameLists
<1>3. TypeOK'
  BY <1>1 DEF CInv, TypeOK, p, q
<1>4. LedgerInv'
  <2>1. status # "None"
    <3>1. CASE status = "None"
      BY <1>1, <3>1 DEF CInv, LedgerInv, p
    <3> QED BY <3>1
  <2>2. LedgerOK(books, p, acceptedPool)
    BY <2>1 DEF CInv, LedgerInv, p
  <2>3. LedgerOK(books, q, acceptedPool)
    BY <1>1, <1>2, <2>2 DEF LedgerOK
  <2> QED BY <1>1, <2>1, <2>3 DEF LedgerInv, q
<1>5. MoneyInv'
  <2>1. MoneyInv
    BY DEF CInv
  <2> QED BY <1>1, <1>2, <2>1 DEF MoneyInv, Count, p, q
<1> QED BY <1>3, <1>4, <1>5 DEF CInv

(* With nobody live on the winner, no winning stake is left to claim. *)
LEMMA NobodyLeft ==
  ASSUME CInv, status = "Resolved", books[winner].live = 0, NEW i \in 1..Count
  PROVE  /\ StillLive(positions, winner)[i] = 0
         /\ positions[i].outcome = winner => positions[i].claimed
<1> DEFINE live == StillLive(positions, winner)
<1>1. /\ positions \in Seq(Position) /\ Count = Len(positions) /\ winner \in Outcomes
      /\ LedgerOK(books, positions, acceptedPool)
  BY DEF CInv, TypeOK, LedgerInv, Count
<1>2. Count \in Nat /\ \A j \in 1..Count : live[j] \in Nat
  BY <1>1, SeqIsFun, StakeAt
<1>3. Sum(live, Count) = 0
  BY <1>1 DEF LedgerOK
<1> HIDE DEF live
<1>4. live[i] <= Sum(live, Count)
  BY <1>2, SumMember
<1>5. live[i] = 0
  BY <1>2, <1>3, <1>4
<1> QED BY <1>1, <1>5 DEF StillLive, live

LEMMA ResidueInv ==
  ASSUME CInv, NEW u, ClaimResidue(u)
  PROVE  CInv'
<1>1. /\ status = "Resolved" /\ books[winner].live = 0 /\ ~residueClaimed
      /\ residueClaimed' = TRUE /\ escrow' = escrow - (acceptedPool - paidOut)
      /\ status' = status /\ winner' = winner /\ positions' = positions /\ books' = books
      /\ acceptedPool' = acceptedPool /\ paidOut' = paidOut
  BY DEF ClaimResidue, settleVars, ledgerVars
<1>2. /\ escrow = acceptedPool - paidOut /\ acceptedPool \in Nat /\ paidOut \in Nat
      /\ paidOut = Sum(PaidOf(positions, winner, acceptedPool, books[winner].principal), Count)
  BY <1>1 DEF CInv, TypeOK, MoneyInv
<1>3. escrow' = 0
  BY <1>1, <1>2
<1>4. \A i \in 1..Count : StillLive(positions, winner)[i] = 0
  BY <1>1, NobodyLeft
<1>5. TypeOK'
  <2>1. residueClaimed' \in BOOLEAN
    BY <1>1, Zenon
  <2> QED BY <1>1, <1>3, <2>1 DEF CInv, TypeOK
<1>6. LedgerInv'
  BY <1>1 DEF CInv, LedgerInv
<1>7. MoneyInv'
  BY <1>1, <1>2, <1>3, <1>4 DEF MoneyInv, Count
<1> QED BY <1>5, <1>6, <1>7 DEF CInv

LEMMA StepInv == CInv /\ [Next]_vars => CInv'
<1> SUFFICES ASSUME CInv, [Next]_vars PROVE CInv'
  OBVIOUS
<1>1. ASSUME NEW seed \in Seeds, Create(seed) PROVE CInv'
  BY <1>1, CreateInv
<1>2. ASSUME NEW u \in Users, NEW o \in Outcomes, NEW amount \in Amounts, Enter(u, o, amount)
      PROVE  CInv'
  BY <1>2, EnterInv
<1>3. ASSUME NEW u \in Users \cup {Resolver}, NEW w \in Outcomes, Resolve(u, w) PROVE CInv'
  BY <1>3, ResolveSettles, SettleInv
<1>4. ASSUME NEW u \in Users \cup {Resolver}, VoidMarket(u) PROVE CInv'
  BY <1>4, SettleInv DEF VoidMarket
<1>5. ASSUME NEW u \in Users, NEW i \in 1..Count, Claim(u, i) PROVE CInv'
  BY <1>5, ClaimInv
<1>6. ASSUME NEW u \in Users, NEW to \in Users, NEW i \in 1..Count, TransferPosition(u, i, to)
      PROVE  CInv'
  BY <1>6, TransferInv
<1>7. ASSUME NEW u \in Users, ClaimResidue(u) PROVE CInv'
  BY <1>7, ResidueInv
<1>8. ASSUME UNCHANGED <<settleVars, ledgerVars, paidOut, residueClaimed, escrow>> PROVE CInv'
  BY <1>8 DEF CInv, TypeOK, LedgerInv, MoneyInv, Count, settleVars, ledgerVars
<1>9. CASE Tick
  BY <1>8, <1>9 DEF Tick
<1>10. CASE UNCHANGED vars
  BY <1>8, <1>10 DEF vars
<1> QED BY <1>1, <1>2, <1>3, <1>4, <1>5, <1>6, <1>7, <1>9, <1>10 DEF Next

-----------------------------------------------------------------------------
(* The settler of the interface.                                           *)

(* StakesOf, over any positions. *)
View(p) == [outcome |-> p.outcome, undecided |-> 0, accepted |-> p.accepted,
            remainder |-> 0, claimed |-> p.claimed]
Views(p) == [i \in 1..Len(p) |-> View(p[i])]

LEMMA StakesAreViews == StakesOf = Views(positions) /\ StakesOf' = Views(positions')
BY DEF StakesOf, Views, View, Count

LEMMA SameSum == \A f, k : Settler!Sum(f, k) = Sum(f, k)
BY DEF Settler!Sum, Sum

LEMMA ViewsAreList ==
  ASSUME NEW p \in Seq(Position)
  PROVE  /\ Len(p) \in Nat /\ Len(Views(p)) = Len(p)
         /\ Views(p) \in Seq(Settler!Stake)
         /\ \A i \in 1..Len(p) : /\ Views(p)[i] = View(p[i]) /\ View(p[i]) \in Settler!Stake
                                 /\ View(p[i]).outcome = p[i].outcome
                                 /\ View(p[i]).accepted = p[i].accepted
                                 /\ View(p[i]).claimed = p[i].claimed
                                 /\ View(p[i]).undecided = 0 /\ View(p[i]).remainder = 0
<1>1. Len(p) \in Nat
  BY SeqIsFun
<1>2. ASSUME NEW i \in 1..Len(p)
      PROVE  /\ View(p[i]) \in Settler!Stake
             /\ View(p[i]).outcome = p[i].outcome /\ View(p[i]).accepted = p[i].accepted
             /\ View(p[i]).claimed = p[i].claimed
             /\ View(p[i]).undecided = 0 /\ View(p[i]).remainder = 0
  <2>1. p[i].outcome \in Outcomes /\ p[i].accepted \in Nat /\ p[i].claimed \in BOOLEAN
    BY StakeAt DEF Position
  <2> QED BY <2>1 DEF View, Settler!Stake, Outcomes
<1>3. Views(p) \in [1..Len(p) -> Settler!Stake]
  BY <1>2 DEF Views
<1>4. Views(p) \in Seq(Settler!Stake) /\ Len(Views(p)) = Len(p)
  BY <1>1, <1>3, FunIsSeq
<1>5. \A i \in 1..Len(p) : Views(p)[i] = View(p[i])
  BY DEF Views
<1> QED BY <1>1, <1>2, <1>4, <1>5

LEMMA SameButClaimed ==
  ASSUME NEW s \in Settler!Stake, NEW t \in Settler!Stake, t.remainder = 0, t.claimed = TRUE,
         t.outcome = s.outcome, t.undecided = s.undecided, t.accepted = s.accepted
  PROVE  [s EXCEPT !.claimed = TRUE, !.remainder = 0] = t
BY DEF Settler!Stake

(* A list of stakes is a decision of itself: here there is nothing to decide. *)
LEMMA SameDecision ==
  ASSUME NEW s
  PROVE  Settler!Decision(s, s)
BY DEF Settler!Decision

LEMMA CreateImplements ==
  ASSUME CInv, NEW seed \in Seeds, Create(seed)
  PROVE  Settler!Create
<1>1. /\ status = "None" /\ status' = "Open" /\ winner' = winner
      /\ residueClaimed' = residueClaimed /\ escrow' = escrow + Sum(seed, N)
      /\ positions' = [o \in Outcomes |-> NewPosition(Creator, o, seed[o])]
      /\ \A o \in Outcomes : seed[o] # 0
  BY DEF Create
<1>2. escrow = 0 /\ N \in Nat /\ Outcomes = 1..N /\ seed \in [1..N -> Nat]
  BY <1>1, OutcomeAssumption, InputAssumption DEF CInv, LedgerInv, Outcomes
<1>3. positions' \in Seq(Position) /\ Len(positions') = N /\ Sum(seed, N) \in Nat
  <2>1. PICK b : b = [o \in Outcomes |-> [principal |-> seed[o], live |-> 1]]
    OBVIOUS
  <2> QED BY <1>1, <1>2, <2>1, LedgerSeed
<1>4. Len(StakesOf') = N
  BY <1>3, StakesAreViews, ViewsAreList
<1>5. ASSUME NEW o \in 1..N
      PROVE  /\ seed[o] > 0
             /\ StakesOf'[o] = [outcome |-> o, undecided |-> 0, remainder |-> 0,
                                accepted |-> seed[o], claimed |-> FALSE]
  <2>1. positions'[o] = NewPosition(Creator, o, seed[o])
    BY <1>1, <1>2
  <2>2. View(positions'[o]) = [outcome |-> o, undecided |-> 0, remainder |-> 0,
                               accepted |-> seed[o], claimed |-> FALSE]
    BY <2>1 DEF View, NewPosition
  <2>3. StakesOf' = Views(positions') /\ Views(positions')[o] = View(positions'[o])
    BY <1>3, StakesAreViews, ViewsAreList
  <2>4. seed[o] > 0
    BY <1>1, <1>2
  <2> QED BY <2>2, <2>3, <2>4
<1>6. ASSUME NEW o \in 1..N PROVE StakesOf'[o].accepted = seed[o]
  <2>1. \A a : [outcome |-> o, undecided |-> 0, remainder |-> 0,
                accepted |-> a, claimed |-> FALSE].accepted = a
    OBVIOUS
  <2> QED BY <1>5, <2>1
<1>7. escrow' = Settler!Sum([o \in 1..N |-> StakesOf'[o].accepted], N)
  <2>1. \A o \in 1..N : [i \in 1..N |-> StakesOf'[i].accepted][o] = seed[o]
    BY <1>6
  <2>2. Sum([i \in 1..N |-> StakesOf'[i].accepted], N) = Sum(seed, N)
    BY <1>2, <2>1, SumEq
  <2> QED BY <1>1, <1>2, <1>3, <2>2, SameSum
<1>8. \A o \in 1..N : /\ StakesOf'[o] = [outcome |-> o, undecided |-> 0, remainder |-> 0,
                             accepted |-> StakesOf'[o].accepted, claimed |-> FALSE]
                        /\ StakesOf'[o].accepted > 0
  BY <1>5, <1>6
<1> QED BY <1>1, <1>4, <1>7, <1>8 DEF Settler!Create

LEMMA EnterImplements ==
  ASSUME CInv, NEW u \in Users, NEW o \in Outcomes, NEW amount \in Amounts, Enter(u, o, amount)
  PROVE  Settler!Enter
<1> DEFINE e == NewPosition(u, o, amount)
           n == Len(positions)
<1>1. /\ status = "Open" /\ amount # 0 /\ positions' = Append(positions, e)
      /\ escrow' = escrow + amount
      /\ status' = status /\ winner' = winner /\ residueClaimed' = residueClaimed
  BY DEF Enter, settleVars
<1>2. /\ positions \in Seq(Position) /\ n \in Nat /\ escrow \in Int /\ amount \in Nat /\ amount > 0
  BY <1>1, InputAssumption, SeqIsFun DEF CInv, TypeOK
<1>3. e \in Position /\ e.outcome = o /\ e.accepted = amount /\ ~e.claimed
  BY <1>2 DEF NewPosition, Position
<1> HIDE DEF e
<1>4. /\ positions' \in Seq(Position) /\ Len(positions') = n + 1 /\ positions'[n + 1] = e
      /\ \A i \in 1..n : positions'[i] = positions[i]
  BY <1>1, <1>2, <1>3, AppendIsFun
<1>5. /\ Len(StakesOf) = n /\ Len(StakesOf') = n + 1 /\ StakesOf'[n + 1] = View(e)
      /\ \A i \in 1..n : StakesOf'[i] = StakesOf[i]
      /\ StakesOf \in Seq(Settler!Stake)
  <2>1. StakesOf = Views(positions) /\ StakesOf' = Views(positions')
    BY StakesAreViews
  <2>2. /\ Len(Views(positions)) = n /\ Views(positions) \in Seq(Settler!Stake)
        /\ \A i \in 1..n : Views(positions)[i] = View(positions[i])
    BY <1>2, ViewsAreList
  <2>3. /\ Len(Views(positions')) = n + 1
        /\ \A i \in 1..(n + 1) : Views(positions')[i] = View(positions'[i])
    BY <1>4, ViewsAreList
  <2>4. n + 1 \in 1..(n + 1) /\ \A i \in 1..n : i \in 1..(n + 1)
    BY <1>2
  <2> HIDE DEF n
  <2> QED BY <1>4, <2>1, <2>2, <2>3, <2>4
<1>6. SubSeq(StakesOf', 1, n) = StakesOf
  <2>1. SubSeq(StakesOf', 1, n) = [i \in 1..n |-> StakesOf'[i]]
    BY <1>2, <1>5
  <2>2. StakesOf = [i \in 1..n |-> StakesOf[i]]
    BY <1>5 DEF StakesOf, Count
  <2> QED BY <1>5, <2>1, <2>2
<1>7. Len(StakesOf) + 1 - 1 = n /\ Len(StakesOf) + 1 = n + 1
  BY <1>2, <1>5
<1>8. /\ StakesOf'[n + 1].remainder = 0 /\ ~StakesOf'[n + 1].claimed
      /\ StakesOf'[n + 1].outcome \in 1..N
      /\ StakesOf'[n + 1].undecided = 0 /\ StakesOf'[n + 1].accepted = amount
  BY <1>3, <1>5 DEF View, Outcomes
<1>9. /\ StakesOf'[n + 1].undecided + StakesOf'[n + 1].accepted > 0
      /\ escrow' = escrow + StakesOf'[n + 1].undecided + StakesOf'[n + 1].accepted
  BY <1>1, <1>2, <1>8
<1>10. /\ Len(StakesOf') = Len(StakesOf) + 1
       /\ Settler!Decision(StakesOf, SubSeq(StakesOf', 1, Len(StakesOf) + 1 - 1))
  BY <1>5, <1>6, <1>7, SameDecision
<1> HIDE DEF n
<1> QED BY <1>1, <1>7, <1>8, <1>9, <1>10 DEF Settler!Enter

(* resolve and voidMarket: nothing was ever undecided here. *)
LEMMA SettleImplements ==
  ASSUME CInv, status = "Open",
         \/ status' = "Resolved" /\ winner' \in Outcomes
         \/ status' = "Voided" /\ winner' = winner,
         UNCHANGED <<ledgerVars, paidOut, residueClaimed, escrow>>
  PROVE  Settler!Settle
<1>1. positions' = positions /\ residueClaimed' = residueClaimed /\ escrow' = escrow
  BY DEF ledgerVars
<1>2. positions \in Seq(Position)
  BY DEF CInv, TypeOK
<1>3. StakesOf' = StakesOf
  BY <1>1 DEF StakesOf, Count
<1>4. \A i \in 1..Len(StakesOf') : StakesOf'[i].undecided = 0
  BY <1>1, <1>2, <1>3, StakesAreViews, ViewsAreList
<1>5. Settler!Decision(StakesOf, StakesOf')
  BY <1>3, SameDecision
<1> QED BY <1>1, <1>4, <1>5 DEF Settler!Settle, Outcomes

(* What is owed for certain is never more than the settler holds. *)
LEMMA AlwaysCovered == CInv /\ Settled => Settler!Covered
<1> SUFFICES ASSUME CInv, Settled PROVE Settler!Covered
  OBVIOUS
<1> DEFINE owed == [i \in 1..Count |-> Settler!Owed(StakesOf[i])]
<1>1. /\ positions \in Seq(Position) /\ Count = Len(positions) /\ Count \in Nat
      /\ status \in {"Resolved", "Voided"} /\ escrow \in Int /\ acceptedPool \in Nat
      /\ paidOut \in Nat /\ LedgerOK(books, positions, acceptedPool)
      /\ books \in [Outcomes -> Book]
  BY SeqIsFun DEF CInv, TypeOK, LedgerInv, Settled, Count
<1>2. Len(StakesOf) = Count
  BY <1>1, StakesAreViews, ViewsAreList
<1>3. ASSUME NEW i \in 1..Count
      PROVE  /\ positions[i].accepted \in Nat
             /\ owed[i] = IF positions[i].claimed
                             \/ (status = "Resolved" /\ positions[i].outcome # winner)
                          THEN 0 ELSE positions[i].accepted
  <2>1. /\ StakesOf[i].claimed = positions[i].claimed /\ StakesOf[i].undecided = 0
        /\ StakesOf[i].remainder = 0 /\ StakesOf[i].outcome = positions[i].outcome
        /\ StakesOf[i].accepted = positions[i].accepted
    BY <1>1, StakesAreViews, ViewsAreList
  <2>2. positions[i].accepted \in Nat
    BY <1>1, StakeAt
  <2> QED BY <2>1, <2>2 DEF Settler!Owed
<1>4. Settler!TotalOwed = Sum(owed, Count)
  BY <1>2, SameSum DEF Settler!TotalOwed
<1> HIDE DEF owed
<1>5. CASE status = "Voided"
  <2>1. \A i \in 1..Count : owed[i] = Unclaimed(positions)[i]
    BY <1>1, <1>3, <1>5 DEF Unclaimed
  <2>2. Sum(owed, Count) = Sum(Unclaimed(positions), Count)
    BY <1>1, <2>1, SumEq
  <2>3. escrow = Sum(Unclaimed(positions), Count)
    BY <1>5 DEF CInv, MoneyInv
  <2> QED BY <1>1, <1>4, <2>2, <2>3 DEF Settler!Covered
<1>6. CASE status = "Resolved"
  <2> DEFINE pr == books[winner].principal
             paid == PaidOf(positions, winner, acceptedPool, pr)
             share == SharesOf(positions, winner, acceptedPool, pr)
             both == [i \in 1..Count |-> paid[i] + owed[i]]
  <2>1. /\ winner \in Outcomes /\ pr \in Nat /\ pr > 0 /\ pr <= acceptedPool
        /\ pr = Sum(StakedOn(positions, winner), Count)
    <3>1. winner \in Outcomes
      BY <1>6 DEF CInv, TypeOK
    <3>2. pr \in Nat
      BY <1>1, <3>1 DEF Book
    <3> QED BY <1>1, <3>1, <3>2, PrincipalWithinPool DEF LedgerOK
  <2>2. /\ paidOut = Sum(paid, Count)
        /\ escrow = IF residueClaimed THEN 0 ELSE acceptedPool - paidOut
        /\ residueClaimed => \A i \in 1..Count : StillLive(positions, winner)[i] = 0
    BY <1>6 DEF CInv, MoneyInv
  <2>3. Sum(share, Count) \in Nat /\ Sum(share, Count) <= acceptedPool
    BY <1>1, <2>1, SharesWithinPool
  <2>4. ASSUME NEW i \in 1..Count
        PROVE  /\ paid[i] \in Nat /\ owed[i] \in Nat /\ share[i] \in Nat
               /\ both[i] = paid[i] + owed[i] /\ both[i] \in Nat /\ both[i] <= share[i]
    <3>0. paid[i] \in Nat /\ share[i] \in Nat
      BY <1>1, <2>1, SharesAt
    <3>1. paid[i] \in Nat /\ share[i] \in Nat /\ owed[i] \in Nat
      BY ONLY <1>3, <3>0, i \in 1..Count
    <3>2. positions[i].outcome = winner => positions[i].accepted <= share[i]
      <4>1. positions[i].accepted <= (acceptedPool * positions[i].accepted) \div pr
        BY <1>1, <1>3, <2>1, ShareAtLeastStake
      <4>2. positions[i].outcome = winner => share[i] = (acceptedPool * positions[i].accepted) \div pr
        BY <1>1 DEF SharesOf
      <4> QED BY <4>1, <4>2
    <3>3. paid[i] = IF positions[i].claimed THEN share[i] ELSE 0
      BY <1>1 DEF PaidOf
    <3> HIDE DEF paid, share
    <3> QED BY <1>3, <1>6, <3>1, <3>2, <3>3
  <2> HIDE DEF paid, share, both, pr
  <2>5. Sum(both, Count) = Sum(paid, Count) + Sum(owed, Count)
    BY <1>1, <2>4, SumAdd
  <2>6. Sum(both, Count) <= Sum(share, Count)
    BY <1>1, <2>4, SumLe
  <2>7. Sum(owed, Count) \in Nat /\ Sum(paid, Count) \in Nat
    BY <1>1, <2>4, SumNat
  <2>8. CASE ~residueClaimed
    BY <1>1, <1>4, <2>2, <2>3, <2>5, <2>6, <2>7, <2>8 DEF Settler!Covered
  <2>9. CASE residueClaimed
    <3>1. \A i \in 1..Count : owed[i] = 0
      BY <1>1, <1>3, <1>6, <2>2, <2>9 DEF StillLive
    <3>2. Sum(owed, Count) = 0
      BY <1>1, <3>1, SumZeros
    <3> QED BY <1>4, <2>2, <2>9, <3>2 DEF Settler!Covered
  <2> QED BY <2>8, <2>9
<1> QED BY <1>1, <1>5, <1>6

(* claim: a winner at least its stake, a void exactly it, a loser nothing. *)
LEMMA ClaimImplements ==
  ASSUME CInv, NEW u, NEW i \in 1..Count, Claim(u, i)
  PROVE  Settler!Claim(i) /\ i \in 1..Len(StakesOf)
<1> DEFINE p == positions[i]
           s == StakesOf[i]
           t == StakesOf'[i]
<1>1. /\ status \in {"Resolved", "Voided"} /\ status' = status /\ winner' = winner
      /\ residueClaimed' = residueClaimed /\ ~p.claimed /\ p.accepted \in Nat
      /\ positions \in Seq(Position) /\ Count = Len(positions) /\ escrow \in Int /\ Count \in Nat
  BY ClaimMoves, SeqIsFun DEF CInv, TypeOK, Count
<1>2. ClaimedAt(positions', positions, i)
  BY <1>1, ClaimMoves, ClaimMarks
<1>3. /\ positions' \in Seq(Position) /\ Len(positions') = Count
      /\ \A j \in 1..Count : j # i => positions'[j] = positions[j]
  BY <1>1, <1>2 DEF ClaimedAt
<1>4. /\ Len(StakesOf) = Count /\ Len(StakesOf') = Count
      /\ s \in Settler!Stake /\ t \in Settler!Stake
      /\ s.outcome = p.outcome /\ s.accepted = p.accepted /\ s.claimed = p.claimed
      /\ s.undecided = 0 /\ s.remainder = 0
      /\ t.outcome = p.outcome /\ t.accepted = p.accepted /\ t.claimed
      /\ t.undecided = 0 /\ t.remainder = 0
      /\ \A j \in 1..Count : j # i => StakesOf'[j] = StakesOf[j]
  <2>1. /\ StakesOf = Views(positions) /\ StakesOf' = Views(positions')
    BY StakesAreViews
  <2>2. s = View(p) /\ t = View(positions'[i])
    BY <1>1, <1>3, <2>1, ViewsAreList
  <2>3. positions'[i].outcome = p.outcome /\ positions'[i].accepted = p.accepted
        /\ positions'[i].claimed
    BY <1>2 DEF ClaimedAt
  <2> HIDE DEF p, s, t
  <2> QED BY <1>1, <1>3, <2>1, <2>2, <2>3, ViewsAreList DEF p
<1> HIDE DEF p, s, t
<1>5. [s EXCEPT !.claimed = TRUE, !.remainder = 0] = t
  <2>1. t.claimed = TRUE
    BY <1>4 DEF Settler!Stake
  <2> QED BY <1>4, <2>1, SameButClaimed
<1>6. StakesOf' = [StakesOf EXCEPT ![i].claimed = TRUE, ![i].remainder = 0]
  <2>1. StakesOf = [j \in 1..Count |-> StakesOf[j]]
    BY <1>1 DEF StakesOf
  <2>2. StakesOf' = [j \in 1..Count |-> StakesOf'[j]]
    BY <1>3 DEF StakesOf, Count
  <2>3. [StakesOf EXCEPT ![i].claimed = TRUE, ![i].remainder = 0]
          = [StakesOf EXCEPT ![i] = [s EXCEPT !.claimed = TRUE, !.remainder = 0]]
    BY <2>1 DEF s
  <2>4. \A v : [StakesOf EXCEPT ![i] = v] = [j \in 1..Count |-> IF j = i THEN v ELSE StakesOf[j]]
    BY <2>1
  <2> QED BY <1>4, <1>5, <2>2, <2>3, <2>4 DEF t
<1>7. Settler!Covered'
  <2>1. (CInv /\ Settled)'
    BY <1>1, ClaimInv DEF Settled
  <2>2. (CInv /\ Settled)' => Settler!Covered'
    BY AlwaysCovered, PTL
  <2> QED BY <2>1, <2>2
<1>8. /\ status = "Voided" => escrow - escrow' - s.remainder = s.accepted
      /\ status = "Resolved" /\ s.outcome # winner => escrow - escrow' - s.remainder = 0
      /\ status = "Resolved" /\ s.outcome = winner => escrow - escrow' - s.remainder >= s.accepted
  <2>1. CASE status = "Voided"
    <3>1. escrow' = escrow - p.accepted
      BY <2>1, ClaimMoves DEF p
    <3> QED BY <1>1, <1>4, <2>1, <3>1
  <2>2. CASE status = "Resolved"
    <3> DEFINE x == SharesOf(positions, winner, acceptedPool, books[winner].principal)[i]
    <3>1. /\ x \in Nat /\ escrow' = escrow - x
          /\ p.outcome # winner => x = 0
          /\ p.outcome = winner => x >= p.accepted
      BY <2>2, ClaimMoves DEF p
    <3> HIDE DEF x
    <3> QED BY <1>1, <1>4, <2>2, <3>1
  <2> QED BY <1>1, <2>1, <2>2
<1> QED BY <1>1, <1>4, <1>6, <1>7, <1>8 DEF Settler!Claim, s

(* claimResidue: every winner is paid by then, and nothing is owed any more. *)
LEMMA ClaimResidueImplements ==
  ASSUME CInv, NEW u, ClaimResidue(u)
  PROVE  Settler!ClaimResidue
<1>1. /\ status = "Resolved" /\ books[winner].live = 0 /\ ~residueClaimed
      /\ residueClaimed' = TRUE /\ escrow' = escrow - (acceptedPool - paidOut)
      /\ status' = status /\ winner' = winner /\ positions' = positions
  BY DEF ClaimResidue, settleVars, ledgerVars
<1>2. /\ escrow = acceptedPool - paidOut /\ acceptedPool \in Nat /\ paidOut \in Nat
      /\ positions \in Seq(Position) /\ Count = Len(positions) /\ Count \in Nat
  BY <1>1, SeqIsFun DEF CInv, TypeOK, MoneyInv, Count
<1>3. ASSUME NEW i \in 1..Count
      PROVE  /\ StakesOf[i].outcome = winner => StakesOf[i].claimed
             /\ Settler!Owed(StakesOf[i]) = 0
  <2>1. positions[i].outcome = winner => positions[i].claimed
    BY <1>1, NobodyLeft
  <2>2. /\ StakesOf[i].claimed = positions[i].claimed /\ StakesOf[i].undecided = 0
        /\ StakesOf[i].remainder = 0 /\ StakesOf[i].outcome = positions[i].outcome
    BY <1>2, StakesAreViews, ViewsAreList
  <2> QED BY <1>1, <2>1, <2>2 DEF Settler!Owed
<1>4. Len(StakesOf) = Count /\ StakesOf' = StakesOf
  BY <1>1, <1>2, StakesAreViews, ViewsAreList
<1>5. Settler!TotalOwed = 0
  <2> DEFINE owed == [i \in 1..Count |-> Settler!Owed(StakesOf[i])]
  <2>1. \A i \in 1..Count : owed[i] = 0
    BY <1>3
  <2>2. Settler!TotalOwed = Sum(owed, Count)
    BY <1>4, SameSum DEF Settler!TotalOwed
  <2> HIDE DEF owed
  <2> QED BY <1>2, <2>1, <2>2, SumZeros
<1>6. escrow' = 0 /\ escrow' <= escrow
  <2>1. escrow >= 0
    <3>1. CInv /\ Settled
      BY <1>1 DEF Settled
    <3>2. escrow >= Settler!TotalOwed
      BY <3>1, AlwaysCovered DEF Settler!Covered
    <3> QED BY <1>5, <3>2
  <2> QED BY <1>1, <1>2, <2>1
<1> QED BY <1>1, <1>3, <1>4, <1>5, <1>6 DEF Settler!ClaimResidue

(* Who owns a stake, and what the clock says, is nothing to the interface. *)
LEMMA TransferImplements ==
  ASSUME CInv, NEW u, NEW i \in 1..Count, NEW to \in Users, TransferPosition(u, i, to)
  PROVE  UNCHANGED Settler!settlerVars
<1>1. /\ positions' \in Seq(Position) /\ Len(positions') = Count
      /\ \A j \in 1..Count : View(positions'[j]) = View(positions[j])
      /\ UNCHANGED <<status, winner, residueClaimed, escrow>>
  BY TransferMoves DEF View
<1>2. StakesOf' = StakesOf
  BY <1>1 DEF StakesOf, View, Count
<1> QED BY <1>1, <1>2 DEF Settler!settlerVars

LEMMA StepImplements ==
  CInv /\ [Next]_vars => [Settler!Next]_(Settler!settlerVars)
<1> SUFFICES ASSUME CInv, [Next]_vars PROVE [Settler!Next]_(Settler!settlerVars)
  OBVIOUS
<1>1. ASSUME NEW seed \in Seeds, Create(seed) PROVE Settler!Next
  BY <1>1, CreateImplements DEF Settler!Next
<1>2. ASSUME NEW u \in Users, NEW o \in Outcomes, NEW amount \in Amounts, Enter(u, o, amount)
      PROVE  Settler!Next
  BY <1>2, EnterImplements DEF Settler!Next
<1>3. ASSUME NEW u \in Users \cup {Resolver}, NEW w \in Outcomes, Resolve(u, w)
      PROVE  Settler!Next
  BY <1>3, ResolveSettles, SettleImplements DEF Settler!Next
<1>4. ASSUME NEW u \in Users \cup {Resolver}, VoidMarket(u) PROVE Settler!Next
  BY <1>4, SettleImplements DEF VoidMarket, Settler!Next
<1>5. ASSUME NEW u \in Users, NEW i \in 1..Count, Claim(u, i) PROVE Settler!Next
  BY <1>5, ClaimImplements DEF Settler!Next
<1>6. ASSUME NEW u \in Users, NEW to \in Users, NEW i \in 1..Count, TransferPosition(u, i, to)
      PROVE  [Settler!Next]_(Settler!settlerVars)
  BY <1>6, TransferImplements
<1>7. ASSUME NEW u \in Users, ClaimResidue(u) PROVE Settler!Next
  BY <1>7, ClaimResidueImplements DEF Settler!Next
<1>8. ASSUME UNCHANGED <<settleVars, ledgerVars, paidOut, residueClaimed, escrow>>
      PROVE  UNCHANGED Settler!settlerVars
  BY <1>8 DEF Settler!settlerVars, StakesOf, Count, settleVars, ledgerVars
<1>9. CASE Tick
  BY <1>8, <1>9 DEF Tick
<1>10. CASE UNCHANGED vars
  BY <1>8, <1>10 DEF vars
<1> QED BY <1>1, <1>2, <1>3, <1>4, <1>5, <1>6, <1>7, <1>9, <1>10 DEF Next

(* The classic settler keeps every promise of IParimutuelSettler on every market:
   a stake is accepted whole and paid once, a winner gets at least its stake and a
   void exactly gives it back, and no payment leaves less than is still owed. *)
THEOREM ClassicImplementsSettler == Spec => ImplementsSettler
<1>1. Init => CInv /\ Settler!Init
  BY InitInv DEF Init, Settler!Init, StakesOf, Count
<1>2. CInv /\ [Next]_vars => CInv' /\ [Settler!Next]_(Settler!settlerVars)
  BY StepInv, StepImplements
<1> QED BY <1>1, <1>2, PTL DEF Spec, ImplementsSettler, Settler!Spec

=============================================================================
