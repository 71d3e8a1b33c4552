---------------------------- MODULE VestedClient ----------------------------
(***************************************************************************)
(* A wallet that asks packages/client about a vested market, against what  *)
(* the settler does: the index has handled every block, and the wallet's   *)
(* transaction comes first in the next one.                                *)
(***************************************************************************)
EXTENDS VestedIndex

CONSTANTS
  VINTAGE_ENTRY_LIMIT,   \* entries of a vintage one query returns
  MAX_PAGED_ENTITIES,    \* how far a walk over positions goes
  Quotes                 \* the stakes a wallet asks about

Client == INSTANCE VenueClient
            WITH KIND <- "VESTED", UNBOUNDED <- KAPPA_UNBOUNDED, PPM <- 1000

\* What the client sees: the market as indexed, at the index's own head.
Seen == Client!DecodeMarket(index, kappa, TRUE)
HeadBlock == blockNo - 1
Asked == Indexed /\ ~opening

-----------------------------------------------------------------------------
(* What the settler would do with the transaction the answer leads to.     *)

\* The acceptance of an entry alone in its block: entering rolls a due vintage,
\* and what that leaves of the opposing books is what limits it.
SoleAcceptance(o, amount) ==
  LET after == BooksAfter(RollDue)
  IN  Min({amount} \cup {Headroom(after[w]) : w \in {x \in Outcomes \ {o} :
                                                after[x].capacity # KAPPA_UNBOUNDED}})

\* What withdrawRefund or claim pays the owner of position i now.
Owed(i) ==
  LET p == positions[i] IN
  CASE ~p.finalized \/ p.claimed -> 0
    [] status = "Open" -> Remainder(p)
    [] OTHER -> Settlement(p) + Remainder(p)

UnpaidWinners == {i \in DOMAIN positions : /\ positions[i].outcome = winner
                                           /\ ~positions[i].claimed}

\* What they will take, each on its own claim.
StillOwed == MapThenSumSet(LAMBDA i : Settlement(positions[i]), UnpaidWinners)

\* What claimResidue pays now, or nothing while it reverts.
ResidueDue ==
  IF status = "Resolved" /\ ~residueClaimed /\ books[winner].live = 0
  THEN acceptedPool - paidOut ELSE 0

-----------------------------------------------------------------------------
(* Properties.                                                             *)

\* What quote q of a stake says, against the acceptance of that stake.
KeptQuote(seen, o, amount, q, taken) ==
  LET within == q.maxFullyAccepted = None \/ amount <= q.maxFullyAccepted
      whole == Client!ArcTrade(q, o, amount, TRUE, FALSE, TRUE)
      any == Client!ArcTrade(q, o, amount, FALSE, TRUE, TRUE)
  IN  /\ q.reverts = (status # "Open" \/ now >= ResolutionTime)
      /\ ~q.reverts /\ ~seen.vintageOpen => q.accepted = taken
      /\ ~q.reverts /\ ~q.demandUnknown /\ seen.vintageBlock \in {None, HeadBlock} /\ within
           => taken = amount
      /\ ~seen.vintageOpen => (whole # <<>>) = (~q.reverts /\ taken = amount)
      /\ (any = <<>>) = q.reverts
      /\ \A steps \in {whole, any} \ {<<>>} :
           /\ steps[2] = [call |-> "enter", outcome |-> o, amount |-> amount]
           /\ steps[1].amount = steps[2].amount

\* A quote is what the settler does, and the calls handed back with it are for
\* that.  With no vintage open the acceptance is exact, so a caller who asked for
\* all or nothing gets calls only for a stake that is taken whole; with the head
\* block's vintage open, and read whole, a stake within the allowance is still
\* taken whole although the vintage is applied first.  No call is handed back
\* that would revert, and what is approved is what the entry pulls (arcQuote,
\* arcTrade).  (A vintage older than the head is outside the promise:
\* competingDemand takes it for rationed already, while the entry itself is what
\* rations it.)
QuoteHolds ==
  Asked => \A o \in Outcomes, amount \in Quotes :
    KeptQuote(Seen, o, amount,
              Client!QuoteFrom(Seen, HeadBlock, now, ResolutionTime, o, amount),
              SoleAcceptance(o, amount))

\* What wallet u is told it may pull, against what it can.
ExactClaims(seen, u, listed, residueDue) ==
  LET items == {[call |-> listed[k].call, argument |-> listed[k].argument,
                 amount |-> listed[k].amount] : k \in DOMAIN listed}
      mine == {i \in DOMAIN positions : positions[i].owner = u}
      pulls == {[call |-> IF status = "Open" THEN "withdrawRefund" ELSE "claim",
                 argument |-> i, amount |-> Owed(i)] : i \in {j \in mine : Owed(j) > 0}}
      sweeps == IF residueDue = 0 THEN {}
                ELSE {[call |-> "claimResidue", argument |-> 0, amount |-> residueDue]}
  IN  /\ items = pulls \cup sweeps
      /\ Client!ArcPositions(index, seen, u).claimableNow = MapThenSumSet(Owed, mine)
      /\ \A i \in mine : LET c == Client!ClaimFor(seen, IxPositions[i]) IN
           IF Owed(i) = 0 THEN c = None ELSE c.amount = Owed(i)

\* What is said of a residue that waits, against what will be left.
ExactResidue(blocked, left) ==
  blocked # None =>
    /\ status = "Resolved" /\ UnpaidWinners # {}
    /\ IF blocked.isUpperBound THEN blocked.amount >= left ELSE blocked.amount = left

\* What a wallet is told it can pull is what it can: every item names the call
\* that succeeds and the amount it pays, nothing owed is left out, both reads
\* price a position and a wallet alike, and a residue that waits for winners is
\* announced at what will be left (claimable, arcPositions, residueFor).  The three
\* queries of claimable are answered from one state of the index here; what is
\* left of the promise when a block is indexed between them is ResidueIsEnough.
ClaimablesAreExact ==
  Asked =>
    /\ \A u \in Holders :
         ExactClaims(Seen, u, Client!Claimable(index, Seen, Seen, index, u, ResidueOwner),
                     IF u = ResidueOwner THEN ResidueDue ELSE 0)
    /\ ExactResidue(Client!ResidueFor(Seen, Client!UnclaimedWinners(index, Seen.winner)).blocked,
                    acceptedPool - paidOut - StillOwed)

\* claimable read the market's row before the block of this step was indexed, and
\* walked its winners after.
ReadAcross == Client!ResidueFor(Seen, Client!UnclaimedWinners(index', Seen.winner))
BlockIndexed ==
  ~opening /\ index' # index /\ index.market # Ix!NoMarket /\ index.market.status = "Resolved"

\* What an answer says is left, ready or waiting, and what the winners will leave.
Announced(residue) == IF residue.blocked = None THEN residue.amount ELSE residue.blocked.amount
Leftover == IF residueClaimed THEN 0 ELSE acceptedPool - paidOut - StillOwed

\* A residue that is ready waits for no winner, and what is said to be left is never
\* less than what the winners leave, although a block was indexed between the
\* query for the market and the one for its winners (claimable, residueFor).
ResidueIsEnough ==
  [][BlockIndexed =>
       /\ ReadAcross.ready => (books[winner].live = 0)'
       /\ Announced(ReadAcross) >= Leftover']_allVars

==============================================================================
