# hunch-vpm in TLA+

This directory holds TLA+ specifications of the hunch-vpm prediction venue,
from its contracts through the index and the agent to the pages, the TLC
configurations that check them on small instances, and TLAPS proofs of what
matters most in each part that moves money or decides. Every definition is
translated from the source; `PROJECT.json` maps each one to its lines.

    tlc -workers 2 -config MCVestedMarket.cfg MCVestedParimutuel   # one run
    tlapm VestedParimutuelProofs.tla                               # one proof module

## 1. The system

Inventory of the parts, with the state each keeps and what makes it correct.

| part | source | state | operations | correct when |
|---|---|---|---|---|
| vesting settler | `contracts/src/VestedParimutuel.sol` | per market: books (P, A, C, V, D, live), positions, the open vintage, pool, paid out | create, enter, finalizeVintage, resolve, voidMarket, withdrawRefund, claim, claimResidue, transferPosition | every branch is solvent, nobody is diluted by a later entry, entries of one block do not vest to each other, capacity bounds hold, every remainder and payout is paid exactly once, the balance goes to zero |
| classic settler | `contracts/src/ClassicParimutuel.sol` | books (P, live), positions, participants | the same surface without vintages | the shares stay within the pool, a market of one participant voids, everything is paid out once |
| settlement interface | `contracts/src/interfaces/IParimutuelSettler.sol` | - | what the two have in common | each settler implements it |
| feed resolver | `contracts/src/FeedResolver.sol` | registered specs, settled flags | register, resolve, voidStale, preview | one settlement per market, through one spec, and a way out of the freeze |
| market factory | `contracts/src/MarketFactory.sol` | - | open | market and spec are created together, the legs go to the caller |
| price oracle interface | `contracts/src/interfaces/IPriceOracle.sol` | last reading per feed | read | readings do not go back or into the far future |
| CRE oracle and relay | `contracts/src/oracles/ChainlinkCreOracle.sol`, `cre/price-relay/*.ts` | readings, forwarder and workflow configuration, lock | onReport, configuration, a cron run | only the named workflow is believed once locked; every usable round arrives; the interface's promise |
| other adapters | `contracts/src/oracles/{ChainlinkFeed,Stork,Mock}Oracle.sol` | - | read | right conversion of one external value |
| keeper | `agent/src/keeper/*.ts` | none between runs | one pass over the specs | a call it sends was due on the chain it looked at, a void with the grace added; one bad spec does not stop the pass; markets get settled |
| agent | `agent/src/loop.ts`, `policy/`, `research/`, `intel/`, `circle/` | the snapshot and spending of a run; nothing between runs | research, decide, enter, pay, claim | enters a market once a run, sizes within the room it saw, gets back what it is owed |
| tier gate | `packages/agentkit-tier/src/*.ts` | spent nonces, budget windows, registry cache | verify, look up, consume, charge | a proof is used once while it is valid, a standing is not older than the cache allows, a window is not overrun by concurrent requests |
| client rail | `packages/client/src` | - | market reads, quote, trade, claims | a quoted acceptance is what the settler takes, a listed claim is what it pays |
| MCP server | `packages/mcp/src` | - | vpm_market_book, vpm_claimable, agent reputation | the tools say what the settler does, also when a read fails |
| venue subgraph | `subgraph/src/*.ts` | recomputed books, positions, markets, people, days | a handler per log | the index agrees with the contract and counts money and people once |
| ERC-8004 subgraph | `subgraph-erc8004-arc/src/*.ts` | identities, feedback, validations, running aggregates | a handler per log | aggregates are a recount, the index follows the registry |
| web surface | `apps/web/src` | selected network, pending transactions, expected entries | arithmetic of the pages; stake, close, collect, switch | the pages say what the settler does, a write goes where it was chosen, an entry appears |
| substreams tables | `substreams/src` | table rows | block handlers | the same as the subgraph |
| naive settler, scripts | `contracts/src/NaiveVestedParimutuel.sol`, `contracts/script`, `scripts` | - | - | benchmark and run-once code |

**How they interact.** The factory creates a market at a settler and registers
its spec with the resolver in one transaction. Users stake at the settler. A
cron workflow copies rounds of the source chain's feeds to the oracle, through
a forwarder that may deliver late or twice. A keeper reads the resolver's
preview and sends `resolve` or `voidStale`; the resolver reads the oracle and
calls the settler. After a timeout anyone may void at the settler itself. The
settler's logs carry offers, not acceptances; the subgraph handles them block
by block and reads the settler back. The client computes quotes and claims from
the index, the MCP tools and the pages compute more from the client, and the
agent and the viewer act on that at a settler that has moved on since. Another
index follows the ERC-8004 registries, and the client shows a market's wallets
with the record that index has of them. The tier gate stands before a server
and asks AgentBook, on another chain, who an agent's human is.

**What is hard.** Contract calls are atomic, so the difficulties there are
long sequences of legal calls, integer rounding, and the lazily rolled vintage
that every function has to finalize first. Between the contracts and the
off-chain parts they are interleaving: stale reads, two clocks, calls that
land late, reports out of order, several parties racing at the freeze, awaits
between a check and its use, a process that dies with a transaction under way,
an index that sees a block's last state when it handles the block's first log,
and three implementations (index, client, pages) of the contract's arithmetic
that must agree. `PROJECT.json` lists each hazard at its line.

## 2. Modules

| module | models | builds on |
|---|---|---|
| `Sums` | sums over positions, as a recursive function | |
| `SeedClamp` | `_seedClamp`, pass by pass | |
| `VestedParimutuel` | one market of the vesting settler, all nine entry points | `SeedClamp`, `Sums` |
| `ParimutuelSettler` | **abstract**: what the settlement interface promises | `Sums` |
| `VestedRefinement` | the refinement mapping of the vesting settler | `VestedParimutuel`, `ParimutuelSettler` |
| `ClassicParimutuel` | one market of the classic settler, with its refinement mapping | `Sums`, `ParimutuelSettler` |
| `PriceOracle` | **abstract**: what an oracle promises | |
| `PriceRelay` | source rounds, workflow, forwarder and CRE oracle | implements `PriceOracle` |
| `Resolution` | factory, resolver and the settler's status, over an abstract oracle | `PriceOracle` |
| `Keeper` | keeper runs beside the chain of `Resolution` | `Resolution` |
| `VenueIndex` | the subgraph's handlers, as operators on the store | `Sums` |
| `VestedIndex` | the vesting settler, opened by the factory, with its logs and the index | `VestedParimutuel`, `VenueIndex` |
| `ClassicIndex` | the classic settler with its logs and the index | `ClassicParimutuel`, `VenueIndex`, `WebMath` |
| `VenueClient` | the client's reads, quote and claims, as operators on the index | |
| `VestedClient` | what they say against what the settler does | `VestedIndex`, `VenueClient` |
| `VenueTools` | the MCP tools, as operators on the client's answers | |
| `WebMath` | the pages' arithmetic, as operators | |
| `VestedSurfaces` | what tools and pages say against the settler and each other | `VestedClient`, `VenueTools`, `WebMath` |
| `AgentPolicy` | decoding, estimate and the ten steps of a decision, as operators | `Sums` |
| `AgentLoop` | agent runs, their transactions, the venue and the index | `AgentPolicy` |
| `AgentProof` | building and parsing an agent's proof, as operators | |
| `TierGate` | concurrent requests through the gate | `AgentProof` |
| `ReputationIndex` | the ERC-8004 subgraph's handlers, as operators on the store | |
| `TrustReads` | who stands on the other side of a market, as operators on two indexes | |
| `AgentRegistries` | the registries (external), their logs, both indexes | `ReputationIndex`, `TrustReads` |
| `WebFlow` | one tab: networks, wallet, transactions, polling | |
| `SeedRule` | what the clamp of `create` is for, as a property | `VestedParimutuel` |
| `SumTheorems`, `VestedParimutuelProofs`, `VestedIndexProofs`, `ClassicParimutuelProofs`, `CallerProofs`, `PriceRelayProofs`, `TierGateProofs`, `AgentLoopProofs` | theorems (section 4) | |
| `MC*` | constants for TLC | |

The contracts compose through the two abstract specifications. `Resolution`
does not contain a whole settler or a whole oracle: it uses the status part of
the one and the promise of the other, and other runs show that the detailed
modules keep both. The off-chain parts compose the other way: index, client,
tools and pages are pure operators, stacked on the one concrete settler in
`VestedIndex`, `VestedClient` and `VestedSurfaces`, so that what the last of
them says is compared with what the first would do.

### VestedParimutuel

A market of the contract shares nothing with other markets except the token
balance. So one market is a whole model: its slot (`status`, `winner`, `books`,
`acceptedPool`, ...), its slice of `positions[]`, its open vintage, and
`escrow`, the part of the token balance it has put in and not taken out. An
action's guard is the conjunction of its function's early reverts, because a
transaction that reverts changes nothing. `blockNo` and `now` are the chain's.

* Position ids, absolute in the contract, are 1, 2, ... here; the seed legs are
  the first N, in outcome order. Outcome `o` is `o + 1`. `winner` is 0 until
  resolved.
* The unbounded capacity sentinel `type(uint256).max` is the number -1
  (`KAPPA_UNBOUNDED`), kept apart from every amount by an explicit test as in
  `_times`, `_addCapacity` and `_headroom`.
* A roll (`_rollVintage`) is not an action. `enter`, `finalizeVintage`,
  `resolve`, `voidMarket` and `withdrawRefund` each compute, with `BooksAfter`,
  `PositionsAfter`, ..., the state that the roll inside them leaves, and go on
  from it. `RollReverts` is when that roll reverts: an entry accumulator beyond
  128 bits (`_u128`), or a capacity beyond 256 (`_times`, `_addCapacity`); every caller's
  guard has its negation. `ClampOverflows` is the same of the clamp in `create`. A finite
  capacity that happens to equal the sentinel is not told apart from it in the code, and
  is not modelled.
* The passes of `_finalizeVintage` are `Accepted` (rationing against
  vintage-start headroom), `AccAfter` (vesting) and `FinalBooks`,
  `FinalPositions` (joining).

Every token transfer is its function's last effect, so a function is one step.

### ParimutuelSettler, VestedRefinement, ClassicParimutuel

The abstract settler keeps a list of stakes, each undecided or split into an
accepted and a refused part, and a balance. How much is accepted and what a
winner gains are left open; that a stake is decided once, settled at least at
its principal if it wins, paid once, and that the balance at every moment
covers what is certainly owed (`Covered`), is not. The mapping takes an
unfinalized position as undecided, a finalized one as accepted plus remainder
(unless it was refunded), and `escrow` as the balance. A vesting roll without
anything else is `Decide`.

`ClassicParimutuel` additionally keeps the set of addresses that
have staked, because `resolve` voids a market of one participant.

### PriceOracle, PriceRelay

`PriceRelay` keeps the rounds of every source feed, the set of signed reports
(never removed: the forwarder may deliver any of them again, in any order), the
oracle's readings and its configuration. `RelayRun` is one cron run. `OnReport`
is the delivery with all of `_apply`, entry by entry. `ForeignRun` is a report of another
workflow that targets the same oracle with a price nobody published, and only for the feeds whose description the workflow knows (`Described`). Prices
are scaled by `To8`, with truncation; an answer that overflows when it is scaled up reverts the whole
report (`Overflows`); the scale is a
constant so that TLC can use scales of 0, 1 and 2 digits instead of 8 and 18.

### Resolution, Keeper

`Resolution` has one market and a set of specs that name it, one of which the
factory may open it with and any of which anyone may register. A resolver call
and the settler call in it are one action since they revert together. `Keeper` adds runs
(`idle` or `reading`, the index of the spec, the clock value read at the start,
and the three answers received so far) and how many copies of each call are sent and not
yet mined. `due` is memory: which calls were due at some moment since the run began.
The three parallel reads of `createChainReader` are three actions, so the chain
may move between any two of them.

### VenueIndex, VestedIndex, ClassicIndex

`VenueIndex` is a library: `Handle(ix, e, chain)` is the store after one log.
The market's id is left out of every key; an entity's fields are those of the
schema that carry an amount, a count or an owner. `chain` is what a contract
read answers, the state at the *end of the log's block*: graph-node's `eth_call`
sees no less. `VestedIndex` makes every transaction of the settler leave its
logs in `log`, and handles the whole of it, in order, when the block is over
(`Block`). The market is opened by the factory, whose transfers of the seed legs
to the caller are steps of the same block (`HandLegOver`) that nobody else's call
comes between. A market the index has not met is `NoMarket`; the loop over the vintage's pending
entries books one entry after the other (`AcceptPending`). The index is compared with the contract between blocks.
`ClassicIndex` does the same for the classic settler, whose claims on a voided market log a refund
and no payout.

### VenueClient, VestedClient

The decoders, `bestHeadroom`, `impliedOdds`, `marketBook`, `vestingEarned`,
`claimable`, the acceptance quote and the trade it is turned into, as operators of
one answer of the index. A page of a query is cut where the gateway cuts it
(`FirstIn`). `claimable` makes its queries one after the other, so the operator takes the
index of each. `VestedClient` asks them at every moment when the index has handled all
blocks, and compares a quote with what `Enter` would have accepted if it is the
next block's first transaction, and a list of claims with what the settler pays
for each. `ReadAcross` is the residue of a market whose row was read before a block was
indexed and its unclaimed winners after.

### VenueTools, WebMath, VestedSurfaces

`VenueTools` is what the MCP tools say; each read may be the client's answer or
`Failed`, and the fallback that follows is modelled. `WebMath` is `lib/vpm.ts` (the
settlers' rules on plain values), `simulate.ts` (the replay behind the fixture
markets), and what `live.ts` and the panels make of the client's answers.
`VestedSurfaces` compares both with the settler and with each other.

### AgentPolicy, AgentLoop

`AgentPolicy` has the decoders, the estimate and the ten numbered steps of
`decide`, in their order. `AgentLoop` is the operator's process: a `job` with a
program counter, one action per await. `Start` begins a run, a decision or a claim,
`Post` hands a transaction to Circle under an idempotency key (it may be refused, or lost before or
after Circle took it), `Land` puts it on chain at any later time, `Poll` may run out of attempts before
that, and `Rejects` ends the process at any await. The venue moves by arrivals
of other stakes, by its vintage rolls and its settlement; `index` is a copy of it
that catches up whenever it does. The settler appears with what an entry needs of
it: an entry that lands is only buffered, in the `vintage` of its block with the entries
others put in the same block, and the next call after the block rations them all
together (`AcceptedOf`, `Demand`). Circle may deny any queued call (`Denied`).

### AgentProof, TierGate

`AgentProof` builds and reads the header: text is a sequence of lines of a kind, so
that a message with a missing, repeated or joint field can be told from a right one.
`TierGate` runs one request per slot through `gate.ts` and `verify.ts`, one action
per stretch between two awaits: the checks on the fields, the expiry among them, are `Verify`, what
follows the recovery of the signer is `Recover`. The store (`nonces`, `counters`) and the registry
cache are shared. `honoured`, `charged`, `passed` and `lastWas` only remember what
happened. The signature check is external: a proof carries who signed it.

### ReputationIndex, TrustReads, AgentRegistries

`ReputationIndex` has the handlers of the three registries with every entity they
write. `AgentRegistries` adds the contracts, which are not in the repository and are
modelled from what handlers and readers say of them; where those leave the order of
the logs of one transaction open, so does the model. The three data sources start
at blocks of their own. `TrustReads` merges a market's holders with the identities
they own or sign for.

### WebFlow

One tab. Each write is a chain of steps: the press (`PressEntry`, `PressClose`, `PressPull`), the answer to
the prompt to switch (`SwitchAnswered`), the write pinned to the network the press was for (`SendWrite`), `Mine` or `Reject`, and the
`Receipt`. In between the viewer may choose another network, walk to
another page, reload, and the wallet may change its chain. Reads are a request, an answer taken at some
moment, and its arrival, which may be later than the next choice of network. `age`,
`armed` and `expected` are the cache's staleness and the polling policy of
`positions.ts`. The hooks of the two places that can close a vintage are one, as are those of the
rows of the claim list; the banner's prompt is answered at once (an answer that comes later is a
wallet that moves on its own, since nothing waits for it); a claim list is taken from an index
state of any age; `promised` forgets an entry whose wait lapsed or that a reload lost, since the page
then no longer promises it.

## 3. Runs

| run | instance | shows |
|---|---|---|
| `vested_open` | 3 outcomes, uneven seed, kappa 1, 2, unbounded, 3 entries of 1 or 3 over 4 blocks, a roll that reverts for the accumulator or the capacity, market open; the clamp on every seed up to 5 a leg | `ClampIsGreatest`: the clamp's result satisfies Rule 2, lies above every other vector that does, and is reached in two passes. `PayoutsCovered`, `ResidueIsRounding`, `VestsOnlyToEarlier`, `ClaimsNeverDiluted`, `VestsWithinCapacity` |
| `vested_market` | 2 outcomes, 2 users, 2 entries, timeout, every settlement, fair | `TypeOK`, `NothingPendingOnceSettled`, `EscrowBacksLedger`, `ImplementsSettler`, `EventuallyDrained` |
| `classic` | 2 outcomes, 2 users, an entry besides the legs, the index beside it, fair | `HoldersMadeWhole`: nobody refunded is shown as a loser. `ImplementsSettler`, `EventuallyDrained` |
| `relay` | 2 feeds, one coarser and one finer than the reader's scale, 1 and 2 rounds, 2 owners, fair | `LockedReadsTheSource`, `ImplementsOracle`, `RoundsArrive` |
| `resolution` | 3 specs (two the factory may open with, a rival with other terms), 2 feeds, fair | `OneSpecSettles`, `EventuallySettled` |
| `keeper` | 1 keeper, its own spec and a rival listed before it, fair | `CallsWereDue`, `KeeperSettles` |
| `tier_gate` | 2 slots, 3 requests, 2 valid proofs and a forged one, 1 mishap | `SpentAgainOnlyAcrossExpiry`, `StandingWasRecent`, `RateLimitsHold` |
| `agent` | 1 market, 2 rounds, 2 runs, 2 polling attempts, 1 mishap, 1 foreign stake, fair | `EnteredOncePerRun`, `RationedOnlyByMovement`, `StakesComeBack` |
| `venue_index` | factory-opened 2-way market whose leg is cut, 2 entries of 4, 1 sale, quotes of 1 and 6, blocks to 5 | `FollowsTheSettler`, `CountedOnce`, `PreviewIsWhatClaimPays`, `QuoteHolds`, `ClaimablesAreExact`, `ResidueIsEnough`, `ToolsAgree`, `SurfaceAgrees` |
| `registry` | 2 identities, 2 holders, 1 rater, 4 transactions, sources that start together or apart | `AggregatesAreARecount`, `IdentityFollowsRegistry`, `ReputationIsTheHolders` |
| `web` | 2 networks, one the wallet can be asked to add, patience of 2 polls, 3 acts | `WritesAsChosen`, `ShownInTheEnd` |
| `stuck_roll` | as `vested_market`, a large kappa and one creator's seed, fair | **violated**: `AnyoneMayVoid` |

`CHECK_DEADLOCK FALSE` is right everywhere: a market whose last claim is paid,
a tab nobody touches, and a clock at the end of its bound, stop.

### Bounds

* *SCALE = 4* instead of 1e18. Rounding happens in every vesting, more often
  than with the real scale, so the rounding properties are checked harder.
* *Seeds.* `<<3, 7>>` and `<<2, 5>>` divide nothing evenly and are cut by a kappa of 2;
  `<<1, 2, 3>>` is cut differently by kappa 1 and 2.
* *Entries.* Two or three entries make every shape that the rationing and
  vesting distinguish: two on one side in one block, two on opposite sides in
  one block, one after the other, one refused in full, one rationed in part by
  the tighter of two books. Three outcomes are needed for the last.
* *MaxU128, MaxU256.* `vested_open` has 40 and 10000 with a kappa of 2000 among the
  others, so that a roll reverts for either reason and create for its clamp; elsewhere both are out of reach, but for
  `stuck_roll` (kappa 2000, 16000: the seed's capacity fits, one more stake's does not). A classic leg of 90 exceeds a bound of 50 and is refused.
* *MaxTime.* One second past the timeout, so that both sides of every deadline
  are reached. `vested_open` keeps time at 0: its properties are about the open market.
* *MaxLogs.* The logs a block may collect: two or three transactions, which is what
  reading the end of the block instead of the middle needs.
* *venue_index.* Quotes of 1 and 6 lie below and above the room; a page of one vintage entry, of two
  positions and of one lookup is shorter than what there is, so that every cut list is met.
* *relay.* Two rounds of one feed are what replays and reordering need; a
  second feed is what a partly usable report needs. The source clock may be one
  tick ahead of the chain's, with no tolerance, so a round must be refused first
  and accepted later. The coarse feed has a round that fits and one that overflows when it is
  scaled; both feeds have the description the workflow expects.
* *resolution.* Prices below, at and above the strikes; ages below, at and
  above the staleness bounds; the timeout before the end of time.
* *keeper.* A grace of one tick, and a keeper clock that is right or one tick
  ahead. One keeper only: two whose runs overlap exceed the run's time. Its
  successive runs still overlap with its own unmined calls, two copies of one call at most
  (`MaxPending`), and the calls of
  everybody else are the actions of `Resolution`.
* *tier_gate.* Two requests interleave at every await; the third comes when a
  nonce, a window or a cache entry is old. A window of two ticks, a cache of one entry
  and lives of one tick are met at their ends.
* *agent.* Two runs, so that what the first left under way lands in the second; one mishap,
  at any of the calls; one foreign stake, between any read and the entry that relied on it, in its block or in an earlier one.
* *registry.* Two identities are what a wallet needs to hold one and sign for the other;
  four transactions reach mint, rate, sell and revoke.
* *web.* Three acts are an entry, a detour and another write; two polls' patience
  is what an index one step late needs and one two steps late exceeds.

### Fairness

Only of what the code or the chain schedules or leaves open to anyone:

* the chain: blocks and time advance;
* `voidMarket` after the timeout: open to anyone, and the exit the docs
  name;
* claims and the residue: their owners want the money. Without them nothing
  drains, and `EventuallyDrained` says so only under this assumption.
  Neither `resolve` nor `transferPosition` nor `withdrawRefund` is fair. In `ClassicIndex`
  time and the void are strongly fair: a call waits for a block with room, which comes
  again and again (`[]<>(log = <<>>)`) but may be full at any moment;
* the relay: the cron fires, and the forwarder delivers a report that
  would still change a feed's reading, until it does. `RoundsArrive` also
  supposes that the oracle is from some time on configured for the relay;
* the keeper: cron runs start, a run goes on, sent calls are mined.
  `KeeperSettles` also supposes that from some time on the feed is fresh and
  reads and sends for the market's own spec do not fail. Nothing is assumed of the
  rival spec listed before it. The settler's timeout lies beyond
  the run's clock, so the keeper's call is what settles the market;
* the agent: a process goes on, is not hung in its two local steps, the operator starts claim
  runs again and again, the index catches up, and what Circle accepted lands;
* the tab: polls tick, the index follows its chain, requests are served and arrive.
  Nothing is assumed of the viewer or the wallet; `ShownInTheEnd` is about a viewer
  who from some time on stays connected on the network.

### What was observed on the way

The violated run is a disagreement between code and text:

* **An entry can close the exits.** The roll books an accepted stake's capacity with checked
  arithmetic and narrows the entry accumulator to 128 bits. If either fails, every call that rolls
  that vintage reverts from then on, `voidMarket` too, which is documented as open to anyone after the
  timeout: nobody is ever paid. In the run a large kappa, which `create` accepts because the
  seed's own capacity still fits, does it with one ordinary entry (`VestedParimutuel.sol:375`, :574,
  :584). The accumulator does it with no kappa at all, but at the real scale it takes an opposing stake
  beyond 3e20 times the book's principal (:370).

Others are not runs of their own. The models contain each of them, and where a property would
otherwise fail for it the property's comment says what is left of it.

* *A rival spec may settle.* A spec's terms cannot be edited, but another one that names the same
  market can be registered at any time by anyone, and the first to be resolved wins
  (`FeedResolver.sol:80`, against the comment at :14-16). With a staleness bound of 0 it also voids
  at once, so that a market voids through a spec whose feed is quiet by *that spec's* measure only, and
  the brief outage of the comment at :106 is no protection against it. No property here says otherwise.
* *A proof may be honoured twice across its expiry.* The expiry is checked before the signature, the
  registry and the store are awaited (`verify.ts:280`, :324), and the store forgets a nonce at
  the expiry (`storage.ts:85`). Of two requests with one proof that were checked in time, one may
  reach the store after the nonce of the other was forgotten. `storage.ts:18` promises one
  acceptance of two concurrent calls, and lets the entry go at the expiry; `SpentAgainOnlyAcrossExpiry` says that this is
  the only way a proof is spent twice.
* *A residue may be listed too large.* `claimable.ts` reads the market's row (:160) and counts its
  unclaimed winners (:99) in separate queries, which nothing pins to one block. A claim indexed in between
  leaves no winner and the old paid-out sum, so the item called ready includes what that winner was paid
  (and a residue owner who is that winner is shown it twice), against the comment at :101.
  `ResidueIsEnough` says what holds: what is ready waits for no winner, and no less is announced than is left.
* *A burned identity still counts.* The trust read neither selects nor filters `burned`
  (`queries.ts:264`), so whoever still signs for a burned identity keeps its agent id, counts in
  `registeredShare` and is printed as a registered wallet (`market-book.ts:401`, against `domain.ts:146`). Only the
  lookup of one wallet (`vpm_agent_reputation`) knows. `ReputationIsTheHolders` counts such a wallet as registered, as the code does.
* *One answer can hold up a report.* `_to8` overflows on a large enough answer of a coarse feed
  (`ChainlinkCreOracle.sol:155`) and reverts the report with the other feeds' entries in it, against the
  comment at :131. `RoundsArrive` exempts exactly these rounds (`Blocked`).
* *"Not backed" without asking.* `agent-directory.ts` takes `agentBookVerified` of the venue's
  `Agent` row for AgentBook's answer. The row is created with `false` and nothing writes it
  again, so every wallet that has staked is reported as not backed by a human, though
  `domain.ts` says an absent proof means "unknown".
* *A charge that lands after its window* (`ratelimit.ts`) is counted in the window it was computed for, whose counter is gone by then;
  `RateLimitsHold` counts the charges of a window while it lasts.
* *The creator's floor is up to rounding.* The payout is floored after an
  accumulator that was floored, so one unit of the seed may go to the residue owner, who
  may be somebody else.
* *`ready` does not look at the market.* After a timeout void at the settler,
  `preview` still answers ready while `resolve` reverts.
* *The price that decides is the latest when somebody calls*, not the one at the freeze.
* *The factory is its markets' first participant*, so `distinctParticipants` counts one more.
* *A quote from a stale vintage can overstate the room.* The client's headroom and the fields the
  pages call upper bounds are not bounds while an open vintage that the next call rolls will
  change the capacity; `QuoteHolds` and `SurfaceAgrees` are stated for what does hold.
* *Two picks of the best outcome.* `domain.ts` derives the outcome with the most room again when
  the client's pick is null or failed; with a vintage open they may name different outcomes, and the
  fallback is not declared. With three or more outcomes the headroom called binding may exceed the smallest opposing one.
* *A refund annotated with vesting.* The claimable tool attaches the vesting earned to void refunds too,
  which a void does not pay; `PositionPanel` shows the winning payout under "Refund" on a voided vested market.
* *The comparator's new entry* is never ahead under the vested rule, by construction of the replay.
* *The pages' memory.* The allowance is not read again after an approval (`EntryFlow.tsx:91` says it
  is); a reload before the index has an entry forgets it (`positions.ts:39`, against `EntryFlow.tsx:263`);
  `ClaimList` refetches once, which may race the index; the close button stays hidden for later entries until the page
  is mounted again, and is not disabled while a switch prompt is open; `StakePanel` speaks of a remainder refundable at once,
  which it is once the vintage closes. Right after the viewer's choice of a network a market's old settler may be
  paired with the new chain until the server half is rendered again (`network.tsx:42`).

Each property of a passing run has a mutant in `PROJECT.json`: a plausible
slip in the code's translation (an accumulator rounded up, a demand not reset,
a nonce forgotten early, a poll for the wrong entry) under which TLC finds that
property violated. The mutated forms stand before the definitions they replace.

## 4. Proofs

All for every value of the constants that the ASSUMEs allow: any number of
outcomes from 2, any scale, width, seeds, kappas, amounts and bounds; for the
index any number of transactions and logs in a block besides; for the
resolver any set of specs, feeds and keepers, any freeze, timeout and grace; for
the relay any feeds, scales, answers, rounds and configurations; for the gate
any number of requests, windows and limits; for the agent any markets, policy,
quotes, attempts, rounds, runs and mishaps; for the web any networks and wallet.

| theorem | module | statement |
|---|---|---|
| `TypeCorrect` | `VestedParimutuelProofs` | `Spec => []TypeOK` |
| `SettledIsFinal` | `VestedParimutuelProofs` | `Spec => []NothingPendingOnceSettled` |
| `PoolAlwaysSplits` | `VestedParimutuelProofs` | `Spec => []PoolSplits` |
| `Solvency` | `VestedParimutuelProofs` | `Spec => []PayoutsCovered` |
| `GreatestSeed` | `VestedParimutuelProofs` | `Spec => []ClampIsGreatest` |
| `NeverDiluted` | `VestedParimutuelProofs` | `Spec => ClaimsNeverDiluted` |
| `WithinCapacity` | `VestedParimutuelProofs` | `Spec => VestsWithinCapacity` |
| `DustOnly` | `VestedParimutuelProofs` | `Spec => []ResidueIsRounding` |
| `YoungerNeverShare` | `VestedParimutuelProofs` | `Spec => []VestsOnlyToEarlier` |
| `EscrowIsTheLedger` | `VestedParimutuelProofs` | `Spec => []EscrowBacksLedger` |
| `VestedImplementsSettler` | `VestedParimutuelProofs` | `Spec => ImplementsSettler` |
| `IndexedSettler` | `VestedIndexProofs` | `IndexSpec => Spec` |
| `IndexFollows` | `VestedIndexProofs` | `IndexSpec => []FollowsTheSettler` |
| `PreviewsArePaid` | `VestedIndexProofs` | `IndexSpec => []PreviewIsWhatClaimPays` |
| `ClassicImplementsSettler` | `ClassicParimutuelProofs` | `Spec => ImplementsSettler` |
| `SettledThroughOneSpec` | `CallerProofs` | `ResolutionSpec => []OneSpecSettles` |
| `SettledForGood` | `CallerProofs` | `ResolutionSpec => SettlementIsFinal` |
| `CallsAreDue` | `CallerProofs` | `KeeperSpec => []CallsWereDue` |
| `RelayImplementsOracle` | `PriceRelayProofs` | `Spec => ImplementsOracle` |
| `LockedReads` | `PriceRelayProofs` | `Spec => LockedReadsTheSource` |
| `ProofsSpentAgainOnlyAcrossExpiry` | `TierGateProofs` | `Spec => []SpentAgainOnlyAcrossExpiry` |
| `StandingsAreRecent` | `TierGateProofs` | `Spec => []StandingWasRecent`, for positive lifetimes |
| `LimitsAreKept` | `TierGateProofs` | `Spec => []RateLimitsHold` |
| `OneEntryARun` | `AgentLoopProofs` | `Spec => []EnteredOncePerRun` |
| `SizedToTheRoom` | `AgentLoopProofs` | `Spec => RationedOnlyByMovement` |
| `WritesGoWherePressed` | `CallerProofs` | `FlowSpec => []WritesAsChosen` |

**Assumptions.** For the settlers: `SizeAssumption` (N at least 2),
`PassAssumption` (the clamp may run at least twice), `ScaleAssumption` (S > 0),
`WidthAssumption`, `WordAssumption`, `UserAssumption`, `TimeAssumption`, `InputAssumption`,
`BoundAssumption` and their classic counterparts: the types of the constants, no
more. For the index, those of the vesting settler, `OpeningAssumption` (the
opener is a user, and not the factory) and `NullAssumption`, that the store's
null is not a number. For the resolver `TimeAssumption` alone is used: freeze and timeout are
numbers; for its keepers `KeeperAssumption`, the types of their list, their feeds'
bounds and the grace. For the relay, besides types: `ForeignAssumption`, that
the other workflow has another author and another id than the relay's; and
`PowersAssumption`, the laws of powers of ten that a change of scale uses,
because the provers know no arithmetic of `^`. For the gate: `ProofsName`, what
the parser makes of a readable proof (a wallet, and an expiry or none), and
`LifetimesAreTimes`; `StandingsAreRecent` alone asks that the two lifetimes be
positive, as the defaults are (with a lifetime of 0 nothing is cached, and the
property's strict bound would ask an answer to be later than its question). For
the agent: `LiveWiring`, what live mode refuses to start without, and that others stake more than nothing; `PolicyConfig`, the ranges `policy/config.ts` gives its fractions and
tickets; `NoneIsNothing`, that a field left out is neither a number nor a reason
to reject; `TermsAssumption`, that a watched market starts with books in the
ranges of the contract, each with the headroom its capacity leaves, as `create`
makes them; and `AnswersAssumption`, that feed and reputation index answer in
numbers or leave a field out, which the decoders insist on. For the web, that the default network is
one of the networks. TLC evaluates all of them in the runs.

**Argument, settler.** None of the settler's invariants is inductive. Solvency
needs that each book's P and V are what the positions hold, since the roll
vests `floor(inflow * S / P)` to each unit of *P*; that needs the pool to
split; both need that the positions of the open vintage are exactly the
unfinalized ones, that they carry no accepted stake and no entry accumulator
yet, and that no finalized position has an entry accumulator above its book's.
`IInv` in `VestedParimutuelProofs` is their conjunction with `TypeOK` and, once
a market exists, non-empty books (the division is then by a positive number).
Its part `VintageInv` says that an open vintage belongs to a past block or to
one in which the freeze had not come: so the roll inside `resolve` and
`voidMarket` is always due, and nothing is left pending (`SettledIsFinal`). Its
ledger part is stated over *any* books and positions (`LedgerOK`), because one
call rolls the vintage and appends an entry:

* `LedgerSeed`: the books and legs that `create` makes satisfy it;
* `LedgerRoll`: finalizing a vintage preserves it. The branch w gains the
  vintage's whole accepted stake in the pool and owes at most its own joiners'
  principal plus `P * floor(inflow * S / P) <= inflow * S`;
* `LedgerAppend`: an entry that is still pending preserves it;
* `LedgerFrame`: claims, refunds and transfers do not touch what it reads.

Every action is one or two of these. `NeverDiluted` then shows for each action
that it keeps the terms of every finalized stake and lowers no accumulator
(`StepKeepsTerms`), and that a payout grows with the accumulator.

**Argument, clamp.** The fixed point of `_seedClamp` has a closed form: every leg
cut to kappa times the *least* offered leg (`Clamped`). A leg updated from a
vector of which some legs are clamped already and the others are still as
offered comes out clamped (`ClampLegIs`): no leg in such a vector is below the
least one, unless kappa is 0 and all of them are nothing, and some other leg is
the least or it is itself. So the first pass clamps every leg, in whatever
order, and the second changes nothing. Whoever keeps Rule 2 has a least leg no
greater than the offer's, hence nothing above it (`ClampedIsGreatest`).

**Argument, batches.** `ResidueIsRounding` is `LedgerRoll` read the other way:
what is lost in a roll is less than P, because a floor loses less than one
(`DivTight`), and it is lost at most once per vintage that vested into the
branch; P never shrinks, so the losses of smaller books stay covered.
`VestsOnlyToEarlier` speaks of one stake; its inductive form (`BatchOK`) speaks
of all stakes on w from any vintage v on: together they have gained no more than
the stakes against w younger than v. It needs that finalized stakes are of
closed vintages and of blocks gone by, and all others of the one open vintage
(`AgeInv`).

**Argument, balance.** `EscrowBacksLedger` says nothing of an individual claim
before the market settles, so it needs `MoneyInv`, which counts the same
balance by three lists: the remainders not pulled and the pool while the market
is open, the remainders and the unclaimed principals on a void, the remainders
and the pool less the payouts made on a resolution. It also needs two counters
to be right: `paidOut` is the sum of the payouts of the claimed positions, and
`live` the number of winners not claimed yet, for the residue may go only when
the latter is 0. `RefundOK` keeps a remainder from being negative and from
being pulled before it is known. A roll moves what it accepts from the
remainders to the pool (`MoneyRoll`); the settling call only changes the count
(`NothingClaimed`, `SettleMoney`); a refund and a claim each take one entry out
of a list (`RemainderPulled`, `ClaimCounted`). Solvency of the branch before
flooring then bounds the floored payouts by the pool (`PaysWithinPool`), and
what is still owed is at most what is held (`LastClaimCovered`).

**Argument, capacity.** A book's recorded demand is exactly what the
unfinalized entries offer against it (`DemandInv`): reset by a roll, raised by
an entry, untouched otherwise. If the demand D fits the headroom H, so does the
inflow, because no entry is accepted beyond its offer. If not, every opposing
entry is cut to at most `floor(offer * H / D)`, however tightly other books cut
it besides, and D times the inflow is at most H times the demand
(`InflowWithinHeadroom`). No step vests anything but that inflow (`StepVests`).

**Argument, refinement.** For both settlers every step maps to one step of
`ParimutuelSettler` or to a stutter: the mapping, the fact that a roll decides
the pending entries and touches no other stake (`RollDecides`), then one lemma
per function. The two steps that promise something about *everybody* are the
hard ones. `claim` promises that the balance still covers what is certainly owed
(`AlwaysCovered`): an owed principal is at most what its stake is due
(`OwedWithinDue`), because an accumulator is never below a stake's entry
accumulator, and the dues are covered by `EscrowBacksLedger`. `claimResidue`
promises to leave exactly what is owed: with nobody live on the winner every
winning stake is paid, so only the remainders are left. A claim by a winner pays
at least its principal for the same reason (`WinnerKeepsPrincipal`). The classic
settler has its own small ledger (`CInv`): the pool is the sum of the stakes, a
book's principal and `live` count its outcome's, and the floors of a branch's
shares add up to at most the pool (`SharesWithinPool`).

**Argument, index.** A handler reads the contract as the *end of its block*
left it, and writes the store in the middle of that block. So between two logs
index and settler disagree, `FollowsTheSettler` is not inductive, and what has to
be found is the disagreement. `IndexInv` has three parts. `ChainInv` is what the
settler keeps. `LogInv` says that each log of the block is right about the
settler as the block leaves it, but for what the logs after it say: an entry
that was logged is there, with what it offered, and has been decided since only
if a log says so. `IndexRel` (`Agree`) says that the index holds what the
settler holds, but for what the logs still to be handled say.

* The settler's half, `StepOK`: each function tells in its logs all that it
  changes, and takes back nothing an earlier log of the block said
  (`StepKeepsLog`, `StepKeepsIndex`); one lemma per function. That a roll logs
  a vintage and not its entries is where the second read of the contract is
  needed, and `AcceptPending` is shown to book each pending entry once.
* The index's half, `HandleStep`: the handler of the next log brings the index
  nearer by that log. `BlockIndexed` follows by induction on the number of logs
  handled, a recursive function, so an induction over numbers and not over
  the logs themselves. With no log left, agreement is equality (`BlockStep`).

Both `LogInv` and `IndexRel` held as invariants of `venue_index`'s instance
before they were proved. `PreviewsArePaid` is the part of `Agree` about previews
(`PreviewsAt`), which a refresh establishes (`PreviewRight`) and no later log of
the block but another refresh changes. `IndexedSettler` says that a market with its
index is still the market of `VestedParimutuel`, every step one of its own or a
stutter, so that each theorem about `Spec` holds of it.

**Argument, sums.** Sums over positions are a recursive function (`Sums`), and
everything the proofs use of them is in `SumTheorems`: existence and uniqueness
of the function from a least counterexample, then type, congruence, additivity,
monotonicity, scaling and the change of one entry. The first part of
`VestedParimutuelProofs` does the same for the clamp's nested loops: on every
input its result is a leg vector (`SeedClampType`).

**Argument, resolver.** `StepKinds` reduces every step to one of four things
that can happen to the settlement: nothing, the market opens, it times out, or
one live spec settles it. The inductive invariant `SettledOnce` says that no
spec is settled before the market is, and at most one after.

**Argument, keeper.** The three answers of a snapshot may be of three moments, and the clock of
a fourth. But `preview` alone says whether a call was due when it was answered: its answer is zero or
unready for a spec that is settled or unknown, and its age is the age there and then. `WasDue` says that
what a run's preview calls for is in the run's memory `due`, from the step that fills it in
(`PreviewDue`) until the run goes on to the next spec; the run's clock was never ahead of the chain by more than
`CLOCK_AHEAD` (`SeenOK`). `CallsAreDue` is about the decision, not about the landing: between the two a newer
round may arrive, and what then happens is decided by the guards of the resolver and by
`SettledThroughOneSpec`.

**Argument, relay.** A report on its way either is the other workflow's or
carries rounds the source published (`RelayHonest`); the source never takes a
round back, so this survives every step. The oracle applies an entry only if it
is newer than the reading and not ahead of the clock beyond the skew, whatever
the report: that is `ImplementsOracle`. The configuration that is locked names
the relay by author, id or both, and `ForeignAssumption` makes each of them
enough to refuse the other workflow: so what changes a reading is a published
round, and its answer at the reader's scale is `To8` of it (`LockedReads`).

**Argument, tier gate.** Three invariants over one typing of the requests under
way (`TypeOK`). `SpentInv`: of a proof that was honoured every use was checked before the expiry, all but the
first came after it, and until the proof expires its nonce is in the store with an expiry no earlier, so the
sweep cannot forget it in time for a replay. What was checked in time is carried
by every request through its awaits (`Passed`). `StandingInv`: a cached standing
was the registry's no earlier than one lifetime before the entry expires, an
answer no earlier than it was asked for; a request keeps the moment it asked,
and is judged by a standing that was true within the lifetime before that
moment, through every await until it is answered. `CountInv` with `RefusedInv`:
while a window lasts the store counts every request charged to its bucket, and
at most the limit of them passed, whoever else swept or was refused between.

**Argument, agent.** The decision is arithmetic over one snapshot: a stake that
`decide` wants is within the least room of the books that oppose it, whatever
the estimate, the trust and the bankroll (`DecideFits`). The rest is how long
that stays true. `LoopInv` types the process by the place it is at, and carries
a fact through every await: a call that is wanted, being sent, at Circle or
buffered at the settler fits the books it was sized on (`EntryOK`, `IsEntry`, `OffersOK`), for
transactions of a process long dead as well. When its vintage is rolled and the books are still those, the
only demand beyond its own on a bounded book that opposes it is that of other entries of the block: so
a remainder means that the books have moved or that such an entry is there (`SizedToTheRoom`). And of
the living process's transactions Circle holds
at most the one being sent, under the key its retries keep (`CircleOK`), while
entries have landed only in markets held, and in the market being entered only
once its last call is confirmed (`LandedOK`). A new key is not in use, a
transaction forgotten after its answer cannot land again, and a process that
ends leaves its transactions to nobody (`Orphan`). `EnteredOncePerRun` alone is
not inductive: nothing in it keeps a second submission of a market from being
under way.

**Argument, web.** `WInv`: a transaction that reached signing is for the chain it
was pressed for, and a pull or a landed entry names a position that chain has
minted; an index never runs ahead of its chain. Positions are never taken from a
chain, so nothing that was well named loses its meaning when the network, the
wallet or the read moves (`StillNamed`).

**Only model-checked.** Of the venue's index, its running totals (`CountedOnce`)
and the classic settler's (`HoldersMadeWhole`); what is shown from it
(`QuoteHolds`, `ClaimablesAreExact`, `ResidueIsEnough`, `ToolsAgree`, `SurfaceAgrees`); and of the
registries' index `AggregatesAreARecount`, `IdentityFollowsRegistry`,
`ReputationIsTheHolders`. Most of them total over
sets with the folds of the community modules, which take an operator and of
which the library states nothing the provers could use; the others would follow
the same way as the theorems here and have not been carried through. Liveness under fairness
(`EventuallyDrained`, `RoundsArrive`, `EventuallySettled`, `KeeperSettles`,
`StakesComeBack`, `ShownInTheEnd`) is beyond the prover and stays with TLC.

## 5. Not modelled

* Events without a reader, getters without effect, and gas.
* The factory's token approval and its return of the unused seed: sequential
  code in one transaction that touches no market. Its hand-over of the legs is
  modelled.
* Token misbehaviour and reentrancy: the settlement token is an ordinary one
  and every transfer is its function's last effect.
* Several markets at once, except through `escrow`, which asks that a market
  never pays out what it did not take in.
* `NaiveVestedParimutuel`: a gas benchmark, not deployed.
* `ChainlinkFeedOracle`, `StorkOracle`, `MockOracle`: stateless conversions of
  one external read.
* The agent's payment of the research request, the cross-checks between
  intelligence providers, fixtures and dry runs.
* Of the client: the building of call data for opening a market, transport and
  its retries, the plain list reads. Of the MCP server: sessions, schemas and
  wording.
* Of the pages: layout, wording and the fixture data themselves (the replay
  that computes them is `WebMath`).
* The substreams tables: the same logs into another store, without reads back
  of the contract; the deployment scripts: run once by hand.
* Modelled from how the code uses them, not from their own code: the ERC-8004
  registries, AgentBook, Circle's transaction service, the indexer's scheduling
  and paging, the forwarder, wallets, signature checks.

## 6. What could come next

* `CountedOnce` and, for the classic settler, `HoldersMadeWhole`, along the
  argument of `IndexFollows`; then the client's reads on top of the index.
* The other oracle adapters as operators against a reference of their scales.
