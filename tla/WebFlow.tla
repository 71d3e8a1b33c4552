-------------------------------- MODULE WebFlow --------------------------------
(***************************************************************************)
(* One tab of apps/web: the network its viewer selected, the network the   *)
(* server rendered the page for, a wallet that follows neither, the        *)
(* transactions the page sends through it, and the reads that bring the    *)
(* viewer's positions and claims back from an index that lags each chain.  *)
(* A network is the chain it names; there is one market on each and one    *)
(* account.  Amounts are left out: an approval covers one entry, what an   *)
(* entry leaves of it may cover another.                                   *)
(***************************************************************************)
EXTENDS Integers, Sequences, FiniteSets

CONSTANTS
  None,
  Networks,         \* the two Arcs
  DEFAULT_NETWORK,  \* selected on a first visit
  Elsewhere,        \* any chain that is neither
  Addable,          \* networks with a public RPC: a wallet can be asked to add them
  EXPECT,           \* EXPECT_FOR_MS, in polls
  STALE,            \* staleTime, in polls
  MaxActs           \* bound: what the viewer and the wallet do, sending included

ASSUME DefaultAssumption == DEFAULT_NETWORK \in Networks

Chains == Networks \cup {Elsewhere}
Min(a, b) == IF a < b THEN a ELSE b
Hooks == {"entry", "close", "pull"}

VARIABLES
  net,              \* the viewer's choice, useNetwork
  rendered,         \* the network the server half was rendered for
  connected,
  walletChain,      \* the chain the wallet is on
  account,          \* the chain useAccount reports
  prompted,         \* the last key the banner prompted for
  txs,              \* what the page asked of the wallet, in order
  op,               \* the transaction each mounted component follows, or 0
  allowed,          \* the settler's allowance, on each chain
  seenAllowed,      \* the allowance as the page last read it
  minted,           \* the account's positions on each chain: their stages
  index,            \* the same, as far as the index of that chain got
  view,             \* the positions read back, per network
  age,              \* polls since that read, up to STALE
  fetch,            \* a read under way: None, Asked or its answer
  armed,            \* the poll of the read on screen
  expected,         \* the entry each network's read waits for
  promised,         \* history: entries this page said stay listed
  wanders           \* the bound's counter

viewerVars == <<net, rendered, connected, walletChain, account, prompted, wanders>>
sendVars == <<txs, op>>
chainVars == <<allowed, minted, index>>
pollVars == <<view, age, fetch, armed>>
readVars == <<pollVars, expected, promised>>
flowVars == <<viewerVars, sendVars, chainVars, readVars, seenAllowed>>

Asked == [answered |-> FALSE, stages |-> <<>>]
Answer(stages) == [answered |-> TRUE, stages |-> stages]

-----------------------------------------------------------------------------
(* lib/wallet/useWallet.ts                                                 *)

ChainStatus(chain) ==
  [ready |-> connected /\ chain = net, wrongChain |-> connected /\ chain # net]

\* Once per wallet chain and selected chain, and only for a chain it can add.
SwitchPromptKey ==
  IF ~ChainStatus(account).wrongChain \/ net \notin Addable THEN None ELSE <<account, net>>

-----------------------------------------------------------------------------
(* lib/wallet/positions.ts                                                 *)

Seen(stages, n, e) == e.of = n /\ e.id \in DOMAIN stages

\* Mutant of NextPositionsPoll: an entry waiting for its vintage is no reason.
PollForExpected(stages, n, e) ==
  stages # None /\ e # None /\ e.left > 0 /\ ~Seen(stages, n, e)
\* Read again while an entry awaits its vintage, or the expected one is not there.
NextPositionsPoll(stages, n, e) ==
  /\ stages # None
  /\ \/ \E i \in DOMAIN stages : stages[i] = "buffered"
     \/ e # None /\ e.left > 0 /\ ~Seen(stages, n, e)

\* The read of network n comes on screen: it is repeated if there is none or it
\* is stale, and the poll is set by what it holds.
Observe(n, e) ==
  /\ armed' = NextPositionsPoll(view[n], n, e)
  /\ fetch' = IF fetch[n] = None /\ (view[n] = None \/ age[n] = STALE)
              THEN [fetch EXCEPT ![n] = Asked] ELSE fetch
  /\ UNCHANGED <<view, age>>

\* invalidateQueries on the read on screen: one under way is dropped for a new one,
\* unless it is the first and there is nothing to show in the meantime.
Invalidate(n, e) ==
  /\ fetch' = IF fetch[n] # None /\ view[n] = None THEN fetch
              ELSE [fetch EXCEPT ![n] = Asked]
  /\ armed' = NextPositionsPoll(view[n], n, e)
  /\ UNCHANGED <<view, age>>

\* The transaction a component holds the receipt of, until it is mounted anew.
Receipted(h) == IF op[h] # 0 /\ txs[op[h]].stage = "seen" THEN txs[op[h]] ELSE None
\* An entry the settler logged; useCloseVintage's done.
Entered == LET t == Receipted("entry") IN
           IF t # None /\ t.item # None THEN t ELSE None
Closed == Receipted("close") # None

\* expectPosition, under the network selected when the effect runs.
Expectation(n, t) == [expected EXCEPT ![n] = [of |-> t.target, id |-> t.item, left |-> EXPECT]]

\* Network n comes on screen with a wallet: the effects that announce an entry and
\* a closed vintage run again, under n.
Mount(n) ==
  LET e == IF Entered = None THEN expected ELSE Expectation(n, Entered)
  IN  /\ expected' = e
      /\ IF Entered # None \/ Closed THEN Invalidate(n, e[n]) ELSE Observe(n, e[n])

-----------------------------------------------------------------------------
(* The viewer and the wallet.                                              *)

Acts == wanders + Len(txs)
Wander == Acts < MaxActs /\ wanders' = wanders + 1

\* setNetwork: the wallet stays where it is, the claims listed are the other
\* network's, whose rows are new.
Toggle ==
  /\ Wander
  /\ \E n \in Networks \ {net} :
       /\ net' = n
       /\ IF connected THEN Mount(n) ELSE UNCHANGED <<pollVars, expected>>
  /\ op' = [op EXCEPT !["pull"] = 0]
  /\ UNCHANGED <<rendered, connected, walletChain, account, prompted, txs, chainVars,
                 promised, seenAllowed>>

\* NetworkSync: the page of the selected network arrives in place of the other.
Render ==
  /\ rendered # net
  /\ rendered' = net
  /\ op' = [op EXCEPT !["entry"] = 0, !["close"] = 0]
  /\ seenAllowed' = allowed[net]
  /\ UNCHANGED <<net, connected, walletChain, account, prompted, wanders, txs, chainVars,
                 readVars>>

Connect ==
  /\ ~connected
  /\ connected' = TRUE /\ account' = walletChain
  /\ Mount(net)
  /\ UNCHANGED <<net, rendered, walletChain, prompted, wanders, sendVars, chainVars, promised,
                 seenAllowed>>

Disconnect ==
  /\ Wander /\ connected
  /\ connected' = FALSE /\ armed' = FALSE
  /\ UNCHANGED <<net, rendered, walletChain, account, prompted, sendVars, chainVars, view,
                 age, fetch, expected, promised, seenAllowed>>

\* The wallet is moved outside the page, which hears of it later.
WalletMoves ==
  /\ Wander
  /\ walletChain' \in Chains \ {walletChain}
  /\ UNCHANGED <<net, rendered, connected, account, prompted, sendVars, chainVars,
                 readVars, seenAllowed>>

ChainChanged ==
  /\ connected /\ account # walletChain
  /\ account' = walletChain
  /\ UNCHANGED <<net, rendered, connected, walletChain, prompted, wanders, sendVars,
                 chainVars, readVars, seenAllowed>>

\* NetworkBanner: one prompt for each new key, and the wallet's answer.  One that
\* comes late is a WalletMoves.
Prompt ==
  /\ SwitchPromptKey # None /\ SwitchPromptKey # prompted
  /\ prompted' = SwitchPromptKey
  /\ \/ walletChain' = net /\ account' = net
     \/ UNCHANGED <<walletChain, account>>
  /\ UNCHANGED <<net, rendered, connected, wanders, sendVars, chainVars, readVars, seenAllowed>>

\* Another page and back: the components are new, the module's state is not.
Revisit ==
  /\ Wander
  /\ op' = [h \in Hooks |-> 0]
  /\ seenAllowed' \in {seenAllowed, allowed[net]}
  /\ IF connected THEN Observe(net, expected[net]) ELSE UNCHANGED pollVars
  /\ UNCHANGED <<net, rendered, connected, walletChain, account, prompted, txs, chainVars,
                 expected, promised>>

\* A reload forgets what this tab waits for, and reads again.
Reload ==
  /\ Wander
  /\ rendered' = net /\ prompted' = None
  /\ op' = [h \in Hooks |-> 0]
  /\ seenAllowed' = allowed[net]
  /\ view' = [n \in Networks |-> None] /\ age' = [n \in Networks |-> STALE]
  /\ fetch' = [n \in Networks |-> IF connected /\ n = net THEN Asked ELSE None]
  /\ armed' = FALSE
  /\ expected' = [n \in Networks |-> None]
  /\ promised' = {p \in promised : p.id \in DOMAIN index[p.of]}
  /\ UNCHANGED <<net, connected, walletChain, account, txs, chainVars>>

-----------------------------------------------------------------------------
(* EntryFlow, CloseVintage and ClaimList; the hooks of the two places a    *)
(* vintage is closed from are one here, and so are those of the rows.      *)

Busy(h) == op[h] # 0 /\ txs[op[h]].stage \in {"ready", "signing", "mined"}

\* Mutant of Pinned: the write does not name its chain.
Unpinned(t) == walletChain \in Chains
\* writeContract with chainId: wagmi compares it with the wallet's own chain.
Pinned(t) == walletChain = t.net
Sent(t) == [t EXCEPT !.stage = IF Pinned(t) THEN "signing" ELSE "refused",
                     !.chain = IF Pinned(t) THEN walletChain ELSE None]

\* The closure of a press: what was selected and rendered then.  ensureActiveChain
\* answers at once on the chain the page believes the wallet is on.
Press(h, kind, target, item) ==
  /\ connected /\ ~Busy(h) /\ Acts < MaxActs
  /\ LET t == [hook |-> h, kind |-> kind, net |-> net, target |-> target, item |-> item,
               chain |-> None, stage |-> "switching"]
     IN  txs' = Append(txs, IF account = net THEN Sent(t) ELSE t)
  /\ op' = [op EXCEPT ![h] = Len(txs')]
  /\ UNCHANGED <<viewerVars, chainVars, readVars, seenAllowed>>

\* EntryFlow's button: none without a wallet on the selected chain or under a
\* stake just sent; by the allowance as last read, whatever was approved since.
EntryButton ==
  CASE ~connected \/ ChainStatus(account).wrongChain \/ Entered # None -> {}
    [] seenAllowed -> {"enter"}
    [] OTHER -> {"approve"}
PressEntry == \E kind \in EntryButton : Press("entry", kind, rendered, None)

\* useMarketPositions: those of the market on the page among the wallet's.
MarketPositions == IF rendered # net \/ view[net] = None THEN <<>> ELSE view[net]
\* BufferedResult's button, under a stake just sent.
UnderTheStake == Entered # None /\ ~ChainStatus(account).wrongChain /\ ~Closed
\* LivePosition's, under a position still awaiting, whatever chain the wallet is on.
UnderThePosition == (\E i \in DOMAIN MarketPositions : MarketPositions[i] = "buffered") /\ ~Closed
PressClose ==
  (UnderTheStake \/ UnderThePosition) /\ Press("close", "finalizeVintage", rendered, None)

\* ClaimList's rows, of the selected network's index, as it stood at some time.
ClaimRows == {i \in DOMAIN index[net] : index[net][i] # "buffered"}
\* ClaimRow's button: not once its own pull is confirmed.
PullButton(i) ==
  ~ChainStatus(account).wrongChain /\ ~(Receipted("pull") # None /\ txs[op["pull"]].item = i)
PressPull == \E i \in ClaimRows : PullButton(i) /\ Press("pull", "withdrawRefund", net, i)

\* ensureActiveChain's prompt: granted, and followed if it is mounted, or not.  A
\* chain the wallet cannot be asked to add is granted by one that has it already.
SwitchAnswered(i) ==
  LET t == txs[i] IN
  /\ t.stage = "switching"
  /\ \/ /\ walletChain' = t.net /\ account' = t.net
        /\ txs' = [txs EXCEPT ![i].stage = "ready"]
        /\ op' = [op EXCEPT ![t.hook] = IF @ = 0 THEN 0 ELSE i]
     \/ txs' = [txs EXCEPT ![i].stage = "refused"] /\ UNCHANGED <<walletChain, account, op>>
  /\ UNCHANGED <<net, rendered, connected, prompted, wanders, chainVars, readVars,
                 seenAllowed>>

SendWrite(i) ==
  /\ txs[i].stage = "ready"
  /\ txs' = [txs EXCEPT ![i] = Sent(@)]
  /\ UNCHANGED <<viewerVars, op, chainVars, readVars, seenAllowed>>

Reject(i) ==
  /\ txs[i].stage = "signing"
  /\ txs' = [txs EXCEPT ![i].stage = "refused"]
  /\ UNCHANGED <<viewerVars, op, chainVars, readVars, seenAllowed>>

Ruled(stages) ==
  [i \in DOMAIN stages |-> IF stages[i] = "buffered" THEN "ruled" ELSE stages[i]]

\* The viewer signs and the chain executes: a call at the address of a settler of
\* another chain finds nothing there, an entry may share its block with the last.
Mine(i) ==
  LET t == txs[i]  c == t.chain  here == c = t.target
      takes == CASE ~here -> TRUE
                 [] t.kind = "enter" -> allowed[c]
                 [] t.kind = "withdrawRefund" -> minted[c][t.item] = "ruled"
                 [] OTHER -> TRUE
      entry == here /\ takes /\ t.kind = "enter"
  IN  /\ t.stage = "signing"
      /\ txs' = [txs EXCEPT ![i].stage = IF takes THEN "mined" ELSE "refused",
                            ![i].item = IF entry THEN Len(minted[c]) + 1 ELSE @]
      /\ IF ~here \/ ~takes \/ t.kind \notin {"approve", "enter"} THEN UNCHANGED allowed
         ELSE \E left \in {TRUE, t.kind = "approve"} : allowed' = [allowed EXCEPT ![c] = left]
      /\ IF ~here \/ ~takes \/ t.kind = "approve" THEN UNCHANGED minted
         ELSE \E before \in {minted[c], Ruled(minted[c])} :
                minted' = [minted EXCEPT ![c] =
                  CASE t.kind = "enter" -> Append(before, "buffered")
                    [] t.kind = "finalizeVintage" -> Ruled(@)
                    [] t.kind = "withdrawRefund" -> [Ruled(@) EXCEPT ![t.item] = "pulled"]]
      /\ UNCHANGED <<viewerVars, op, index, readVars, seenAllowed>>

\* The receipt reaches the component: an approval changes nothing on screen, an
\* entry is expected, a closed vintage read for.
Receipt(h) ==
  /\ op[h] # 0
  /\ LET t == txs[op[h]]
         e == IF t.kind = "enter" /\ t.item # None THEN Expectation(net, t) ELSE expected
     IN  /\ t.stage = "mined"
         /\ txs' = [txs EXCEPT ![op[h]].stage = "seen"]
         /\ IF connected /\ (t.kind = "finalizeVintage" \/ e # expected)
            THEN expected' = e /\ Invalidate(net, e[net])
            ELSE UNCHANGED <<expected, pollVars>>
         /\ promised' = promised \cup
              IF connected /\ e # expected /\ t.target = net
              THEN {[of |-> net, id |-> t.item]} ELSE {}
  /\ UNCHANGED <<viewerVars, op, chainVars, seenAllowed>>

-----------------------------------------------------------------------------
(* The chains, their indexes and the reads.                                *)

\* Anybody's next call closes the vintage.
Vintage(n) ==
  /\ \E i \in DOMAIN minted[n] : minted[n][i] = "buffered"
  /\ minted' = [minted EXCEPT ![n] = Ruled(@)]
  /\ UNCHANGED <<viewerVars, sendVars, allowed, index, readVars, seenAllowed>>

IndexFollows(n) ==
  /\ index[n] # minted[n]
  /\ index' = [index EXCEPT ![n] = minted[n]]
  /\ UNCHANGED <<viewerVars, sendVars, allowed, minted, readVars, seenAllowed>>

\* An entry whose wait is over and that was not read back is waited for no more.
Lapsed(p, e, stages) ==
  /\ ~(e[p.of] # None /\ e[p.of].left > 0)
  /\ ~(stages # None /\ p.id \in DOMAIN stages)

\* GET /api/positions, as the index stands.
Serve(n) ==
  /\ fetch[n] = Asked
  /\ fetch' = [fetch EXCEPT ![n] = Answer(index[n])]
  /\ UNCHANGED <<viewerVars, sendVars, chainVars, view, age, armed, expected, promised, seenAllowed>>

\* The answer is cached for its network, on screen or not.
Arrive(n) ==
  /\ fetch[n] # None /\ fetch[n].answered
  /\ LET stages == fetch[n].stages IN
     /\ view' = [view EXCEPT ![n] = stages] /\ age' = [age EXCEPT ![n] = 0]
     /\ fetch' = [fetch EXCEPT ![n] = None]
     /\ armed' = IF connected /\ n = net THEN NextPositionsPoll(stages, n, expected[n]) ELSE armed
     /\ promised' = {p \in promised : p.of = n => ~Lapsed(p, expected, stages)}
  /\ UNCHANGED <<viewerVars, sendVars, chainVars, expected, seenAllowed>>

\* A read that fails leaves what was read.
Fail(n) ==
  /\ Wander /\ fetch[n] # None
  /\ fetch' = [fetch EXCEPT ![n] = None]
  /\ armed' = IF connected /\ n = net THEN NextPositionsPoll(view[n], n, expected[n]) ELSE armed
  /\ promised' = {p \in promised : p.of = n => ~Lapsed(p, expected, view[n])}
  /\ UNCHANGED <<net, rendered, connected, walletChain, account, prompted, sendVars,
                 chainVars, view, age, expected, seenAllowed>>

\* POSITIONS_POLL_MS: the poll on screen asks, every wait grows shorter.
Poll ==
  /\ armed \/ (\E n \in Networks : age[n] < STALE \/ (expected[n] # None /\ expected[n].left > 0))
  /\ fetch' = IF armed /\ fetch[net] = None THEN [fetch EXCEPT ![net] = Asked] ELSE fetch
  /\ age' = [n \in Networks |-> Min(age[n] + 1, STALE)]
  /\ expected' = [n \in Networks |->
       IF expected[n] # None /\ expected[n].left > 0 THEN [expected[n] EXCEPT !.left = @ - 1]
       ELSE expected[n]]
  /\ armed' = IF armed THEN NextPositionsPoll(view[net], net, expected'[net]) ELSE FALSE
  /\ promised' = {p \in promised : fetch'[p.of] = None => ~Lapsed(p, expected', view[p.of])}
  /\ UNCHANGED <<viewerVars, sendVars, chainVars, view, seenAllowed>>

-----------------------------------------------------------------------------
FlowInit ==
  /\ net = DEFAULT_NETWORK /\ rendered = net
  /\ connected = FALSE /\ walletChain \in {net, Elsewhere} /\ account = walletChain
  /\ prompted = None /\ wanders = 0
  /\ txs = <<>> /\ op = [h \in Hooks |-> 0]
  /\ seenAllowed \in BOOLEAN /\ allowed = [n \in Networks |-> seenAllowed]
  /\ minted = [n \in Networks |-> <<>>] /\ index = minted
  /\ view = [n \in Networks |-> None] /\ age = [n \in Networks |-> STALE]
  /\ fetch = [n \in Networks |-> None] /\ armed = FALSE
  /\ expected = [n \in Networks |-> None]
  /\ promised = {}

FlowNext ==
  \/ Toggle \/ Render \/ Connect \/ Disconnect \/ WalletMoves \/ ChainChanged
  \/ Prompt \/ Revisit \/ Reload
  \/ PressEntry \/ PressClose \/ PressPull
  \/ \E i \in DOMAIN txs : SwitchAnswered(i) \/ SendWrite(i) \/ Reject(i) \/ Mine(i)
  \/ \E h \in Hooks : Receipt(h)
  \/ \E n \in Networks : Vintage(n) \/ IndexFollows(n) \/ Serve(n) \/ Arrive(n) \/ Fail(n)
  \/ Poll

\* The index follows its chain, a request is answered, the browser's timer fires.
FlowSpec ==
  /\ FlowInit /\ [][FlowNext]_flowVars
  /\ WF_flowVars(Poll)
  /\ \A n \in Networks :
       WF_flowVars(IndexFollows(n)) /\ WF_flowVars(Serve(n)) /\ WF_flowVars(Arrive(n))

-----------------------------------------------------------------------------
(* Properties.                                                             *)

\* Whatever the viewer selects, the wallet does or a prompt answers in between, a
\* transaction goes to the network that was selected when its button was pressed
\* and to no other chain, a pull to the settler its claim was listed for and for
\* a position that is there, and an entry the page speaks of has landed on the
\* network it speaks of (ensureActiveChain, the pinned writes, the keyed reads).
WritesAsChosen ==
  /\ \A k \in DOMAIN txs :
       LET t == txs[k] IN
       t.chain # None =>
         /\ t.chain = t.net
         /\ t.kind = "withdrawRefund" =>
              t.target = t.chain /\ t.item \in DOMAIN minted[t.chain]
  /\ \A p \in promised : p.id \in DOMAIN minted[p.of]

\* An entry the page said stays listed is in the end listed, and as ruled on
\* once the index has it ruled on, for a viewer who stays on its network: reads
\* fail, lag and are dropped on the way, networks and pages change, a later entry
\* is waited for instead (expectPosition, nextPositionsPoll, useWalletPositions).
ShownInTheEnd ==
  \A n \in Networks, i \in 1..MaxActs :
    <>[](connected /\ net = n /\ view[n] # None /\ [of |-> n, id |-> i] \in promised)
      => <>[](/\ view[n] # None /\ i \in DOMAIN view[n] /\ i \in DOMAIN index[n]
              /\ (view[n][i] = "buffered") = (index[n][i] = "buffered"))
=============================================================================
