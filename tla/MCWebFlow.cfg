\* Two networks, of which a wallet can be asked to add one; a few transactions
\* and detours in any mixture; two polls' patience, a read stale after one.
CONSTANTS
  None = None
  DEFAULT_NETWORK = testnet
  Elsewhere = Elsewhere
  Networks = {testnet, mainnet}
  Addable = {testnet}
  EXPECT = 2
  STALE = 1
  MaxActs = 3
SPECIFICATION FlowSpec
CHECK_DEADLOCK FALSE
INVARIANTS WritesAsChosen
PROPERTIES ShownInTheEnd
