-------------------------- MODULE MCAgentRegistries --------------------------
(* Two identities, two holders who also stake, and one of them rates. *)
EXTENDS AgentRegistries

CONSTANTS alice, bob, carol

Texts == {"", " swap", "swap", "MCP"}
Trimmed == [t \in Texts |-> IF t = " swap" THEN "swap" ELSE t]
Lowered == [t \in Texts |-> IF t = "MCP" THEN "mcp" ELSE Trimmed[t]]

\* 3, and the same score with a decimal more; and half of it.
Scores == {[value |-> 3, decimals |-> 0], [value |-> 15, decimals |-> 1]}
Keys == {[key |-> <<"capabilities">>, bytes |-> <<"swap", " swap", "">>],
         [key |-> <<"capability", "swap">>, bytes |-> "v2"]}

AtOnce == [identity |-> 1, reputation |-> 1, validation |-> 1]
Starts == {AtOnce, [identity |-> 2, reputation |-> 2, validation |-> 1]}

Held(i, u, o, a) == [id |-> i, owner |-> u, outcome |-> o, accepted |-> a]
TwoWay == [outcomes |-> {1, 2},
           holdings |-> {Held(1, alice, 1, 5), Held(2, bob, 2, 3), Held(3, alice, 2, 2)}]
ThreeWay == [outcomes |-> {1, 2, 3},
             holdings |-> {Held(1, alice, 1, 5), Held(2, bob, 2, 3), Held(3, carol, 3, 4)}]
TwoMarkets == {TwoWay, ThreeWay}
=============================================================================
