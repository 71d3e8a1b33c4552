---------------------------- MODULE MCAgentLoop ----------------------------
(* One market whose books are close to full, and a stake that may move them. *)
EXTENDS AgentLoop

CONSTANTS m1, btc

MCMarkets == {m1}
Book(principal, room) ==
    [principal |-> principal, capacity |-> principal + room, vested |-> principal,
     headroom |-> room]
MCTerms == [m \in MCMarkets |->
    [resolutionTime |-> 1, books |-> <<Book(3, 3), Book(3, 2)>>,
     spec |-> [feedKey |-> btc, strike |-> 5, direction |-> "above", maxStaleness |-> 1]]]

MCQuotes == {[price8 |-> 9, vol |-> 1, observedAt |-> 0]}
MCTrustReadings == {None, <<[score |-> 50, unrated |-> 0], [score |-> None, unrated |-> 0]>>}
=============================================================================
