----------------------------- MODULE MCTierGate -----------------------------
(* Two requests at a time: anonymous ones, two proofs of one wallet, a proof *)
(* somebody else signed, and two values under one name.                      *)
EXTENDS TierGate, TLC

CONSTANTS s1, s2, w1, other, h1, n1, n2

MCSlots == {s1, s2}
MCWallets == {w1}
MCCarriers == {[source |-> "plain", path |-> "/m", forwarded |-> <<h1>>, realIp |-> None]}

Proof(nonce, issuedAt, signer) ==
    BuildProof([domain |-> "here", wallet |-> w1, statement |-> TRUE, uri |-> "/m",
                chainId |-> 480, caip2 |-> TRUE, nonce |-> nonce, issuedAt |-> issuedAt,
                lifetime |-> 1], signer)

MCHeaderValue ==
    [first |-> Proof(n1, 0, w1), second |-> Proof(n2, 1, w1), forged |-> Proof(n1, 0, other)]

MCIssuedAt == [first |-> 0, second |-> 1, forged |-> 0]

MCProofHeaders ==
    {<<>>, << <<"first">> >>, << <<"second">> >>, << <<"forged">> >>,
     << <<"forged", "first">> >>}

SlotSymmetry == Permutations(MCSlots)
=============================================================================
