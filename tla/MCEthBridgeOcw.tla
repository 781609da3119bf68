---------------------------- MODULE MCEthBridgeOcw ----------------------------
(* Honest authors and Ethereum; the author list may lose a3 or start without *)
(* it and gain it, or is one of two or five for the whole behaviour.         *)
EXTENDS EthBridgeOcw

CONSTANTS a1, a2, a3, a4, a5

TwoOrFive == {<<a1, a2>>, <<a1, a2, a3, a4, a5>>}
TwoOrThree == {<<a1, a2, a3>>, <<a1, a2>>}
ThreeOrFour == {<<a1, a2, a3>>, <<a1, a2, a3, a4>>}

\* Two authors, two requests and a fault, or five authors, one request and none.
QuorumNext == OcwNext /\ (Len(validators) = 5 => Len(accepted') <= 1)
QuorumInit == OcwInit /\ (Len(validators) = 5 => faults = MaxFaults)
QuorumSpec == QuorumInit /\ [][QuorumNext]_allVars /\ Fairness
=============================================================================
