------------------------- MODULE MCEthBridgeRequests -------------------------
(* Two casts.  Few: up to three authors, sessions that grow and shrink the   *)
(* author list, two bridge instances, well-formed and oversized requests,    *)
(* one id shared by a lower and a transaction.  Many: five authors, of whom  *)
(* one may leave, so that one corroboration does not settle a transaction    *)
(* and both sides of a vote can be non-empty.                                *)
EXTENDS EthBridgeRequests

CONSTANTS a1, a2, a3, a4, a5

MCValidatorSets ==
    {<<a1, a2, a3>>, <<a1, a2>>, <<a1, a2, a3, a4, a5>>, <<a1, a2, a4, a5>>}

Many == Contains(validators, a5)

\* The bounds of a behaviour with many authors.
FewRequests ==
    /\ Len(accepted) <= 2
    /\ \A i \in DOMAIN accepted : accepted[i].nparams <= 1
    /\ setups <= 2
    /\ nextTxId <= 2

MCNext ==
    /\ Next
    /\ Many' = Many
    /\ Many => FewRequests' /\ UNCHANGED instance
MCSpec == Init /\ [][MCNext]_vars
=============================================================================
