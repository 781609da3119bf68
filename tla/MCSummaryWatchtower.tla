------------------------- MODULE MCSummaryWatchtower -------------------------
(***************************************************************************)
(* Three internal references of which two are roots, one of them good, or  *)
(* one external reference; the two kinds share no state that matters but   *)
(* the line of proposals to remove, so they are not mixed.                 *)
(***************************************************************************)
EXTENDS SummaryWatchtower

CONSTANTS r1, r2, r3, x1, n1, n2, o1, o2

MCTowerSets == {Nodes, {n1}}
MCOwnerOf == [n \in Nodes |-> IF n = n1 THEN o1 ELSE o2]

MCNext ==
    /\ Next
    /\ \/ externalRef' \subseteq ExternalRefs
       \/ externalRef' \subseteq InternalRefs /\ minVotingPeriod' = 1
MCSpec == Init /\ [][MCNext]_vars
MCLiveSpec == MCSpec /\ Fairness
==============================================================================
