--------------------------- MODULE MCEventDiscovery ---------------------------
(* Five authors, one of whom may leave; votes about two transactions; records *)
(* of an older pallet that contradict each other.                             *)
EXTENDS EventDiscovery, TLC

CONSTANTS a1, a2, a3, a4, a5

MCValidatorSets == {{a1, a2, a3, a4, a5}, {a1, a2, a4, a5}}

MCSymmetry == Permutations({a1, a2, a4, a5})

Lift(tx, b) == [tx |-> tx, kind |-> "lifted", block |-> b]

\* The last one has an event of a later range, and tx 1 in another block.
MCEventSets == {{}, {Lift(1, 0)}, {Lift(1, 1), Lift(2, 3)}}

MCLegacyRecords ==
    {[tx |-> 1, kind |-> "lifted", accepted |-> TRUE],
     [tx |-> 1, kind |-> "nft", accepted |-> FALSE],
     [tx |-> 2, kind |-> "unknown", accepted |-> TRUE]}
===============================================================================
