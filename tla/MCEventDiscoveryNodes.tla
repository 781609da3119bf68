------------------------- MODULE MCEventDiscoveryNodes -------------------------
(* Ranges of two blocks; a block with more events than a partition holds, a    *)
(* transaction with a primary and a secondary event, and one before the first  *)
(* range.                                                                      *)
EXTENDS EventDiscoveryNodes, TLC

CONSTANTS a1, a2, a3, f

MCSymmetry == Permutations({a1, a2, a3})

MCFourAuthors == {{a1, a2, a3, f}}
MCSessions == {{a1, a2, a3, f}, {a1, a2, a3}}

LogOf(tx, kind, block, index) ==
    [tx |-> tx, kind |-> kind, block |-> block, index |-> index, contract |-> "main"]

\* Two contracts, each with logs in the range where the change happens.
MCLog ==
    {LogOf(1, "lifted", 1, 0),
     LogOf(2, "nft", 2, 0), LogOf(2, "lifted", 2, 1),
     LogOf(3, "lifted", 2, 0),
     LogOf(4, "lifted", 3, 0)}
      \cup {[LogOf(5, "lifted", 3, 0) EXCEPT !.contract = "new"]}

\* Without transactions that only a faulty author would name.
MCLiveLog == {LogOf(1, "lifted", 1, 0), LogOf(2, "lifted", 2, 0), LogOf(3, "lifted", 2, 0)}

MCFaultySets == {{}, {[tx |-> 6, kind |-> "lifted", block |-> 2]}}
===============================================================================
