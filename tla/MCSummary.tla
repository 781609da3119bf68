------------------------------ MODULE MCSummary ------------------------------
(***************************************************************************)
(* Four validators of whom a4 is dishonest and a3 unreachable; a1 owns the *)
(* first slot and a4 the second.  a5 may replace a1.                       *)
(***************************************************************************)
EXTENDS Summary

CONSTANTS a1, a2, a3, a4, a5

MCAuthors == <<a1, a4, a2, a3, a5>>
MCValidatorSets == {{a1, a2, a3, a4}, {a2, a3, a4, a5}}
MCConfigs == {[auto |-> TRUE, external |-> TRUE], [auto |-> FALSE, external |-> FALSE]}

\* A session changes in the first half of a behaviour, the settings in the second.
MCNext ==
    /\ Next
    /\ validators' # validators => now <= 2
    /\ <<changes, votingPeriod, thresholdSet>>' # <<changes, votingPeriod, thresholdSet>> => now >= 2
MCInit == Init /\ a1 \in validators /\ schedulePeriod = 2
MCSpec == MCInit /\ [][MCNext]_vars
==============================================================================
