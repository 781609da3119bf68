------------------------------ MODULE AvnQuorum ------------------------------
(***************************************************************************)
(* The vote thresholds and the sender rotation of pallet-avn, which every  *)
(* pallet that collects author votes uses.  Pure operators, no state.      *)
(***************************************************************************)
EXTENDS Naturals

\* QuorumPolicy::required_for: a third of the authors, rounded up.
required_for(num) == num - ((num * 2) \div 3)

\* QuorumPolicy::required_for_supermajority: two thirds, rounded DOWN.
required_for_supermajority(num) == (num * 2) \div 3

\* advance_primary_validator_for_sending: the u8 index of the next sender,
\* counted from zero; the caller has checked that there are validators.
advance_primary(index, len) ==
    (IF index = 255 THEN 255 ELSE index + 1) % len

==============================================================================
