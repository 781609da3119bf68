--------------------------- MODULE SummaryWatchtower ---------------------------
(***************************************************************************)
(* pallet-summary-watchtower: the root that the active internal proposal   *)
(* asks the watchtower nodes to verify, and the off-chain worker of a node *)
(* that recomputes it and votes.  Added to pallet-watchtower, whose hooks  *)
(* it implements: a step of that pallet that completes or activates a      *)
(* proposal includes the hook.                                             *)
(***************************************************************************)
EXTENDS Watchtower

CONSTANTS
    RootRefs,              \* references of summary and anchor roots: the payload
                           \* decodes to a range of past blocks
    GoodRoots,             \* the roots a node recomputes to the same hash
    TowerSets,             \* sets of nodes that are registered at some time
    BlockInclusionPeriod   \* BLOCK_INCLUSION_PERIOD

VARIABLES
    rootInfo,     \* RootInfo: the proposal it belongs to, or NoRef
    submission,   \* off-chain: blocks since a node voted on this root, or None
    pool          \* unsigned_vote calls that are not yet in a block

vars == <<minVotingPeriod, proposals, status, votes, voters,
          activeInternal, queue, head, tail, externalRef, toRemove, towers,
          completed, rootInfo, submission, pool>>

ASSUME SummaryWatchtowerAssumption ==
    /\ RootRefs \subseteq InternalRefs /\ GoodRoots \subseteq RootRefs
    /\ IsFiniteSet(Nodes) /\ TowerSets \subseteq SUBSET Nodes

SwInit ==
    /\ rootInfo = NoRef
    /\ submission = [n \in Nodes |-> None]
    /\ pool = {}

\* on_voting_completed and then on_proposal_submitted, as finalise_voting calls
\* them.  process_new_proposal refuses what is not a root of past blocks; the
\* refusal is dropped by the tuple of hooks.  The off-chain record of votes is
\* kept per proposal: a new root starts without.
Completed(r) == completed'[r] # completed[r]
Activated(r) == status[r] # "Active" /\ status'[r] = "Active"
on_voting_completed ==
    IF rootInfo # NoRef /\ Completed(rootInfo) THEN NoRef ELSE rootInfo
process_new_proposal_first(kept) ==
    LET new == {r \in RootRefs : Activated(r)}
    IN IF new = {} \/ kept # rootInfo THEN kept ELSE CHOOSE r \in new : TRUE
process_new_proposal(kept) ==
    LET new == {r \in RootRefs : Activated(r)}
    IN IF new = {} THEN kept ELSE CHOOSE r \in new : TRUE
Hooks ==
    /\ rootInfo' = process_new_proposal(on_voting_completed)
    /\ submission' = IF rootInfo' = rootInfo THEN submission
                     ELSE [n \in Nodes |-> None]

\* vote_in_progress: the last submission may still be included.
vote_in_progress(n) ==
    submission[n] # None /\ submission[n] <= BlockInclusionPeriod

\* The node's own root of the range against the proposal's.
validate_root_unread(r) == TRUE
validate_root(r) == r \in GoodRoots
submit_vote(n, r) ==
    pool' = pool \cup {[node |-> n, ref |-> r, in_favor |-> validate_root(r)]}
record_vote_submission(n) == submission' = [submission EXCEPT ![n] = 0]

\* offchain_worker of node n.  It may do nothing: the external service may say
\* that the root's last block is not final, or fail, and the pool may refuse the
\* vote.  A second run for a block would find the vote in progress.
offchain_worker(n) ==
    /\ rootInfo # NoRef /\ n \in towers /\ ~vote_in_progress(n)
    /\ submit_vote(n, rootInfo) /\ record_vote_submission(n)
    /\ UNCHANGED rootInfo /\ UNCHANGED wtVars

\* A submitted vote is included some time while it is valid, or never: a vote
\* that is lost is one that stays here, and a repeated one is in here once.
Included(v) ==
    /\ unsigned_vote(v.node, v.ref, v.in_favor)
    /\ pool' = pool \ {v}

-----------------------------------------------------------------------------
Init == WtInit /\ SwInit

Submit ==
    \E d \in Durations \cup {None} :
        \/ \E r \in ExternalRefs : submit_external_proposal(r, d)
        \/ \E r \in ExternalRefs, age \in 0..SignedTxLifetime :
              signed_submit_external_proposal(r, d, age)
        \/ \E r \in InternalRefs : submit_proposal(r, d)
OwnersVote ==
    \E who \in Owners, r \in Refs, f \in BOOLEAN :
        \/ vote(who, r, f)
        \/ \E age \in 0..SignedTxLifetime : signed_vote(who, r, f, age)
Finalise == \E r \in Refs : finalise_proposal(r)
Idle == on_idle(TRUE) \/ on_idle(FALSE)
Administer ==
    \/ \E ns \in TowerSets : NodesChange(ns)
    \/ \E p \in VotingPeriods : set_admin_config(p)

\* The runtime configures the hooks of both pallets for every watchtower step.
WtStep ==
    /\ \/ (Submit \/ OwnersVote \/ Finalise \/ Idle \/ Administer) /\ pool' = pool
       \/ \E v \in pool : Included(v)
    /\ Hooks

\* The next block; a submission is followed only as long as it matters.
SwNewBlock ==
    /\ WtNewBlock
    /\ submission' = [n \in Nodes |->
          IF vote_in_progress(n) THEN submission[n] + 1 ELSE submission[n]]
    /\ UNCHANGED <<rootInfo, pool>>

Next ==
    \/ WtStep
    \/ \E n \in Nodes : offchain_worker(n)
    \/ SwNewBlock

Spec == Init /\ [][Next]_vars

\* on_idle runs in every block and blocks have weight to spare again and again.
IdleWithSpareWeight ==
    on_idle(TRUE) /\ Hooks /\ UNCHANGED pool
Fairness == WF_vars(SwNewBlock) /\ WF_vars(IdleWithSpareWeight)

-----------------------------------------------------------------------------
\* The two pallets' state together: the line, the tallies and what is left to
\* clean up agree, and nodes are asked to verify a root exactly while its
\* proposal is the active one (on_voting_completed of the old one and
\* on_proposal_submitted of the next happen in one step, in that order).
PalletsAgree ==
    /\ LineIsConsistent /\ TallyMatchesVoters /\ NothingLeftBehind
    /\ rootInfo # NoRef => rootInfo = activeInternal
    /\ activeInternal \in RootRefs => rootInfo = activeInternal

\* offchain_worker, the pool and threshold_achieved: when nodes vote with their
\* workers only, a root is never decided against what it recomputes to, late
\* and repeated votes and changes of the set of nodes included.
VerdictIsHonest ==
    \A r \in RootRefs :
        /\ status[r] = "Passed" => r \in GoodRoots
        /\ status[r] = "Failed" => r \notin GoodRoots
==============================================================================
