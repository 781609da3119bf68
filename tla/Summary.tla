-------------------------------- MODULE Summary --------------------------------
(***************************************************************************)
(* pallet-summary: the author of a slot records the root of a range of     *)
(* blocks, the authors vote on it, and an accepted root is published on    *)
(* Ethereum or anchored, after the watchtowers and perhaps an admin agreed *)
(* where external validation is on.  A root is named by its ingress        *)
(* counter, which is unique.  The watchtowers answer a proposal once       *)
(* (Watchtower!ToldOnce) and the bridge a transaction once, in order       *)
(* (BridgePromise); both are environment here.                             *)
(***************************************************************************)
EXTENDS Integers, Sequences, FiniteSets, AvnQuorum

CONSTANTS
    Authors,         \* accounts that may be validators, in rotation order: a sequence
    ValidatorSets,   \* the sets of them that are validators at some time
    Honest,          \* the authors that run the off-chain worker unchanged
    Online,          \* the authors whose calls reach the chain
    SchedulePeriods, VotingPeriods,
    Configs,         \* pairs of AutoSubmitSummaries and ExternalValidationEnabled
    MinSchedulePeriod, MinVotingPeriod, MaxVotingPeriod,
    GracePeriod,     \* AdvanceSlotGracePeriod
    MinBlockAge,
    MaxRoots,        \* bound: roots recorded
    MaxSlots,        \* bound: slots
    MaxChanges,      \* bound: calls that set the periods
    MaxBlock         \* bound: blocks

VARIABLES
    now,
    config,             \* AutoSubmitSummaries, ExternalValidationEnabled
    validators,         \* AVN::validators
    nextBlockToProcess, \* NextBlockToProcess
    nextSlotAtBlock, currentSlot, currentSlotsValidator,
    slotOfLastPublishedSummary,
    schedulePeriod, votingPeriod,
    roots,              \* Roots, in the order of their ingress counters
    pendingApproval,    \* PendingApproval: counters of the roots voted on
    votes,              \* VotesRepository, by ingress counter
    thresholdSet,       \* ExternalValidationThreshold is Some
    externalStatus,     \* ExternalValidationStatus, by ingress counter
    externalRef,        \* ExternalValidationRef: counters that have one
    adminReviews,       \* keys of PendingAdminReviews
    txIdToRoot,         \* TxIdToRoot: set of <<tx id, counter>>
    anchorRoots,        \* AnchorRoots, in order of AnchorRootsCounter
    published,          \* history: counters handed to the bridge, by tx id
    answered,           \* history: the bridge's answers, by tx id
    agreed,             \* history: counters the watchtowers or an admin accepted
    moved,              \* history: a period was changed under a pending root
    changes,            \* history: calls that set the periods
    offences            \* the reports of the last call: <<who, type, counter or slot>>

rootVars == <<roots, pendingApproval, votes>>
slotVars == <<nextSlotAtBlock, currentSlot, currentSlotsValidator>>
extVars == <<externalStatus, externalRef, adminReviews>>
outVars == <<txIdToRoot, anchorRoots, published>>
adminVars == <<schedulePeriod, votingPeriod, thresholdSet>>
vars == <<now, config, validators, nextBlockToProcess, nextSlotAtBlock,
          currentSlot, currentSlotsValidator, slotOfLastPublishedSummary,
          schedulePeriod, votingPeriod, roots, pendingApproval, votes,
          thresholdSet, externalStatus, externalRef, adminReviews, txIdToRoot,
          anchorRoots, published, answered, agreed, moved, changes, offences>>

ASSUME SummaryAssumption ==
    /\ \A vs \in ValidatorSets : /\ vs # {} /\ vs \subseteq {Authors[i] : i \in DOMAIN Authors}
    /\ SchedulePeriods \subseteq Nat \ {0} /\ VotingPeriods \subseteq Nat \ {0}
    /\ Configs \subseteq [auto : BOOLEAN, external : BOOLEAN]
    /\ GracePeriod \in Nat /\ MinBlockAge \in Nat

Counters == DOMAIN roots
NoTx == 0
Hashes == {"good", "empty", "bad"}   \* bad: not what the range hashes to

\* A list of validators keeps the order of Authors.
IsValidator(a) == a \in validators
list(vs) == SelectSeq(Authors, LAMBDA a : a \in vs)
calculate_primary_validator_for_block(n) ==
    list(validators)[(n % Cardinality(validators)) + 1]

validate_schedule_period(s) == s >= MinSchedulePeriod
validate_voting_period(v, s) ==
    v >= MinVotingPeriod /\ v < s /\ v <= MaxVotingPeriod

Init ==
    /\ now = 0
    /\ config \in Configs
    /\ validators \in ValidatorSets
    /\ nextBlockToProcess = 0
    /\ schedulePeriod \in SchedulePeriods /\ votingPeriod \in VotingPeriods
    /\ validate_schedule_period(schedulePeriod)
    /\ validate_voting_period(votingPeriod, schedulePeriod)
    /\ nextSlotAtBlock = schedulePeriod /\ currentSlot = 0
    /\ currentSlotsValidator = list(validators)[1]
    /\ slotOfLastPublishedSummary = 0
    /\ roots = <<>> /\ pendingApproval = {} /\ votes = <<>>
    /\ thresholdSet = FALSE
    /\ externalStatus = <<>> /\ externalRef = {} /\ adminReviews = {}
    /\ txIdToRoot = {} /\ anchorRoots = <<>> /\ published = <<>>
    /\ answered = <<>> /\ agreed = {} /\ moved = FALSE /\ changes = 0 /\ offences = {}

-----------------------------------------------------------------------------
\* Voting sessions: vote.rs of pallet-avn, for the session of a root.
has_outcome(v) == Cardinality(v.ayes) >= v.threshold \/ Cardinality(v.nays) >= v.threshold
is_approved(v) == Cardinality(v.ayes) >= v.threshold
has_voted(v, a) == a \in v.ayes \cup v.nays

\* RootVotingSession::is_valid and is_active.
is_valid(c) == c \in pendingApproval /\ ~roots[c].is_validated
is_active(c) == now < votes[c].end_of_voting_period /\ is_valid(c)
can_end_vote(v) == has_outcome(v) \/ now >= v.end_of_voting_period

\* create_and_report_summary_offence.
Report(who, kind, about) == {<<a, kind, about>> : a \in who}

get_target_block ==
    IF nextBlockToProcess = 0 THEN schedulePeriod
    ELSE nextBlockToProcess + schedulePeriod - 1

summary_is_not_approved(from, to) ==
    \A c \in Counters :
        roots[c].from = from /\ roots[c].to = to => ~roots[c].is_validated

summary_is_neither_pending_nor_approved(from, to) ==
    \A c \in Counters :
        roots[c].from = from /\ roots[c].to = to =>
            ~roots[c].is_validated /\ c \notin pendingApproval

\* The call names the next ingress counter and the target block, or is refused.
record_summary_validate_unsigned(a) == a = currentSlotsValidator /\ IsValidator(a)
record_summary_calculation(a, hash) ==
    /\ Len(roots) < MaxRoots
    /\ record_summary_validate_unsigned(a)
    /\ summary_is_neither_pending_nor_approved(nextBlockToProcess, get_target_block)
    /\ roots' = Append(roots,
          [from |-> nextBlockToProcess, to |-> get_target_block, hash |-> hash,
           added_by |-> a, is_validated |-> FALSE, is_finalised |-> FALSE,
           tx_id |-> NoTx])
    /\ pendingApproval' = pendingApproval \cup {Len(roots) + 1}
    /\ votes' = Append(votes,
          [ayes |-> {}, nays |-> {},
           threshold |-> required_for(Cardinality(validators)),
           end_of_voting_period |-> now + votingPeriod])
    /\ externalStatus' = Append(externalStatus, "None")
    /\ UNCHANGED <<now, config, validators, nextBlockToProcess, answered, agreed, moved, changes,
                   slotOfLastPublishedSummary, externalRef, adminReviews>>
    /\ offences' = {} /\ UNCHANGED slotVars /\ UNCHANGED outVars /\ UNCHANGED adminVars

-----------------------------------------------------------------------------
\* Publishing.  send_root_to_ethereum: publish takes the root and names its
\* transaction, or fails (a full queue) and the caller gets the error.
send_root_to_ethereum(c, rs) ==
    /\ published' = Append(published, c)
    /\ roots' = [rs EXCEPT ![c].tx_id = Len(published) + 1]
    /\ txIdToRoot' = txIdToRoot \cup {<<Len(published) + 1, c>>}
    /\ UNCHANGED anchorRoots

\* process_accepted_root, applied to roots that were changed to rs on the way.
process_accepted_root(c, rs) ==
    IF roots[c].hash = "empty" THEN roots' = rs /\ UNCHANGED outVars
    ELSE IF config.auto THEN send_root_to_ethereum(c, rs)
    ELSE /\ anchorRoots' = Append(anchorRoots, c)
         /\ roots' = rs /\ UNCHANGED <<txIdToRoot, published>>

\* submit_root_for_external_validation.
submit_root_for_external_validation(c) ==
    /\ thresholdSet
    /\ externalRef' = externalRef \cup {c}
    /\ externalStatus' = [externalStatus EXCEPT ![c] = "ValidationInProgress"]
    /\ UNCHANGED adminReviews

Validated(c) == [roots EXCEPT ![c].is_validated = TRUE]

\* Whom end_voting reports.
reports_on_approval_of_ayes(c, v) == Report(v.ayes, "RejectedValidRoot", c)
reports_on_approval(c, v) == Report(v.nays, "RejectedValidRoot", c)
reports_on_rejection(c, v) ==
    Report({roots[c].added_by}, "CreatedInvalidRoot", c)
        \cup Report(v.ayes, "ApprovedInvalidRoot", c)

\* end_voting, for a session that has become vs (the caller's vote included).
\* Any error, of the bridge or the watchtower, undoes the whole extrinsic.
end_voting(c, vs) ==
    LET v == vs[c] IN
    /\ is_valid(c) /\ can_end_vote(v)
    /\ IF is_approved(v)
       THEN /\ IF roots[c].hash = "empty"
               THEN roots' = Validated(c) /\ UNCHANGED outVars /\ UNCHANGED extVars
               ELSE IF config.external
               THEN /\ submit_root_for_external_validation(c)
                    /\ roots' = Validated(c) /\ UNCHANGED outVars
               ELSE process_accepted_root(c, Validated(c)) /\ UNCHANGED extVars
            /\ offences' = reports_on_approval(c, v)
            /\ nextBlockToProcess' = roots[c].to + 1
            /\ slotOfLastPublishedSummary' = currentSlot
       ELSE /\ offences' = reports_on_rejection(c, v)
            /\ UNCHANGED <<roots, nextBlockToProcess, slotOfLastPublishedSummary>>
            /\ UNCHANGED outVars /\ UNCHANGED extVars
    /\ pendingApproval' = pendingApproval \ {c}
    /\ votes' = vs

\* A validator votes once in an active session, and the vote that decides it
\* also ends it.
validate_vote(a, c) == IsValidator(a) /\ is_active(c) /\ ~has_voted(votes[c], a)
end_voting_if_outcome_reached(c, vs) ==
    IF has_outcome(vs[c])
    THEN end_voting(c, vs)
    ELSE /\ votes' = vs
         /\ UNCHANGED <<roots, pendingApproval, nextBlockToProcess,
                        slotOfLastPublishedSummary>>
         /\ offences' = {} /\ UNCHANGED outVars /\ UNCHANGED extVars
VotingUnchanged ==
    /\ UNCHANGED <<now, config, validators, answered, agreed, moved, changes>>
    /\ UNCHANGED slotVars /\ UNCHANGED adminVars

process_approve_vote(a, c) ==
    /\ validate_vote(a, c)
    /\ end_voting_if_outcome_reached(c, [votes EXCEPT ![c].ayes = @ \cup {a}])
process_reject_vote(a, c) ==
    /\ validate_vote(a, c)
    /\ end_voting_if_outcome_reached(c, [votes EXCEPT ![c].nays = @ \cup {a}])
approve_vote_validate_unsigned(a, c) == validate_vote(a, c)
reject_vote_validate_unsigned(a, c) == validate_vote(a, c)
end_voting_period_validate_unsigned(a, c) == is_valid(c) /\ IsValidator(a)

approve_root(a, c) ==
    approve_vote_validate_unsigned(a, c) /\ process_approve_vote(a, c) /\ VotingUnchanged
reject_root(a, c) ==
    reject_vote_validate_unsigned(a, c) /\ process_reject_vote(a, c) /\ VotingUnchanged
end_voting_period(a, c) ==
    end_voting_period_validate_unsigned(a, c) /\ end_voting(c, votes) /\ VotingUnchanged

-----------------------------------------------------------------------------
\* Slots and challenges.
grace_period_elapsed == now - nextSlotAtBlock > GracePeriod

validator_can_advance_slot(a) ==
    /\ now >= nextSlotAtBlock
    /\ IF grace_period_elapsed THEN a # currentSlotsValidator
       ELSE a = currentSlotsValidator

register_offence_if_no_summary_created_in_slot ==
    IF slotOfLastPublishedSummary < currentSlot
    THEN Report({currentSlotsValidator}, "NoSummaryCreated", currentSlot)
    ELSE {}

\* update_slot_number, with the reports made before it in the same call.
update_slot_number(a, reported) ==
    /\ currentSlot < MaxSlots
    /\ validator_can_advance_slot(a)
    /\ offences' = reported \cup register_offence_if_no_summary_created_in_slot
    /\ currentSlot' = currentSlot + 1
    /\ currentSlotsValidator' = calculate_primary_validator_for_block(currentSlot + 1)
    /\ nextSlotAtBlock' = nextSlotAtBlock + schedulePeriod
    /\ UNCHANGED <<now, config, validators, nextBlockToProcess, answered, agreed, moved, changes,
                   slotOfLastPublishedSummary>>
    /\ UNCHANGED rootVars /\ UNCHANGED extVars /\ UNCHANGED outVars /\ UNCHANGED adminVars

\* Only the slot's author, with a signature over the current slot.
advance_slot_validate_unsigned(a) == a = currentSlotsValidator /\ IsValidator(a)
advance_slot(a) ==
    advance_slot_validate_unsigned(a) /\ update_slot_number(a, {})

\* The challenge names a slot and who is to blame.
SummaryChallengeIsValid_current(slot, challengee) ==
    /\ slot = currentSlot /\ grace_period_elapsed /\ challengee = currentSlotsValidator
    /\ IsValidator(challengee)

SummaryChallengeIsValid(slot, challengee) ==
    slot = currentSlot /\ grace_period_elapsed /\ challengee = currentSlotsValidator
add_challenge_validate_unsigned(a) == IsValidator(a)
add_challenge(a, slot, challengee) ==
    /\ add_challenge_validate_unsigned(a)
    /\ SummaryChallengeIsValid(slot, challengee)
    /\ update_slot_number(a, Report({challengee}, "SlotNotAdvanced", slot))

-----------------------------------------------------------------------------
\* Administration.
AdminUnchanged ==
    /\ UNCHANGED <<now, config, validators, nextBlockToProcess, answered, agreed,
                   slotOfLastPublishedSummary, currentSlot,
                   currentSlotsValidator>>
    /\ offences' = {} /\ UNCHANGED rootVars /\ UNCHANGED extVars /\ UNCHANGED outVars

\* set_periods, and set_admin_config for SchedulePeriod (v is votingPeriod).
set_periods(s, v) ==
    /\ changes < MaxChanges /\ changes' = changes + 1
    /\ validate_schedule_period(s) /\ validate_voting_period(v, s)
    /\ schedulePeriod' = s /\ votingPeriod' = v
    /\ nextSlotAtBlock' = nextBlockToProcess + s
    /\ moved' = (moved \/ (pendingApproval # {} /\ s # schedulePeriod))
    /\ UNCHANGED thresholdSet /\ AdminUnchanged
set_admin_config_voting_period(v) ==
    /\ validate_voting_period(v, schedulePeriod)
    /\ votingPeriod' = v
    /\ UNCHANGED <<schedulePeriod, thresholdSet, nextSlotAtBlock, moved, changes>> /\ AdminUnchanged
set_admin_config_threshold ==
    /\ thresholdSet' = TRUE
    /\ UNCHANGED <<schedulePeriod, votingPeriod, nextSlotAtBlock, moved, changes>> /\ AdminUnchanged

cleanup_keeps_review(c) ==
    /\ externalStatus' = [externalStatus EXCEPT ![c] = "None"]
    /\ externalRef' = externalRef \ {c}
    /\ UNCHANGED adminReviews

cleanup_external_validation_data(c) ==
    /\ externalStatus' = [externalStatus EXCEPT ![c] = "None"]
    /\ externalRef' = externalRef \ {c}
    /\ adminReviews' = adminReviews \ {c}

ExternalUnchanged ==
    /\ UNCHANGED <<now, config, validators, nextBlockToProcess, answered, votes, moved, changes,
                   slotOfLastPublishedSummary, pendingApproval>>
    /\ offences' = {} /\ UNCHANGED slotVars /\ UNCHANGED adminVars

admin_resolve_challenge(c, accepted) ==
    /\ c \in adminReviews /\ externalStatus[c] = "PendingAdminReview"
    /\ IF accepted THEN process_accepted_root(c, roots)
       ELSE UNCHANGED roots /\ UNCHANGED outVars
    /\ agreed' = IF accepted THEN agreed \cup {c} ELSE agreed
    /\ cleanup_external_validation_data(c)
    /\ ExternalUnchanged

setup_root_for_admin_review(c) ==
    /\ externalStatus' = [externalStatus EXCEPT ![c] = "PendingAdminReview"]
    /\ adminReviews' = adminReviews \cup {c}
    /\ UNCHANGED externalRef

\* WatchtowerHooks::on_voting_completed.  An expired proposal counts as passed.
\* fails: the bridge refuses the root; the error is only logged, and what was
\* written before it stays.  The watchtowers tell a result once, while the
\* status says so.
on_voting_completed(c, result, fails) ==
    /\ c \in externalRef /\ externalStatus[c] = "ValidationInProgress"
    /\ agreed' = IF result = "Failed" THEN agreed ELSE agreed \cup {c}
    /\ IF result \in {"Passed", "Expired"}
       THEN IF fails
            THEN /\ config.auto
                 /\ externalStatus' = [externalStatus EXCEPT ![c] = "Accepted"]
                 /\ UNCHANGED <<externalRef, adminReviews, roots>> /\ UNCHANGED outVars
            ELSE /\ process_accepted_root(c, roots)
                 /\ cleanup_external_validation_data(c)
       ELSE setup_root_for_admin_review(c) /\ UNCHANGED roots /\ UNCHANGED outVars
    /\ ExternalUnchanged

\* BridgeInterfaceNotification::process_result for the next transaction in line.
process_result(succeeded) ==
    LET tx == Len(answered) + 1 IN
    /\ tx \in DOMAIN published
    /\ answered' = Append(answered, succeeded)
    /\ LET known == {p \in txIdToRoot : p[1] = tx} IN
       IF succeeded /\ known # {}
       THEN /\ roots' = [c \in Counters |-> IF <<tx, c>> \in known
                            THEN [roots[c] EXCEPT !.is_finalised = TRUE] ELSE roots[c]]
            /\ txIdToRoot' = txIdToRoot \ known
       ELSE UNCHANGED <<roots, txIdToRoot>>
    /\ UNCHANGED <<now, config, validators, nextBlockToProcess, votes, agreed, moved, changes,
                   slotOfLastPublishedSummary, pendingApproval, anchorRoots, published>>
    /\ offences' = {} /\ UNCHANGED slotVars /\ UNCHANGED extVars /\ UNCHANGED adminVars

\* Sessions of pallet-avn, and blocks.
SessionChange(vs) ==
    /\ validators' = vs
    /\ UNCHANGED <<now, config, nextBlockToProcess, answered, agreed, moved, changes,
                   slotOfLastPublishedSummary>>
    /\ offences' = {} /\ UNCHANGED rootVars /\ UNCHANGED slotVars /\ UNCHANGED extVars
    /\ UNCHANGED outVars /\ UNCHANGED adminVars
NewBlock ==
    /\ now < MaxBlock /\ now' = now + 1
    /\ UNCHANGED <<config, validators, nextBlockToProcess, answered, agreed, moved, changes,
                   slotOfLastPublishedSummary>>
    /\ offences' = {} /\ UNCHANGED rootVars /\ UNCHANGED slotVars /\ UNCHANGED extVars
    /\ UNCHANGED outVars /\ UNCHANGED adminVars
-----------------------------------------------------------------------------
\* What the off-chain worker of an honest author submits.  A call may be included
\* long after it was made: of the worker's conditions those are kept that stay
\* true or that the call itself checks again.
process_summary(hash) == hash # "bad"   \* it sends the hash it computed
can_process_summary == now > get_target_block + MinBlockAge
process_summary_if_required(hash) == can_process_summary /\ process_summary(hash)
cast_votes_if_required(c, aye) == aye <=> roots[c].hash # "bad"
end_voting_if_required(c) == now > votes[c].end_of_voting_period
advance_slot_if_required(a) == a = currentSlotsValidator /\ now >= nextSlotAtBlock
can_challenge == grace_period_elapsed
challenge_slot_if_required(slot, challengee) ==
    can_challenge /\ slot = currentSlot /\ challengee = currentSlotsValidator

Account == {Authors[i] : i \in DOMAIN Authors}
Authored(a) ==
    LET sends(condition) == a \in Honest => condition IN
    \/ \E h \in Hashes :
          sends(process_summary_if_required(h)) /\ record_summary_calculation(a, h)
    \/ \E c \in pendingApproval :
          \/ sends(cast_votes_if_required(c, TRUE)) /\ approve_root(a, c)
          \/ sends(cast_votes_if_required(c, FALSE)) /\ reject_root(a, c)
          \/ sends(end_voting_if_required(c)) /\ end_voting_period(a, c)
    \/ sends(advance_slot_if_required(a)) /\ advance_slot(a)
    \/ \E s \in 0..currentSlot, b \in Account :
          sends(challenge_slot_if_required(s, b)) /\ add_challenge(a, s, b)

Next ==
    \/ \E a \in Online : Authored(a)
    \/ \E s \in SchedulePeriods, v \in VotingPeriods : set_periods(s, v)
    \/ \E v \in VotingPeriods : set_admin_config_voting_period(v)
    \/ set_admin_config_threshold
    \/ \E c \in Counters, accepted \in BOOLEAN : admin_resolve_challenge(c, accepted)
    \/ \E c \in Counters, r \in {"Passed", "Failed", "Expired"}, fails \in BOOLEAN :
          on_voting_completed(c, r, fails)
    \/ \E ok \in BOOLEAN : process_result(ok)
    \/ \E vs \in ValidatorSets : SessionChange(vs)
    \/ NewBlock

Spec == Init /\ [][Next]_vars

-----------------------------------------------------------------------------
\* end_voting and record_summary_calculation: the approved ranges follow each
\* other without gap or overlap up to NextBlockToProcess, rejected and repeated
\* roots in between, as long as the schedule period is not changed while a root
\* is being voted on.
BlocksCoveredOnce ==
    LET done == {c \in Counters : roots[c].is_validated}
        covers(c) == roots[c].from..roots[c].to
    IN ~moved =>
        /\ \A c, d \in done : c # d => covers(c) \cap covers(d) = {}
        /\ UNION {covers(c) : c \in done} = 0..(nextBlockToProcess - 1)

\* A root leaves the chain at most once, and only when a third of the authors
\* approved it and, with external validation on, the watchtowers did not object
\* or the admin overruled them.
LeavesOnceWithConsent ==
    LET out == published \o anchorRoots IN
    /\ \A i, j \in DOMAIN out : out[i] = out[j] => i = j
    /\ \A i \in DOMAIN out :
          /\ roots[out[i]].is_validated /\ is_approved(votes[out[i]])
          /\ config.external => out[i] \in agreed

\* The three external-validation maps agree: a root is with the watchtowers, or
\* under review, or handed over, and only approved roots are any of these.
ReviewIsConsistent ==
    /\ adminReviews = {c \in Counters : externalStatus[c] = "PendingAdminReview"}
    /\ externalRef = {c \in Counters : externalStatus[c] # "None"}
    /\ \A c \in externalRef : config.external /\ roots[c].is_validated
                               /\ roots[c].hash # "empty" /\ c \notin pendingApproval

\* send_root_to_ethereum and process_result: a root is final exactly when the
\* bridge confirmed its transaction, and one whose transaction is open or failed
\* is still found by its id.
FinalAsTheBridgeSaid ==
    \A c \in Counters :
        LET tx == roots[c].tx_id
            confirmed == tx \in DOMAIN answered /\ answered[tx]
        IN /\ roots[c].is_finalised <=> confirmed
           /\ tx # NoTx => published[tx] = c /\ (<<tx, c>> \in txIdToRoot <=> ~confirmed)

\* process_accepted_root is reached from a vote, from the watchtowers' hook and
\* from the admin, and the bridge answers later: whichever way a root takes, it
\* is published or anchored once and with consent, the maps agree on who has to
\* decide about it, and it is final exactly when Ethereum confirmed it.
RootsAccountedFor ==
    LeavesOnceWithConsent /\ ReviewIsConsistent /\ FinalAsTheBridgeSaid

\* end_voting: with fewer dishonest authors than the threshold, an honest author
\* is reported over a root only when the voting period ran out undecided, and
\* then for recording or approving it; honest votes are never held against it.
HonestBlamedOnlyBySilence ==
    \A o \in offences :
        o[1] \in Honest /\ o[2] \notin {"NoSummaryCreated", "SlotNotAdvanced"} =>
            o[2] # "RejectedValidRoot" /\ ~has_outcome(votes[o[3]])

\* validator_can_advance_slot and the challenge: once the grace period is over
\* the slot can still be moved, whoever left the set of validators meanwhile,
\* and the one who is blamed for it is the author of that slot.
SlotNeverStuck ==
    Cardinality(validators) > 1 /\ grace_period_elapsed /\ currentSlot < MaxSlots =>
        ENABLED \E a \in Account : add_challenge(a, currentSlot, currentSlotsValidator)
=============================================================================
