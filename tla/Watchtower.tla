------------------------------ MODULE Watchtower ------------------------------
(***************************************************************************)
(* pallet-watchtower: proposals that node owners (external proposals) or   *)
(* the nodes themselves (internal proposals, submitted by other pallets)   *)
(* vote on.  One internal proposal is active at a time; the others wait in *)
(* a ring buffer.  A proposal is named by its external reference, from     *)
(* which generate_id makes its id: references are unique for ever.  Of the *)
(* block numbers only differences matter, so a proposal keeps the blocks   *)
(* left until its end_at instead of end_at itself.                         *)
(***************************************************************************)
EXTENDS Integers, Sequences, FiniteSets

CONSTANTS
    InternalRefs, ExternalRefs,   \* external references a proposal may carry
    Nodes,                        \* accounts of watchtower nodes
    OwnerOf,                      \* OwnerOf[n]: the account that owns node n
    Durations,                    \* requested voting periods
    VotingPeriods,                \* minimum voting periods the admin may set
    Threshold,                    \* percentage of the nodes that decides
    Cap,                          \* MaxInternalProposalLen
    SignedTxLifetime,
    NoRef                         \* Option::None of a proposal id

VARIABLES
    minVotingPeriod, \* MinVotingPeriod
    proposals,       \* Proposals: duration and blocks left, or NoProposal
    status,          \* ProposalStatus
    votes,           \* Votes: weights in favour and against
    voters,          \* Voters: who voted what, until cleaned up
    activeInternal,  \* ActiveInternalProposal
    queue,           \* InternalProposalQueue: the ring slots
    head, tail,      \* Head and Tail
    externalRef,     \* keys of ExternalRef
    toRemove,        \* keys of ProposalsToRemove
    towers,          \* nodes registered with pallet-node-manager
    completed        \* history: results given to on_voting_completed

wtVars == <<minVotingPeriod, proposals, status, votes, voters, activeInternal,
            queue, head, tail, externalRef, toRemove, towers, completed>>

Refs == InternalRefs \cup ExternalRefs
Owners == {OwnerOf[n] : n \in Nodes}
ASSUME WatchtowerAssumption ==
    /\ InternalRefs \cap ExternalRefs = {}
    /\ NoRef \notin Refs
    /\ Cap \in Nat \ {0}
    /\ VotingPeriods \subseteq Nat
    /\ Durations \subseteq Nat
    /\ Threshold \in 0..100

\* Proposal: the source is told by the reference; left is None (-1), as end_at,
\* until the proposal is activated.
None == -1
NoProposal == [duration |-> None, left |-> None]
Exists(r) == proposals[r] # NoProposal
Outcomes == {"Passed", "Failed", "Expired"}

WtInit ==
    /\ minVotingPeriod \in VotingPeriods
    /\ proposals = [r \in Refs |-> NoProposal]
    /\ status = [r \in Refs |-> "Unknown"]
    /\ votes = [r \in Refs |-> [in_favors |-> 0, againsts |-> 0]]
    /\ voters = [r \in Refs |-> {}]
    /\ activeInternal = NoRef
    /\ queue = [s \in 0..(Cap - 1) |-> NoRef]
    /\ head = 0 /\ tail = 0
    /\ externalRef = {} /\ toRemove = {}
    /\ towers = Nodes
    /\ completed = [r \in Refs |-> <<>>]

-----------------------------------------------------------------------------
\* The ring buffer (queue.rs).
len == IF tail > head THEN tail - head ELSE 0
is_full == len >= Cap
slot(i) == i % Cap

enqueue(r) ==
    /\ ~is_full
    /\ queue[slot(tail)] = NoRef
    /\ queue' = [queue EXCEPT ![slot(tail)] = r]
    /\ tail' = tail + 1

\* What dequeue takes: Err(QueueEmpty) and Err(QueueCorruptState) are NoRef.
dequeued == IF len = 0 THEN NoRef ELSE queue[slot(head)]

dequeue ==
    IF dequeued = NoRef
    THEN UNCHANGED <<queue, head>>
    ELSE /\ queue' = [queue EXCEPT ![slot(head)] = NoRef]
         /\ head' = head + 1

-----------------------------------------------------------------------------
\* The duration to_proposal gives a request (None: the minimum), its check, and
\* the add_proposal that every submission goes through.
to_proposal(d) == IF d = None THEN minVotingPeriod ELSE d
is_valid(d) == d >= minVotingPeriod

add_proposal(r, d) ==
    /\ is_valid(to_proposal(d))
    /\ r \notin externalRef
    /\ externalRef' = externalRef \cup {r}
    /\ LET waits == r \in InternalRefs /\ activeInternal # NoRef
       IN /\ proposals' = [proposals EXCEPT ![r] =
                             [duration |-> to_proposal(d),
                              left |-> IF waits THEN None ELSE to_proposal(d)]]
          /\ status' = [status EXCEPT ![r] =
                             IF waits THEN "Queued" ELSE "Active"]
          /\ IF waits THEN enqueue(r) ELSE UNCHANGED <<queue, tail>>
          /\ activeInternal' = IF r \in InternalRefs /\ ~waits
                               THEN r ELSE activeInternal
    /\ UNCHANGED <<minVotingPeriod, votes, voters, head, toRemove, towers,
                   completed>>

submit_external_proposal(r, d) == r \in ExternalRefs /\ add_proposal(r, d)

\* A relayed call: the signature names the block it was made at, age blocks ago.
NotExpired(age) == age < SignedTxLifetime
signed_submit_external_proposal(r, d, age) ==
    NotExpired(age) /\ submit_external_proposal(r, d)

\* WatchtowerInterface::submit_proposal, called by another pallet.
submit_proposal(r, d) == r \in InternalRefs /\ add_proposal(r, d)

-----------------------------------------------------------------------------
\* vote.rs.
proposal_expired(r) == proposals[r].left <= 0

get_vote_result_on_expiry(r) ==
    IF r \in InternalRefs THEN "Expired"
    ELSE IF votes[r].in_favors > votes[r].againsts THEN "Passed" ELSE "Failed"

\* Proposals after finalise_voting has activated the next internal proposal.
withNextActive(r) ==
    IF r \in InternalRefs /\ dequeued # NoRef /\ Exists(dequeued)
    THEN [proposals EXCEPT ![dequeued].left = proposals[dequeued].duration]
    ELSE proposals

\* finalise_voting up to its last two writes: the outcome is stored, the hooks
\* are told, and the next internal proposal becomes the active one.
CloseVoting_drops_next(r, result) ==
    /\ completed' = [completed EXCEPT ![r] = Append(@, result)]
    /\ IF r \in InternalRefs
       THEN /\ activeInternal' = NoRef
            /\ status' = [s \in Refs |->
                             CASE s = dequeued -> "Active"
                               [] s = r /\ s # dequeued -> result
                               [] OTHER -> status[s]]
            /\ dequeue
       ELSE /\ status' = [status EXCEPT ![r] = result]
            /\ UNCHANGED <<activeInternal, queue, head>>

CloseVoting(r, result) ==
    /\ completed' = [completed EXCEPT ![r] = Append(@, result)]
    /\ IF r \in InternalRefs
       THEN /\ activeInternal' = dequeued
            /\ status' = [s \in Refs |->
                             CASE s = dequeued -> "Active"
                               [] s = r /\ s # dequeued -> result
                               [] OTHER -> status[s]]
            /\ dequeue
       ELSE /\ status' = [status EXCEPT ![r] = result]
            /\ UNCHANGED <<activeInternal, queue, head>>

\* Err(ProposalNotFound) when the dequeued proposal is gone.
CanClose(r) == r \in InternalRefs /\ dequeued # NoRef => Exists(dequeued)

finalise_voting(r, result) ==
    /\ CanClose(r)
    /\ CloseVoting(r, result)
    /\ proposals' = withNextActive(r)
    /\ toRemove' = toRemove \cup {r}

finalise_expired_voting(r) == finalise_voting(r, get_vote_result_on_expiry(r))

\* threshold_achieved over the tally t: the outcome, or NoRef for None.
min_votes == (Threshold * Cardinality(towers) + 99) \div 100
threshold_achieved(t) ==
    IF Cardinality(towers) = 0 THEN NoRef
    ELSE IF t.in_favors >= min_votes THEN "Passed"
    ELSE IF t.againsts >= min_votes THEN "Failed"
    ELSE NoRef

-----------------------------------------------------------------------------
\* NodesInterface, as pallet-node-manager implements it: a node votes once,
\* an owner with the weight of the nodes registered to it.
get_watchtower_voting_weight(who) ==
    Cardinality({n \in towers : OwnerOf[n] = who})
vote_weight(who, r) ==
    IF r \in InternalRefs
    THEN IF who \in towers /\ activeInternal = r THEN 1 ELSE 0
    ELSE get_watchtower_voting_weight(who)

process_vote_any_status(who, r, in_favor) ==
    /\ Exists(r)
    /\ IF proposal_expired(r)
       THEN finalise_expired_voting(r) /\ UNCHANGED <<votes, voters>>
       ELSE LET w == vote_weight(who, r)
                tally == IF in_favor
                         THEN [votes[r] EXCEPT !.in_favors = @ + w]
                         ELSE [votes[r] EXCEPT !.againsts = @ + w]
                result == threshold_achieved(tally)
            IN /\ \A v \in voters[r] : v.who # who
               /\ w > 0
               /\ voters' = [voters EXCEPT ![r] =
                                @ \cup {[who |-> who, in_favor |-> in_favor]}]
               /\ votes' = [votes EXCEPT ![r] = tally]
               /\ IF result # NoRef
                  THEN finalise_voting(r, result)
                  ELSE UNCHANGED <<proposals, status, activeInternal, queue,
                                   head, toRemove, completed>>
    /\ UNCHANGED <<minVotingPeriod, tail, externalRef, towers>>

process_vote(who, r, in_favor) ==
    /\ Exists(r) /\ status[r] = "Active"
    /\ IF proposal_expired(r)
       THEN finalise_expired_voting(r) /\ UNCHANGED <<votes, voters>>
       ELSE LET w == vote_weight(who, r)
                tally == IF in_favor
                         THEN [votes[r] EXCEPT !.in_favors = @ + w]
                         ELSE [votes[r] EXCEPT !.againsts = @ + w]
                result == threshold_achieved(tally)
            IN /\ \A v \in voters[r] : v.who # who
               /\ w > 0
               /\ voters' = [voters EXCEPT ![r] =
                                @ \cup {[who |-> who, in_favor |-> in_favor]}]
               /\ votes' = [votes EXCEPT ![r] = tally]
               /\ IF result # NoRef
                  THEN finalise_voting(r, result)
                  ELSE UNCHANGED <<proposals, status, activeInternal, queue,
                                   head, toRemove, completed>>
    /\ UNCHANGED <<minVotingPeriod, tail, externalRef, towers>>

vote(who, r, in_favor) == process_vote(who, r, in_favor)

signed_vote(who, r, in_favor, age) ==
    NotExpired(age) /\ process_vote(who, r, in_favor)

\* Only on the active internal proposal, by a registered node whose key signed.
validate_unsigned_vote(n, r) == activeInternal = r /\ n \in towers
unsigned_vote(n, r, in_favor) ==
    validate_unsigned_vote(n, r) /\ process_vote(n, r, in_favor)

finalise_proposal(r) ==
    /\ Exists(r) /\ status[r] = "Active" /\ proposal_expired(r)
    /\ finalise_expired_voting(r)
    /\ UNCHANGED <<minVotingPeriod, votes, voters, tail, externalRef, towers>>

-----------------------------------------------------------------------------
\* cleanup_proposals: voters of one proposal are removed, and the proposal
\* with them once no voter is left.  "gone" are the voters removed; whether
\* the weight lasts for the last step is "rest".
Clean(p, gone, rest, ps, rm) ==
    /\ voters' = [voters EXCEPT ![p] = @ \ gone]
    /\ IF rest /\ voters[p] = gone
       THEN /\ proposals' = [ps EXCEPT ![p] = NoProposal]
            /\ votes' = [votes EXCEPT ![p] = [in_favors |-> 0, againsts |-> 0]]
            /\ toRemove' = rm \ {p}
       ELSE proposals' = ps /\ toRemove' = rm /\ UNCHANGED votes

\* on_idle, with weight to spare or only for part of the work.  An internal proposal that is
\* still open ends the hook; an expired one is finalised, and an error there
\* is only logged, so its first writes stay.
expiredActive == activeInternal # NoRef /\ Exists(activeInternal)
                   /\ proposal_expired(activeInternal)
openActive_any == activeInternal # NoRef
openActive == activeInternal # NoRef /\ Exists(activeInternal)
                   /\ ~proposal_expired(activeInternal)

on_idle(spare) ==
    /\ ~openActive
    /\ LET r == activeInternal
           ps == IF expiredActive THEN withNextActive(r) ELSE proposals
           rm == IF expiredActive /\ CanClose(r) THEN toRemove \cup {r}
                 ELSE toRemove
       IN /\ IF expiredActive THEN CloseVoting(r, "Expired")
             ELSE UNCHANGED <<completed, status, activeInternal, queue, head>>
          /\ \/ \E p \in rm, rest \in {spare, TRUE} :
                   \E gone \in IF spare THEN {voters[p]} ELSE SUBSET voters[p] :
                      Clean(p, gone, rest, ps, rm)
             \/ /\ ~spare \/ rm = {}
                /\ proposals' = ps /\ toRemove' = rm
                /\ UNCHANGED <<votes, voters>>
    /\ UNCHANGED <<minVotingPeriod, tail, externalRef, towers>>

\* Registration and deregistration of nodes by pallet-node-manager.
NodesChange(ns) ==
    /\ towers' = ns
    /\ UNCHANGED <<minVotingPeriod, proposals, status, votes, voters,
                   activeInternal, queue, head, tail, externalRef, toRemove,
                   completed>>

\* set_admin_config(MinVotingPeriod): queued proposals keep their duration.
set_admin_config(period) ==
    /\ minVotingPeriod' = period
    /\ UNCHANGED <<proposals, status, votes, voters, activeInternal, queue,
                   head, tail, externalRef, toRemove, towers, completed>>
\* The next block.
WtNewBlock ==
    /\ proposals' = [r \in Refs |-> IF proposals[r].left > 0
                                   THEN [proposals[r] EXCEPT !.left = @ - 1]
                                   ELSE proposals[r]]
    /\ UNCHANGED <<minVotingPeriod, status, votes, voters, activeInternal, queue,
                   head, tail, externalRef, toRemove, towers, completed>>
-----------------------------------------------------------------------------
\* The waiting line as the ring buffer holds it.
Waiting == [i \in 1..len |-> queue[slot(head + i - 1)]]

\* add_proposal, finalise_voting and the queue together: the active internal
\* proposal is the one whose status says so, the queued ones are exactly those
\* in the ring between Head and Tail, each once, and none waits while nothing
\* is active (nothing would ever activate it).
LineIsConsistent ==
    /\ \A r \in InternalRefs : status[r] = "Active" <=> activeInternal = r
    /\ \A r \in InternalRefs :
          status[r] = "Queued" <=> \E i \in DOMAIN Waiting : Waiting[i] = r
    /\ \A i, j \in DOMAIN Waiting : Waiting[i] = Waiting[j] => i = j
    /\ activeInternal = NoRef => len = 0
    /\ \A s \in 0..(Cap - 1) :
          queue[s] # NoRef => \E i \in DOMAIN Waiting : slot(head + i - 1) = s

\* finalise_voting is reached from a deciding vote, a vote after the end, the
\* finalise_proposal call and on_idle: whichever comes first, the other pallets
\* are told one result, once, and it is the one on record for ever.
ToldOnce ==
    \A r \in Refs :
        completed[r] = IF status[r] \in Outcomes THEN <<status[r]>> ELSE <<>>

\* process_vote and cleanup_proposals: while a proposal is open its tally is
\* what its recorded voters add up to, so a vote counts once and the clean-up
\* never reopens a proposal to those it forgot.
TallyMatchesVoters ==
    \A r \in InternalRefs : status[r] \in {"Queued", "Active"} =>
        /\ votes[r].in_favors = Cardinality({v \in voters[r] : v.in_favor})
        /\ votes[r].againsts = Cardinality({v \in voters[r] : ~v.in_favor})

\* cleanup_proposals: what is left of a cleaned proposal is its reference and
\* its outcome; one that is open or waiting keeps its data, and a finished one
\* that still has data is in line to be removed.
NothingLeftBehind ==
    \A r \in externalRef :
        /\ ~Exists(r) => /\ status[r] \in Outcomes
                         /\ voters[r] = {} /\ r \notin toRemove
                         /\ votes[r] = [in_favors |-> 0, againsts |-> 0]
        /\ Exists(r) => (status[r] \in Outcomes <=> r \in toRemove)

\* on_idle: every internal proposal is decided or expires, and its data is
\* removed, however many wait in front of it.
EveryProposalEnds ==
    \A r \in InternalRefs : r \in externalRef ~> status[r] \in Outcomes /\ ~Exists(r)

\* Internal proposals are served one at a time in the order of submission.
Line == INSTANCE ServiceLine WITH
            current <- activeInternal, nobody <- NoRef, waiting <- Waiting,
            served <- {r \in InternalRefs : status[r] \in Outcomes}
ServedInOrder == Line!Spec
=============================================================================
