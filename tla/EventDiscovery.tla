----------------------------- MODULE EventDiscovery -----------------------------
(***************************************************************************)
(* pallet-eth-bridge, incoming direction, as the chain sees it.  Authors   *)
(* first agree on a block of Ethereum to start from, then vote on the      *)
(* events of one range of blocks after the other.  The events of a range   *)
(* are split into partitions, voted on one at a time; a partition that     *)
(* reaches the quorum has its events handed to the other pallets.          *)
(*                                                                         *)
(* Any current author may vote for any partition at any time, so what is   *)
(* shown here does not depend on what nodes see of Ethereum, on how their  *)
(* calls travel, or on faulty authors.  EventDiscoveryNodes adds those.    *)
(*                                                                         *)
(* A storage map from what is voted on to the set of voters is modelled as *)
(* the set of votes.  Block numbers are far below 2^32 and partitions far  *)
(* below 2^16, where the code saturates.                                   *)
(***************************************************************************)
EXTENDS Naturals, FiniteSets, Sequences, AvnQuorum

CONSTANTS
    Accounts,         \* accounts that may be authors
    ValidatorSets,    \* the author sets a session may install
    Instances,        \* bridge instances an operator may install
    TxIds,            \* hashes of Ethereum transactions, as numbers
    EventKinds,       \* the event signatures a vote may carry
    KnownKinds,       \* signatures of ValidEvents and of legacy lifts
    EventsFilter,     \* ProcessedEventsHandler: the kinds this pallet handles
    RangeSize,        \* EthBlockRangeSize, set at genesis
    SeenBlocks,       \* block numbers authors may report
    EventSets,        \* the event sets an author may vote for
    AdditionalLimit,  \* capacity of AdditionalEthereumEventsQueue
    BatchBound,       \* ProcessingBatchBound: events migrated per block
    LegacyRecords,    \* records an older pallet may hold when the chain starts
    MaxStart,         \* model bound: last start block of a range
    MaxPartition      \* model bound: last partition of a range

DiscoveredEvent == [tx : TxIds, kind : EventKinds, block : Nat]
EventMigration == [tx : TxIds, kind : EventKinds, accepted : BOOLEAN]

ASSUME ValidatorSetsAssumption == ValidatorSets \subseteq SUBSET Accounts
ASSUME FiniteSetsAssumption == \A vs \in ValidatorSets : IsFiniteSet(vs)
ASSUME KindsAssumption == EventsFilter \subseteq KnownKinds
ASSUME RangeSizeAssumption == RangeSize \in Nat \ {0}
ASSUME SeenBlocksAssumption == SeenBlocks \subseteq Nat
ASSUME EventSetsAssumption == EventSets \subseteq SUBSET DiscoveredEvent
ASSUME LegacyAssumption == LegacyRecords \subseteq EventMigration

VARIABLES
    validators,       \* pallet-avn Validators
    instance,         \* Instance
    activeRange,      \* ActiveEthereumRange: None or Some(ActiveEthRange)
    eventVotes,       \* EthereumEvents
    blockVotes,       \* SubmittedEthBlocks
    additionalQueue,  \* AdditionalEthereumEventsQueue
    processed,        \* ProcessedEthereumEvents: the accepted flag, if recorded
    legacy,           \* processed events of the pallet that is migrated
    offenders,        \* accounts reported to the offences pallet
    started,          \* history: how the first range was agreed on
    handled           \* history: how often on_incoming_event_processed got a tx

vars == <<validators, instance, activeRange, eventVotes, blockVotes,
          additionalQueue, processed, legacy, offenders, started, handled>>

None == <<>>
Some(x) == <<x>>

EthBlockRange == [start_block : Nat, length : Nat]

ActiveEthRange ==
    [range : EthBlockRange, partition : Nat, additional : SUBSET TxIds]

EthereumEventsPartition ==
    [range : EthBlockRange, partition : Nat, is_last : BOOLEAN,
     data : SUBSET DiscoveredEvent]

EventVote == [author : Accounts, partition : EthereumEventsPartition]
BlockVote == [author : Accounts, block : Nat]
-------------------------------------------------------------------------------
(* event_discovery.rs *)

next_range_skips(r) == [r EXCEPT !.start_block = @ + r.length + 1]

next_range(r) == [r EXCEPT !.start_block = @ + r.length]

end_block(r) == (r.start_block + r.length) - 1

SaturatingSub(a, b) == IF a > b THEN a - b ELSE 0

\* compute_start_block_from_finalised_block_number: five ranges back, rounded
\* down to a multiple of the range size.
compute_start_block(block) ==
    LET calculation_block == SaturatingSub(block, 5 * RangeSize)
    IN  calculation_block - (calculation_block % RangeSize)
-------------------------------------------------------------------------------
(* Agreeing on the first range *)

get_quorum == required_for(Cardinality(validators))
get_supermajority_quorum == required_for_supermajority(Cardinality(validators))

author_has_submitted_latest_block(author) ==
    \E v \in blockVotes : v.author = author

selected_range_latest(votes) ==
    [start_block |-> CHOOSE b \in {v.block : v \in votes} : \A v \in votes : v.block <= b,
     length |-> RangeSize]

\* The loop over the submitted blocks in ascending order: the first block at
\* which fewer than a quorum of the required votes remain.
selected_range(votes) ==
    LET remaining(b) == SaturatingSub(get_supermajority_quorum,
                                      Cardinality({v \in votes : v.block <= b}))
        low == {v.block : v \in {w \in votes : remaining(w.block) < get_quorum}}
    IN  IF low = {} THEN [start_block |-> 0, length |-> 0]
        ELSE [start_block |-> CHOOSE b \in low : \A c \in low : b <= c,
              length |-> RangeSize]

first_active_range(votes) ==
    [range |-> selected_range(votes), partition |-> 0, additional |-> additionalQueue]

\* History: how many voters had reached the start of the range, against how many
\* would be a quorum.
support(range, votes) ==
    [range |-> range, quorum |-> get_quorum,
     voters |-> Cardinality({v \in votes : v.block >= range.start_block})]

submit_latest_ethereum_block(author, latest_seen_block) ==
    LET vote == [author |-> author, block |-> compute_start_block(latest_seen_block)]
        votes == blockVotes \cup {vote}
    IN  /\ author \in validators
        /\ activeRange = None
        /\ ~author_has_submitted_latest_block(author)
        /\ IF Cardinality(votes) >= get_supermajority_quorum
           THEN /\ activeRange' = Some(first_active_range(votes))
                /\ additionalQueue' = {}
                /\ blockVotes' = {}
                /\ started' = Some(support(selected_range(votes), votes))
           ELSE /\ blockVotes' = votes
                /\ UNCHANGED <<activeRange, additionalQueue, started>>
        /\ UNCHANGED <<validators, instance, eventVotes, processed, legacy,
                       offenders, handled>>
-------------------------------------------------------------------------------
(* Processed events *)

processed_event_exists(tx) == processed[tx] # None

ethereum_event_has_already_been_accepted(tx) == processed[tx] = Some(TRUE)

\* process_ethereum_events_partition looks at an event only if the active range
\* handles its kind and its block is not in a future range.
is_eligible(e, range) == e.kind \in EventsFilter /\ e.block <= end_block(range)

newly_processed_again(p) == {e.tx : e \in {d \in p.data : is_eligible(d, p.range)}}

\* The transactions of a partition that process_ethereum_event handles; when a
\* transaction comes twice the second event finds it processed.
newly_processed(p) ==
    {tx \in {e.tx : e \in {d \in p.data : is_eligible(d, p.range)}} :
        ~processed_event_exists(tx)}

\* The event is recorded as accepted before its handler runs, whatever the
\* handler returns: an error shows in an event only.
process_events(txs) ==
    /\ processed' = [tx \in TxIds |-> IF tx \in txs THEN Some(TRUE) ELSE processed[tx]]
    /\ handled' = [tx \in TxIds |-> IF tx \in txs THEN handled[tx] + 1 ELSE handled[tx]]
-------------------------------------------------------------------------------
(* Voting on a partition *)

author_has_cast_event_vote(author) == \E v \in eventVotes : v.author = author

does_range_matches_active(p) ==
    /\ activeRange # None
    /\ p.range = activeRange[1].range
    /\ p.partition = activeRange[1].partition

VotersFor(p) == {v.author : v \in {w \in eventVotes : w.partition = p}}

advance_partition_forgets(p) ==
    IF p.is_last
    THEN /\ activeRange' = Some([range |-> next_range(p.range), partition |-> 0,
                                 additional |-> {}])
         /\ additionalQueue' = {}
    ELSE /\ activeRange' = Some([activeRange[1] EXCEPT !.partition = @ + 1])
         /\ UNCHANGED additionalQueue

advance_partition(p) ==
    IF p.is_last
    THEN /\ activeRange' = Some([range |-> next_range(p.range), partition |-> 0,
                                 additional |-> additionalQueue])
         /\ additionalQueue' = {}
    ELSE /\ activeRange' = Some([activeRange[1] EXCEPT !.partition = @ + 1])
         /\ UNCHANGED additionalQueue

report_other_voters_kept(p) ==
    /\ UNCHANGED eventVotes
    /\ offenders' = offenders \cup
                       {v.author : v \in {w \in eventVotes : w.partition # p}}

\* All votes go; those who voted for another partition than p are reported.
report_other_voters(p) ==
    /\ eventVotes' = {}
    /\ offenders' = offenders \cup
                       {v.author : v \in {w \in eventVotes : w.partition # p}}

submit_ethereum_events(author, p) ==
    /\ author \in validators
    /\ does_range_matches_active(p)
    /\ ~author_has_cast_event_vote(author)
    /\ IF Cardinality(VotersFor(p) \cup {author}) < get_quorum
       THEN /\ eventVotes' = eventVotes \cup {[author |-> author, partition |-> p]}
            /\ UNCHANGED <<activeRange, additionalQueue, processed, offenders,
                           handled>>
       ELSE /\ process_events(newly_processed(p))
            /\ report_other_voters(p)
            /\ advance_partition(p)
    /\ UNCHANGED <<validators, instance, blockVotes, legacy, started>>
-------------------------------------------------------------------------------
(* Migration of the processed events of an older pallet *)

\* The batches the storage iterator may yield: as many records as there are up
\* to the bound, in the order of their hashed keys, which is arbitrary.
get_events_to_migrate ==
    LET n == IF Cardinality(legacy) < BatchBound THEN Cardinality(legacy) ELSE BatchBound
    IN  {s \in [1..n -> legacy] : \A i, j \in 1..n : s[i] = s[j] => i = j}

\* add_processed_event refuses the i-th record of the batch when its signature
\* is unknown or by then its transaction is accepted; a refused record returns to where it came from.
refused(batch, i) ==
    \/ batch[i].kind \notin KnownKinds
    \/ ethereum_event_has_already_been_accepted(batch[i].tx)
    \/ \E j \in 1..(i - 1) :
          batch[j].tx = batch[i].tx /\ batch[j].accepted /\ batch[j].kind \in KnownKinds

migrate_events_batch_drops(batch) ==
    LET records == {batch[i] : i \in DOMAIN batch}
        added(tx) == {i \in DOMAIN batch : batch[i].tx = tx /\ ~refused(batch, i)}
    IN  /\ processed' = [tx \in TxIds |->
              IF added(tx) = {} THEN processed[tx]
              ELSE Some(\E i \in added(tx) : batch[i].accepted)]
        /\ legacy' = legacy \ records

migrate_events_batch(batch) ==
    LET records == {batch[i] : i \in DOMAIN batch}
        about(tx) == {m \in records : m.tx = tx /\ m.kind \in KnownKinds}
        merged(tx) ==
            IF about(tx) = {} \/ ethereum_event_has_already_been_accepted(tx)
            THEN processed[tx]
            ELSE Some(\E m \in about(tx) : m.accepted)
    IN  /\ processed' = [tx \in TxIds |-> merged(tx)]
        /\ legacy' = (legacy \ records)
                       \cup {batch[i] : i \in {j \in DOMAIN batch : refused(batch, j)}}

\* All instances are on the network of the older pallet.
on_idle ==
    /\ legacy # {}
    /\ \E batch \in get_events_to_migrate : migrate_events_batch(batch)
    /\ UNCHANGED <<validators, instance, activeRange, eventVotes, blockVotes,
                   additionalQueue, offenders, started, handled>>
-------------------------------------------------------------------------------
(* Operators and sessions *)

QueueAdditionalEthereumEvent(tx) ==
    /\ ~ethereum_event_has_already_been_accepted(tx)
    /\ Cardinality(additionalQueue \cup {tx}) <= AdditionalLimit
    /\ additionalQueue' = additionalQueue \cup {tx}
    /\ UNCHANGED <<validators, instance, activeRange, eventVotes, blockVotes,
                   processed, legacy, offenders, started, handled>>

RestartEventDiscoveryOnRange ==
    /\ eventVotes' = {}
    /\ UNCHANGED <<validators, instance, activeRange, blockVotes, additionalQueue,
                   processed, legacy, offenders, started, handled>>

SetEthBridgeInstance_keeps(i) ==
    /\ instance' = i
    /\ UNCHANGED <<validators, activeRange, eventVotes, blockVotes, additionalQueue,
                   processed, legacy, offenders, started, handled>>

\* The range and the votes on the first block stay as they are.  What the
\* handler does to the active request is in EthBridgeRequests; when that fails
\* the call is rolled back and nothing happens here either.
SetEthBridgeInstance(i) ==
    /\ eventVotes' = {}
    /\ instance' = i
    /\ UNCHANGED <<validators, activeRange, blockVotes, additionalQueue,
                   processed, legacy, offenders, started, handled>>

NewSession(vs) ==
    /\ validators' = vs
    /\ UNCHANGED <<instance, activeRange, eventVotes, blockVotes, additionalQueue,
                   processed, legacy, offenders, started, handled>>
-------------------------------------------------------------------------------
Init ==
    /\ validators \in ValidatorSets
    /\ instance \in Instances
    /\ activeRange = None
    /\ eventVotes = {}
    /\ blockVotes = {}
    /\ additionalQueue = {}
    /\ processed = [tx \in TxIds |-> None]
    /\ legacy = LegacyRecords
    /\ offenders = {}
    /\ started = None
    /\ handled = [tx \in TxIds |-> 0]

InBounds(p) ==
    /\ p.is_last => p.range.start_block + RangeSize <= MaxStart
    /\ ~p.is_last => p.partition < MaxPartition

Next ==
    \/ \E author \in Accounts, b \in SeenBlocks : submit_latest_ethereum_block(author, b)
    \/ \E i \in DOMAIN activeRange, author \in Accounts, data \in EventSets, last \in BOOLEAN :
          LET p == [range |-> activeRange[i].range, partition |-> activeRange[i].partition,
                    is_last |-> last, data |-> data]
          IN  InBounds(p) /\ submit_ethereum_events(author, p)
    \/ on_idle
    \/ \E tx \in TxIds : QueueAdditionalEthereumEvent(tx)
    \/ RestartEventDiscoveryOnRange
    \/ \E i \in Instances : SetEthBridgeInstance(i)
    \/ \E vs \in ValidatorSets : NewSession(vs)

Spec == Init /\ [][Next]_vars
-------------------------------------------------------------------------------
(* Properties *)

\* Every variable keeps the type its storage item is declared with.
TypeOK ==
    /\ validators \in SUBSET Accounts
    /\ instance \in Instances
    /\ activeRange \in Seq(ActiveEthRange)
    /\ Len(activeRange) <= 1
    /\ eventVotes \subseteq EventVote
    /\ blockVotes \subseteq BlockVote
    /\ additionalQueue \subseteq TxIds
    /\ processed \in [TxIds -> {None, Some(TRUE), Some(FALSE)}]
    /\ legacy \subseteq EventMigration
    /\ offenders \subseteq Accounts
    /\ started \in Seq([range : EthBlockRange, quorum : Nat, voters : Nat])
    /\ handled \in [TxIds -> Nat]

\* No event reaches the other pallets twice: not when it is in two partitions,
\* when it was queued as an additional transaction, when its range is voted on
\* again, when its record was migrated, or after a change of the bridge
\* instance (process_ethereum_event, add_processed_event).
HandledOnce ==
    \A tx \in TxIds :
        handled[tx] > 0 => handled[tx] = 1 /\ processed[tx] = Some(TRUE)

\* A stored vote always counts for what is being decided now: authors have one
\* vote each, all on the active partition of the active range, and votes on the
\* first block end with the first range.  So those who are reported when a
\* partition is approved voted against it, on the same question.
VotesAreCurrent ==
    /\ \A v, w \in eventVotes : v.author = w.author => v = w
    /\ \A v \in eventVotes : does_range_matches_active(v.partition)
    /\ \A v, w \in blockVotes : v.author = w.author => v = w
    /\ blockVotes # {} => activeRange = None

\* The first range is a real one, never the default range that the loop starts
\* from, and it starts at a block that a quorum of voters has reached
\* (submit_latest_ethereum_block).
StartSupported ==
    \A i \in DOMAIN started :
        /\ started[i].range.length = RangeSize
        /\ started[i].range.start_block % RangeSize = 0
        /\ started[i].voters >= started[i].quorum

\* An event that was accepted stays accepted, also when a record of the older
\* pallet says that it was rejected (add_processed_event: "We want to preserve
\* the one that was accepted").
AcceptedForever ==
    [][\A tx \in TxIds : processed[tx] = Some(TRUE) => processed'[tx] = Some(TRUE)]_vars

\* Migration moves records and loses none: what the older pallet knew is still
\* there or known here, and what it had accepted is accepted here
\* (migrate_events_batch, return_entry).
NothingLostInMigration ==
    \A m \in LegacyRecords :
        \/ m \in legacy
        \/ processed[m.tx] = Some(TRUE)
        \/ ~m.accepted /\ processed[m.tx] = Some(FALSE)
===============================================================================
