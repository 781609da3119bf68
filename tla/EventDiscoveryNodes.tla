-------------------------- MODULE EventDiscoveryNodes --------------------------
(***************************************************************************)
(* The task that every author's node runs to feed event discovery          *)
(* (client/external-service, ethereum_events_handler.rs), the pool between *)
(* the nodes and the chain, and an Ethereum that keeps growing.            *)
(*                                                                         *)
(* Honest nodes read the range first and the rest of what they need later, *)
(* when the chain may have moved on; they see Ethereum up to different     *)
(* heights; their calls are included late, in any order, or lost.  Faulty  *)
(* authors vote as they like.                                              *)
(***************************************************************************)
EXTENDS EventDiscovery

CONSTANTS
    Log,              \* the logs of the bridge contracts, in Ethereum's final chain
    PrimaryKinds,     \* ValidEvents::is_primary
    BatchLimit,       \* IncomingEventsBatchLimit: events per partition
    EthFinality,      \* ETH_FINALITY
    Faulty,           \* authors that vote as they like
    MaxLag,           \* blocks a node may be behind
    FirstHeight,      \* height of Ethereum when the model starts
    MaxHeight,        \* model bound: last height of Ethereum
    MaxLosses,        \* model bound: calls lost from the pool
    MaxOperations     \* model bound: interventions of operators, and sessions

ChainLog ==
    [tx : TxIds, kind : EventKinds, block : Nat, index : Nat, contract : Instances]

ASSUME LogAssumption == Log \subseteq ChainLog
ASSUME TxIdsAssumption == TxIds \subseteq Nat \ {0}
ASSUME FaultyAssumption == Faulty \subseteq Accounts

VARIABLES
    height,      \* of Ethereum
    task,        \* what a node's loop has read of the chain, if it has
    pool,        \* calls submitted and neither included nor lost
    losses,      \* calls lost so far
    operations,  \* interventions so far
    since        \* history: the block from which the instance is followed

nodeVars == <<height, task, pool, losses, operations, since>>
allVars == <<vars, nodeVars>>

Honest == Accounts \ Faulty
-------------------------------------------------------------------------------
(* What a node finds out about Ethereum *)

\* A transaction has one entry; primary events take precedence over secondary
\* ones, and earlier logs over later ones.
precedes(l, m) ==
    IF (l.kind \in PrimaryKinds) = (m.kind \in PrimaryKinds)
    THEN l.index <= m.index
    ELSE l.kind \in PrimaryKinds

extend_discovery_to_secondary_events == EventsFilter \ PrimaryKinds # {}

identify_events(from, to, contract) ==
    LET logs == {l \in Log : /\ l.block \in from..to
                             /\ l.contract = contract
                             /\ \/ l.kind \in PrimaryKinds
                                \/ extend_discovery_to_secondary_events}
        unique == {l \in logs : \A m \in logs : m.tx = l.tx => precedes(l, m)}
    IN  {[tx |-> l.tx, kind |-> l.kind, block |-> l.block] :
            l \in {m \in unique : m.kind \in EventsFilter}}

\* The receipts that a node at height h gets for the additional transactions.
identify_additional_event_info(txs, h) ==
    {l \in Log : l.tx \in txs /\ l.block <= h /\ \A m \in Log : m.tx = l.tx => l.index <= m.index}

\* The list of events a node votes on: those in the blocks of the additional
\* transactions, once for every such transaction, and those of the range.  An
\* entry has the transaction that brought it, or zero, to tell copies apart.
all_events(range, txs, contract, h) ==
    LET receipts == identify_additional_event_info(txs, h)
        additional_events == UNION {
            {[event |-> e, from |-> l.tx] : e \in identify_events(l.block, l.block, contract)} :
            l \in receipts}
        range_events == {[event |-> e, from |-> 0] :
            e \in identify_events(range.start_block, end_block(range), contract)}
    IN  additional_events \cup range_events

\* Ord for DiscoveredEvent: by block, then by transaction.
before(e, f) == e.block < f.block \/ (e.block = f.block /\ e.tx < f.tx)

\* Sorted and cut into chunks; a chunk is a set, so copies in it are one.
create_partitions(range, entries) ==
    LET index(x) == Cardinality({y \in entries :
            \/ before(y.event, x.event)
            \/ y.event = x.event /\ y.from < x.from})
        chunk(k) == {x.event : x \in {y \in entries : index(y) \div BatchLimit = k}}
        count == (Cardinality(entries) + BatchLimit - 1) \div BatchLimit
        partition(k, last) == [range |-> range, partition |-> k, is_last |-> last,
                               data |-> chunk(k)]
    IN  IF count = 0 THEN <<partition(0, TRUE)>>
        ELSE [k \in 1..count |-> partition(k - 1, k = count)]
-------------------------------------------------------------------------------
(* The pool *)

\* The signature covers the hash of the instance it was made for.
validate_unsigned(c) ==
    /\ c.author \in validators
    /\ c.instance = instance
    /\ IF c.call = "submit_ethereum_events"
       THEN does_range_matches_active(c.partition)
       ELSE activeRange = None

\* The pool admits valid calls only, and drops the calls that a block has made
\* invalid: a range or partition that has passed does not come back.
Submit(c) == pool' = IF validate_unsigned(c) THEN pool \cup {c} ELSE pool

Revalidate(calls) == pool' = {c \in calls : validate_unsigned(c)'}
-------------------------------------------------------------------------------
(* The loop of a node *)

Views == (height - MaxLag)..height

query_has_author_casted_vote(a) ==
    author_has_cast_event_vote(a) \/ author_has_submitted_latest_block(a)

\* query_runtime_and_process, up to the reads of the instance and the range; a
\* new round of the loop forgets what an earlier one had read.
query_runtime(a) ==
    /\ activeRange # None
    /\ task[a] # Some([instance |-> instance, range |-> activeRange[1].range,
                       partition |-> activeRange[1].partition])
    /\ task' = [task EXCEPT ![a] = Some([instance |-> instance,
                                         range |-> activeRange[1].range,
                                         partition |-> activeRange[1].partition])]
    /\ UNCHANGED <<vars, height, pool, losses, operations, since>>

\* process_events and execute_event_processing, for what was read earlier.
execute_event_processing(a) ==
    /\ task[a] # None
    /\ \E h \in Views :
          LET t == task[a][1]
              partitions == create_partitions(t.range,
                  all_events(t.range, activeRange[1].additional, t.instance, h))
          IN  /\ h >= end_block(t.range) + EthFinality
              /\ ~query_has_author_casted_vote(a)
              /\ t.partition < Len(partitions)
              /\ Submit([call |-> "submit_ethereum_events", author |-> a,
                         instance |-> t.instance,
                         partition |-> partitions[t.partition + 1]])
    /\ task' = [task EXCEPT ![a] = None]
    /\ UNCHANGED <<vars, height, losses, operations, since>>

submit_latest_block(a) ==
    /\ activeRange = None
    /\ ~query_has_author_casted_vote(a)
    /\ \E h \in Views :
          Submit([call |-> "submit_latest_ethereum_block", author |-> a,
                  instance |-> instance, block |-> h])
    /\ UNCHANGED <<vars, height, task, losses, operations, since>>
-------------------------------------------------------------------------------
(* From the pool into a block *)

Follow == IF since = None /\ activeRange' # None
          THEN since' = Some(activeRange'[1].range.start_block)
          ELSE UNCHANGED since

IncludeEvents(c) ==
    /\ c.call = "submit_ethereum_events"
    /\ InBounds(c.partition)
    /\ submit_ethereum_events(c.author, c.partition)
    /\ Revalidate(pool \ {c})
    /\ UNCHANGED <<height, task, losses, operations, since>>

IncludeBlock(c) ==
    /\ c.call = "submit_latest_ethereum_block"
    /\ submit_latest_ethereum_block(c.author, c.block)
    /\ Follow
    /\ Revalidate(pool \ {c})
    /\ UNCHANGED <<height, task, losses, operations>>

\* A call that the extrinsic refuses, because its author has voted, is spent.
Refuse(c) ==
    /\ IF c.call = "submit_ethereum_events"
       THEN author_has_cast_event_vote(c.author)
       ELSE author_has_submitted_latest_block(c.author)
    /\ pool' = pool \ {c}
    /\ UNCHANGED <<vars, height, task, losses, operations, since>>

Lose(c) ==
    /\ losses < MaxLosses
    /\ losses' = losses + 1
    /\ pool' = pool \ {c}
    /\ UNCHANGED <<vars, height, task, operations, since>>
-------------------------------------------------------------------------------
(* Ethereum, faulty authors, operators *)

Mine ==
    /\ height < MaxHeight
    /\ height' = height + 1
    /\ UNCHANGED <<vars, task, pool, losses, operations, since>>

FaultyVote(a) ==
    /\ \/ /\ activeRange # None
          /\ \E data \in EventSets, last \in BOOLEAN :
                LET p == [range |-> activeRange[1].range,
                          partition |-> activeRange[1].partition,
                          is_last |-> last, data |-> data]
                IN  InBounds(p) /\ submit_ethereum_events(a, p)
       \/ \E b \in SeenBlocks : submit_latest_ethereum_block(a, b)
    /\ Follow
    /\ Revalidate(pool)
    /\ UNCHANGED <<height, task, losses, operations>>

\* Operators queue transactions of earlier blocks only ("Entries must be of
\* previous blocks"), and change the instance between ranges, because the
\* partition index of the active range stays; no code checks either.
Operate ==
    /\ operations < MaxOperations
    /\ operations' = operations + 1
    /\ \/ /\ \E l \in Log :
                /\ l.block < IF activeRange = None THEN height
                             ELSE activeRange[1].range.start_block
                /\ QueueAdditionalEthereumEvent(l.tx)
          /\ UNCHANGED since
       \/ RestartEventDiscoveryOnRange /\ UNCHANGED since
       \/ \E i \in Instances \ {instance} :
             /\ activeRange # None /\ activeRange[1].partition = 0
             /\ SetEthBridgeInstance(i)
             /\ since' = Some(activeRange[1].range.start_block)
       \/ \E vs \in ValidatorSets \ {validators} : NewSession(vs) /\ UNCHANGED since
    /\ Revalidate(pool)
    /\ UNCHANGED <<height, task, losses>>
-------------------------------------------------------------------------------
NodesInit ==
    /\ Init
    /\ height = FirstHeight
    /\ task = [a \in Honest |-> None]
    /\ pool = {}
    /\ losses = 0
    /\ operations = 0
    /\ since = None

NodeAuthors == Honest \cap validators

NodeStep(a) == query_runtime(a) \/ execute_event_processing(a) \/ submit_latest_block(a)

NodesNext ==
    \/ \E a \in NodeAuthors : NodeStep(a)
    \/ \E c \in pool : IncludeEvents(c) \/ IncludeBlock(c) \/ Refuse(c) \/ Lose(c)
    \/ \E a \in Faulty : FaultyVote(a)
    \/ Mine
    \/ Operate

NodesSpec == NodesInit /\ [][NodesNext]_allVars

\* Some node goes on with its loop, some call of the pool gets into a block, and
\* Ethereum grows.  No node in particular is assumed to make progress.
FairNodesSpec ==
    /\ NodesSpec
    /\ WF_allVars(\E a \in NodeAuthors : query_runtime(a))
    /\ WF_allVars(\E a \in NodeAuthors : execute_event_processing(a))
    /\ WF_allVars(\E a \in NodeAuthors : submit_latest_block(a))
    /\ WF_allVars(\E c \in pool : IncludeEvents(c) \/ IncludeBlock(c))
    /\ WF_allVars(Mine)
-------------------------------------------------------------------------------
(* Properties *)

\* The logs that the chain has to learn of: the first of its transaction by
\* precedence, of the bridge contract in use, of a kind the pallet handles.
WantedLogs ==
    {l \in Log :
        /\ l.contract = instance
        /\ l.kind \in EventsFilter
        /\ \A m \in Log : m.tx = l.tx /\ m.contract = instance => precedes(l, m)}

\* The chain handles the final events and no others: when it has moved past a range, every
\* event of it has been processed, whatever is delayed, lost, repeated, restarted or voted
\* for by a faulty minority; and what reaches the other pallets happened on Ethereum, in a
\* block that all honest nodes consider final, and is of a kind the pallet handles.
FinalEventsHandled ==
    /\ \A l \in WantedLogs : \A i \in DOMAIN since :
          l.block \in since[i]..(activeRange[1].range.start_block - 1)
              => processed_event_exists(l.tx)
    /\ \A tx \in TxIds : handled[tx] > 0 =>
          \E l \in Log : /\ l.tx = tx
                         /\ l.kind \in EventsFilter
                         /\ l.block + EthFinality <= height

\* An honest author is never reported for its vote on events: honest votes on a
\* partition agree, even when nodes read the range and the additional
\* transactions at different times or see Ethereum up to different heights
\* (process_ethereum_events_partition: "Collators with invalid votes").
HonestNotReported == offenders \cap Honest = {}

\* Discovery starts and every event from the first range on is eventually processed; so is
\* a transaction that an operator queues ("additional events to be added in the next
\* ethereum range"), as long as a range is to come within the bounds of the model.
EventuallyProcessed ==
    /\ <>(/\ since # None
          /\ \A l \in WantedLogs : l.block >= since[1] => processed_event_exists(l.tx))
    /\ \A tx \in TxIds :
          (/\ tx \in additionalQueue
           /\ activeRange # None
           /\ activeRange[1].range.start_block + 2 * RangeSize <= MaxStart)
              ~> processed_event_exists(tx)
==============================================================================
