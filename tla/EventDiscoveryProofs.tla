------------------------- MODULE EventDiscoveryProofs -------------------------
(***************************************************************************)
(* Theorems about EventDiscovery, for every set of authors, transactions,  *)
(* events, votes, records and for every range size and limit.              *)
(***************************************************************************)
EXTENDS EventDiscovery, TLAPS

Recorded == {None, Some(TRUE), Some(FALSE)}

\* What the proofs need of the types: which flags can be recorded, and that the
\* handled events are counted.
RecordTypes ==
    /\ processed \in [TxIds -> Recorded]
    /\ handled \in [TxIds -> Nat]

-------------------------------------------------------------------------------
(* What a step does to the records *)

\* An approved partition: some transactions that had no record are recorded as
\* accepted and counted once.
Handles ==
    \E txs \in SUBSET TxIds :
        /\ \A tx \in txs : processed[tx] = None
        /\ processed' = [tx \in TxIds |-> IF tx \in txs THEN Some(TRUE) ELSE processed[tx]]
        /\ handled' = [tx \in TxIds |-> IF tx \in txs THEN handled[tx] + 1 ELSE handled[tx]]
        /\ legacy' = legacy

Migrates == on_idle

Keeps == UNCHANGED <<processed, handled, legacy>>

\* A step approves a partition, migrates a batch, or leaves the records alone.
LEMMA StepRecords ==
    ASSUME [Next]_vars
    PROVE  Handles \/ Migrates \/ Keeps
<1>1. CASE UNCHANGED vars
  BY <1>1 DEF vars, Keeps
<1>2. ASSUME NEW author \in Accounts, NEW b \in SeenBlocks,
             submit_latest_ethereum_block(author, b)
      PROVE  Keeps
  BY <1>2 DEF submit_latest_ethereum_block, Keeps
<1>3. ASSUME NEW author \in Accounts, NEW data \in EventSets, NEW p,
             p.data = data,
             submit_ethereum_events(author, p)
      PROVE  Handles \/ Keeps
  <2>1. newly_processed(p) \in SUBSET TxIds
    BY <1>3, EventSetsAssumption DEF newly_processed, DiscoveredEvent
  <2>2. \A tx \in newly_processed(p) : processed[tx] = None
    BY DEF newly_processed, processed_event_exists
  <2>3. CASE process_events(newly_processed(p))
    <3>1. legacy' = legacy
      BY <1>3 DEF submit_ethereum_events
    <3> QED
      BY <2>1, <2>2, <2>3, <3>1 DEF process_events, Handles
  <2>4. CASE UNCHANGED <<activeRange, additionalQueue, processed, offenders,
                         handled>>
    BY <1>3, <2>4 DEF submit_ethereum_events, Keeps
  <2> QED
    BY <1>3, <2>3, <2>4 DEF submit_ethereum_events
<1>4. CASE on_idle
  BY <1>4 DEF Migrates
<1>5. ASSUME NEW tx \in TxIds, QueueAdditionalEthereumEvent(tx)
      PROVE  Keeps
  BY <1>5 DEF QueueAdditionalEthereumEvent, Keeps
<1>6. CASE RestartEventDiscoveryOnRange
  BY <1>6 DEF RestartEventDiscoveryOnRange, Keeps
<1>7. ASSUME NEW i \in Instances, SetEthBridgeInstance(i)
      PROVE  Keeps
  BY <1>7 DEF SetEthBridgeInstance, Keeps
<1>8. ASSUME NEW vs \in ValidatorSets, NewSession(vs)
      PROVE  Keeps
  BY <1>8 DEF NewSession, Keeps
<1> QED
  <2>1. CASE \E i \in DOMAIN activeRange, author \in Accounts, data \in EventSets,
                last \in BOOLEAN :
                LET p == [range |-> activeRange[i].range,
                          partition |-> activeRange[i].partition,
                          is_last |-> last, data |-> data]
                IN  InBounds(p) /\ submit_ethereum_events(author, p)
    <3>1. PICK i \in DOMAIN activeRange, author \in Accounts, data \in EventSets,
               last \in BOOLEAN :
               submit_ethereum_events(author,
                   [range |-> activeRange[i].range,
                    partition |-> activeRange[i].partition,
                    is_last |-> last, data |-> data])
      BY <2>1
    <3> QED
      BY <3>1, <1>3
  <2> QED
    BY <1>1, <1>2, <2>1, <1>4, <1>5, <1>6, <1>7, <1>8 DEF Next
-------------------------------------------------------------------------------
(* Migration *)

\* The record of one transaction after a batch: an accepted one stays, another
\* one is replaced by what the batch says about the transaction, if anything.
LEMMA MigratedRecord ==
    ASSUME RecordTypes, NEW batch, migrate_events_batch(batch)
    PROVE  /\ processed' \in [TxIds -> Recorded]
           /\ \A tx \in TxIds : processed[tx] = Some(TRUE) => processed'[tx] = Some(TRUE)
           /\ \A tx \in TxIds : processed[tx] # None => processed'[tx] # None
           /\ \A i \in DOMAIN batch :
                 batch[i].tx \in TxIds /\ ~refused(batch, i)
                     => /\ processed'[batch[i].tx] # None
                        /\ batch[i].accepted => processed'[batch[i].tx] = Some(TRUE)
<1> DEFINE records == {batch[i] : i \in DOMAIN batch}
           about(tx) == {m \in records : m.tx = tx /\ m.kind \in KnownKinds}
           said(tx) == \E m \in about(tx) : m.accepted
           merged(tx) == IF about(tx) = {} \/ ethereum_event_has_already_been_accepted(tx)
                         THEN processed[tx] ELSE Some(said(tx))
<1>1. processed' = [tx \in TxIds |-> merged(tx)]
  BY DEF migrate_events_batch
<1>2. \A tx : Some(said(tx)) \in {Some(TRUE), Some(FALSE)}
  BY DEF Some
<1>3. Some(TRUE) # None /\ Some(FALSE) # None
  BY DEF Some, None
<1>4. \A tx \in TxIds : processed[tx] \in Recorded
  BY DEF RecordTypes
<1>5. \A i \in DOMAIN batch : ~refused(batch, i) =>
          /\ about(batch[i].tx) # {}
          /\ ~ethereum_event_has_already_been_accepted(batch[i].tx)
          /\ batch[i].accepted => said(batch[i].tx)
  BY DEF refused
<1>6. \A tx : said(tx) => Some(said(tx)) = Some(TRUE)
  BY DEF Some
<1> HIDE DEF about, said
<1>7. processed' \in [TxIds -> Recorded]
  BY <1>1, <1>2, <1>4 DEF Recorded
<1>8. \A tx \in TxIds : processed[tx] = Some(TRUE) => processed'[tx] = Some(TRUE)
  BY <1>1 DEF ethereum_event_has_already_been_accepted
<1>9. \A tx \in TxIds : processed[tx] # None => processed'[tx] # None
  BY <1>1, <1>2, <1>3
<1>10. ASSUME NEW i \in DOMAIN batch, batch[i].tx \in TxIds, ~refused(batch, i)
       PROVE  /\ processed'[batch[i].tx] # None
              /\ batch[i].accepted => processed'[batch[i].tx] = Some(TRUE)
  <2>1. processed'[batch[i].tx] = Some(said(batch[i].tx))
    BY <1>1, <1>5, <1>10
  <2> QED
    BY <2>1, <1>2, <1>3, <1>5, <1>6, <1>10
<1> QED
  BY <1>7, <1>8, <1>9, <1>10
-------------------------------------------------------------------------------
(* No event is handled twice *)

HandledInv == RecordTypes /\ HandledOnce

LEMMA HandledInit == Init => HandledInv
  BY DEF Init, HandledInv, RecordTypes, HandledOnce, Recorded

LEMMA HandledStep == HandledInv /\ [Next]_vars => HandledInv'
<1> SUFFICES ASSUME HandledInv, [Next]_vars
             PROVE  HandledInv'
  OBVIOUS
<1>1. CASE Handles
  <2>1. PICK txs \in SUBSET TxIds :
            /\ \A tx \in txs : processed[tx] = None
            /\ processed' = [tx \in TxIds |-> IF tx \in txs THEN Some(TRUE) ELSE processed[tx]]
            /\ handled' = [tx \in TxIds |-> IF tx \in txs THEN handled[tx] + 1 ELSE handled[tx]]
    BY <1>1 DEF Handles
  <2>2. RecordTypes'
    <3>1. Some(TRUE) \in Recorded
      BY DEF Recorded
    <3>2. \A tx \in TxIds : processed[tx] \in Recorded /\ handled[tx] \in Nat
      BY DEF HandledInv, RecordTypes
    <3>3. processed' \in [TxIds -> Recorded]
      BY <2>1, <3>1, <3>2
    <3>4. handled' \in [TxIds -> Nat]
      BY <2>1, <3>2
    <3> QED
      BY <3>3, <3>4 DEF RecordTypes
  <2>3. Some(TRUE) # None
    BY DEF Some, None
  <2>4. ASSUME NEW tx \in TxIds, handled'[tx] > 0
        PROVE  handled'[tx] = 1 /\ processed'[tx] = Some(TRUE)
    <3>1. CASE tx \in txs
      <4>1. processed[tx] # Some(TRUE)
        BY <2>1, <2>3, <3>1
      <4>2. ~(handled[tx] > 0)
        BY <4>1 DEF HandledInv, HandledOnce
      <4>3. handled[tx] \in Nat
        BY DEF HandledInv, RecordTypes
      <4>4. handled[tx] = 0
        BY <4>2, <4>3
      <4>5. handled'[tx] = handled[tx] + 1 /\ processed'[tx] = Some(TRUE)
        BY <2>1, <3>1
      <4> QED
        BY <4>4, <4>5
    <3>2. CASE tx \notin txs
      BY <2>1, <2>4, <3>2 DEF HandledInv, HandledOnce
    <3> QED
      BY <3>1, <3>2
  <2> QED
    BY <2>2, <2>4 DEF HandledInv, HandledOnce
<1>2. CASE Migrates
  <2>1. PICK batch \in get_events_to_migrate : migrate_events_batch(batch)
    BY <1>2 DEF Migrates, on_idle
  <2>2. handled' = handled
    BY <1>2 DEF Migrates, on_idle
  <2> QED
    BY <2>1, <2>2, MigratedRecord DEF HandledInv, RecordTypes, HandledOnce
<1>3. CASE Keeps
  BY <1>3 DEF Keeps, HandledInv, RecordTypes, HandledOnce
<1> QED
  BY <1>1, <1>2, <1>3, StepRecords

\* No event reaches the other pallets twice, whatever authors vote for, however
\* ranges and partitions are restarted, and whatever is migrated meanwhile.
THEOREM NoEventTwice == Spec => []HandledOnce
<1>1. Init => HandledInv
  BY HandledInit
<1>2. HandledInv /\ [Next]_vars => HandledInv'
  BY HandledStep
<1>3. HandledInv => HandledOnce
  BY DEF HandledInv
<1> QED
  BY <1>1, <1>2, <1>3, PTL DEF Spec

\* An accepted event is never turned into a rejected or an unknown one, by a vote
\* or by the records of the older pallet.
THEOREM AcceptanceIsFinal == Spec => AcceptedForever
<1>1. HandledInv /\ [Next]_vars =>
          [\A tx \in TxIds : processed[tx] = Some(TRUE) => processed'[tx] = Some(TRUE)]_vars
  <2> SUFFICES ASSUME HandledInv, [Next]_vars, NEW tx \in TxIds, processed[tx] = Some(TRUE)
               PROVE  processed'[tx] = Some(TRUE)
    OBVIOUS
  <2>1. CASE Handles
    BY <2>1 DEF Handles
  <2>2. CASE Migrates
    <3>1. PICK batch \in get_events_to_migrate : migrate_events_batch(batch)
      BY <2>2 DEF Migrates, on_idle
    <3> QED
      BY <3>1, MigratedRecord DEF HandledInv
  <2>3. CASE Keeps
    BY <2>3 DEF Keeps
  <2> QED
    BY <2>1, <2>2, <2>3, StepRecords
<1> QED
  BY <1>1, HandledInit, HandledStep, PTL DEF Spec, AcceptedForever
-------------------------------------------------------------------------------
(* Nothing is lost in migration *)

MigrationInv == RecordTypes /\ NothingLostInMigration

LEMMA MigrationStep == MigrationInv /\ HandledInv /\ [Next]_vars => NothingLostInMigration'
<1> SUFFICES ASSUME MigrationInv, HandledInv, [Next]_vars, NEW m \in LegacyRecords
             PROVE  \/ m \in legacy'
                    \/ processed'[m.tx] = Some(TRUE)
                    \/ ~m.accepted /\ processed'[m.tx] = Some(FALSE)
  BY DEF NothingLostInMigration
<1>1. m.tx \in TxIds
  BY LegacyAssumption DEF EventMigration
<1>2. \/ m \in legacy
      \/ processed[m.tx] = Some(TRUE)
      \/ ~m.accepted /\ processed[m.tx] = Some(FALSE)
  BY DEF MigrationInv, NothingLostInMigration
<1>3. Some(TRUE) # None /\ Some(FALSE) # None
  BY DEF Some, None
<1>4. CASE Handles
  BY <1>1, <1>2, <1>3, <1>4 DEF Handles
<1>5. CASE Migrates
  <2>1. PICK batch \in get_events_to_migrate : migrate_events_batch(batch)
    BY <1>5 DEF Migrates, on_idle
  <2>2. processed'[m.tx] \in Recorded
    BY <1>1, <2>1, MigratedRecord DEF MigrationInv
  <2>3. CASE processed[m.tx] = Some(TRUE)
    BY <1>1, <2>1, <2>3, MigratedRecord DEF MigrationInv
  <2>4. CASE ~m.accepted /\ processed[m.tx] = Some(FALSE)
    <3>1. processed'[m.tx] # None
      BY <1>1, <1>3, <2>1, <2>4, MigratedRecord DEF MigrationInv
    <3> QED
      BY <2>2, <2>4, <3>1 DEF Recorded
  <2>5. CASE m \in legacy /\ m \notin legacy'
    <3>1. \E i \in DOMAIN batch : batch[i] = m /\ ~refused(batch, i)
      BY <2>1, <2>5 DEF migrate_events_batch
    <3>2. PICK i \in DOMAIN batch : batch[i] = m /\ ~refused(batch, i)
      BY <3>1
    <3>3. /\ processed'[m.tx] # None
          /\ m.accepted => processed'[m.tx] = Some(TRUE)
      BY <1>1, <2>1, <3>2, MigratedRecord DEF MigrationInv
    <3> QED
      BY <2>2, <3>3 DEF Recorded
  <2> QED
    BY <1>2, <2>3, <2>4, <2>5
<1>6. CASE Keeps
  BY <1>2, <1>6 DEF Keeps
<1> QED
  BY <1>4, <1>5, <1>6, StepRecords

\* Every record of the older pallet is still there or known here, and an event
\* it had accepted is accepted here, at every point of the migration.
THEOREM MigrationLosesNothing == Spec => []NothingLostInMigration
<1>1. Init => MigrationInv
  BY HandledInit DEF Init, MigrationInv, HandledInv, NothingLostInMigration
<1>2. MigrationInv /\ HandledInv /\ [Next]_vars => MigrationInv'
  BY MigrationStep, HandledStep DEF MigrationInv, HandledInv
<1>3. MigrationInv => NothingLostInMigration
  BY DEF MigrationInv
<1> QED
  BY <1>1, <1>2, <1>3, HandledInit, HandledStep, PTL DEF Spec
-------------------------------------------------------------------------------
(* Votes count for what is being decided *)

LEMMA VotesInit == Init => VotesAreCurrent
  BY DEF Init, VotesAreCurrent

LEMMA VotesStep == VotesAreCurrent /\ [Next]_vars => VotesAreCurrent'
<1> SUFFICES ASSUME VotesAreCurrent, [Next]_vars
             PROVE  VotesAreCurrent'
  OBVIOUS
<1>1. CASE UNCHANGED vars
  BY <1>1 DEF vars, VotesAreCurrent, does_range_matches_active
<1>2. ASSUME NEW author \in Accounts, NEW b \in SeenBlocks,
             submit_latest_ethereum_block(author, b)
      PROVE  VotesAreCurrent'
  <2> DEFINE vote == [author |-> author, block |-> compute_start_block(b)]
  <2>1. activeRange = None /\ ~author_has_submitted_latest_block(author)
    BY <1>2 DEF submit_latest_ethereum_block
  <2>2. eventVotes' = {}
    BY <1>2, <2>1 DEF submit_latest_ethereum_block, VotesAreCurrent, does_range_matches_active
  <2>3. \/ blockVotes' = {}
        \/ blockVotes' = blockVotes \cup {vote} /\ activeRange' = None
    BY <1>2, <2>1 DEF submit_latest_ethereum_block
  <2>4. vote.author = author
    OBVIOUS
  <2> HIDE DEF vote
  <2>5. \A v, w \in blockVotes \cup {vote} : v.author = w.author => v = w
    BY <2>1, <2>4 DEF VotesAreCurrent, author_has_submitted_latest_block
  <2> QED
    BY <2>2, <2>3, <2>5 DEF VotesAreCurrent
<1>3. ASSUME NEW author \in Accounts, NEW p, submit_ethereum_events(author, p)
      PROVE  VotesAreCurrent'
  <2> DEFINE vote == [author |-> author, partition |-> p]
  <2>1. does_range_matches_active(p) /\ ~author_has_cast_event_vote(author)
    BY <1>3 DEF submit_ethereum_events
  <2>2. blockVotes = {} /\ blockVotes' = {}
    BY <1>3, <2>1 DEF submit_ethereum_events, VotesAreCurrent, does_range_matches_active
  <2>3. \/ eventVotes' = {}
        \/ eventVotes' = eventVotes \cup {vote} /\ activeRange' = activeRange
    BY <1>3 DEF submit_ethereum_events, report_other_voters
  <2>4. vote.author = author /\ vote.partition = p
    OBVIOUS
  <2> HIDE DEF vote
  <2>5. \A v, w \in eventVotes \cup {vote} : v.author = w.author => v = w
    BY <2>1, <2>4 DEF VotesAreCurrent, author_has_cast_event_vote
  <2>6. \A v \in eventVotes \cup {vote} : does_range_matches_active(v.partition)
    BY <2>1, <2>4 DEF VotesAreCurrent
  <2> QED
    BY <2>2, <2>3, <2>5, <2>6 DEF VotesAreCurrent, does_range_matches_active
<1>4. CASE on_idle
  BY <1>4 DEF on_idle, VotesAreCurrent, does_range_matches_active
<1>5. ASSUME NEW tx \in TxIds, QueueAdditionalEthereumEvent(tx)
      PROVE  VotesAreCurrent'
  BY <1>5 DEF QueueAdditionalEthereumEvent, VotesAreCurrent, does_range_matches_active
<1>6. CASE RestartEventDiscoveryOnRange
  BY <1>6 DEF RestartEventDiscoveryOnRange, VotesAreCurrent
<1>7. ASSUME NEW i \in Instances, SetEthBridgeInstance(i)
      PROVE  VotesAreCurrent'
  BY <1>7 DEF SetEthBridgeInstance, VotesAreCurrent
<1>8. ASSUME NEW vs \in ValidatorSets, NewSession(vs)
      PROVE  VotesAreCurrent'
  BY <1>8 DEF NewSession, VotesAreCurrent, does_range_matches_active
<1> QED
  BY <1>1, <1>2, <1>3, <1>4, <1>5, <1>6, <1>7, <1>8 DEF Next

\* At every moment an author has at most one vote, and it is on the partition or
\* the first block that is being decided, through restarts, changes of the
\* instance, sessions and approvals.
THEOREM VotesStayCurrent == Spec => []VotesAreCurrent
  BY VotesInit, VotesStep, PTL DEF Spec
===============================================================================
