----------------------------- MODULE EthBridgeOcw -----------------------------
(***************************************************************************)
(* pallet-eth-bridge with its off-chain workers, the transaction pool that *)
(* carries their calls, and Ethereum.  Authors are honest here: each runs  *)
(* process_active_request on the state it sees and submits the calls that  *)
(* it prescribes.  Calls may be delayed arbitrarily and overtake each      *)
(* other; a bounded number of them is lost.                                *)
(*                                                                         *)
(* Ethereum and the bridge contract are external: a transaction runs at    *)
(* most once per id, before its deadline, with enough confirmations; the   *)
(* view function `corroborate` answers 1 (ran), -1 (deadline passed) or 0. *)
(***************************************************************************)
EXTENDS EthBridgeRequests, Integers

CONSTANTS
    MinEthBlockConfirmation, \* Ethereum blocks a transaction must be buried under
    MaxEthTxs,               \* model bound: Ethereum transactions sent
    MaxFaults,               \* model bound: losses and untimely expiries
    MaxSessions              \* model bound: changes of the author list

ASSUME OcwLimitsAssumption ==
    /\ MinEthBlockConfirmation \in Nat
    /\ MaxEthTxs \in Nat
    /\ MaxFaults \in Nat
    /\ MaxSessions \in Nat
    /\ Instances \subseteq Nat
    /\ EthTxHashes = 1..MaxEthTxs

VARIABLES
    pool,       \* calls submitted by off-chain workers, not yet in a block
    finalised,  \* is the block that last saved ActiveRequest finalised?
    locks,      \* send locks held in off-chain storage: <<author, tx_id>>
    ethTxs,     \* transactions sent to Ethereum; the hash is the position
    ethBlock,   \* height of Ethereum
    expired,    \* the deadlines 1..expired have passed
    faults,     \* losses and untimely expiries so far
    sessions    \* changes of the author list so far

ocwVars == <<pool, finalised, locks, ethTxs, ethBlock, expired, faults, sessions>>
allVars == <<vars, ocwVars>>

Fault == faults < MaxFaults /\ faults' = faults + 1
-------------------------------------------------------------------------------
(* The bridge contract (external) *)

Executed(id) ==
    \E h \in DOMAIN ethTxs :
        /\ ethTxs[h].state = "executed"
        /\ ethTxs[h].calldata.request.id = id
        /\ ethTxs[h].instance = instance

\* Signatures that make up a quorum with the sender, over this very message.
ContractAccepts(tx) ==
    /\ tx.calldata.expiry > expired
    /\ ~\E h \in DOMAIN ethTxs :
          /\ ethTxs[h].state = "executed"
          /\ ethTxs[h].calldata.request.id = tx.calldata.request.id
          /\ ethTxs[h].instance = tx.instance
    /\ \A i \in DOMAIN tx.calldata.confirmations :
          tx.calldata.confirmations[i].msg =
              msg_hash(tx.calldata.request, tx.calldata.expiry, tx.instance)

corroborate_status(id, expiry) ==
    IF Executed(id) THEN 1 ELSE IF expiry <= expired THEN -1 ELSE 0

\* eth/query: the call data of a transaction.  The service passes no block of
\* the transaction to to_eth_query_response, so the confirmations it reports
\* are counted from block zero.
query_confirmations == ethBlock - 0
-------------------------------------------------------------------------------
(* Off-chain worker: process_active_request of one author *)

Submit(call) ==
    /\ call \notin pool
    /\ pool' = pool \cup {call}

\* The author is in the active list, an active request exists and the block
\* that last changed it is finalised.
Runs(author) == Contains(validators, author) /\ active # None /\ finalised

ocw_confirm_first(author) ==
    /\ Runs(author)
    /\ active[1].confirmations = <<>>
    /\ active[1].tx_data # None => author # active[1].tx_data[1].sender
    /\ Submit([call |-> "add_confirmation", id |-> active[1].request.id,
               confirmation |-> [signer |-> author, msg |-> active[1].msg_hash],
               author |-> author, instance |-> instance])
    /\ UNCHANGED <<vars, finalised, locks, ethTxs, ethBlock, expired, faults, sessions>>

\* Sign the message of the active request, unless the signature is there already.
ocw_confirm(author) ==
    /\ Runs(author)
    /\ LET a == active[1]
           confirmation == [signer |-> author, msg |-> a.msg_hash]
       IN  /\ ~has_enough_confirmations(a)
           /\ a.tx_data # None => author # a.tx_data[1].sender
           /\ ~Contains(a.confirmations, confirmation)
           /\ Submit([call |-> "add_confirmation", id |-> a.request.id,
                      confirmation |-> confirmation, author |-> author,
                      instance |-> instance])
    /\ UNCHANGED <<vars, finalised, locks, ethTxs, ethBlock, expired, faults, sessions>>

send_calldata(a) ==
    [request |-> a.request, expiry |-> a.tx_data[1].expiry,
     confirmations |-> a.confirmations]

\* The sender takes the lock of this transaction, sends it and reports its hash;
\* the lock is kept.  When the answer of the service is lost the transaction is
\* on its way, nothing is reported and the lock is released.
ocw_send(author) ==
    /\ Runs(author)
    /\ active[1].tx_data # None
    /\ LET a == active[1]
           id == a.request.id
           hash == Len(ethTxs) + 1
       IN  /\ a.tx_data[1].sender = author
           /\ has_enough_confirmations(a)
           /\ a.tx_data[1].eth_tx_hash = ZeroHash
           /\ <<author, id>> \notin locks
           /\ hash <= MaxEthTxs
           /\ ethTxs' = Append(ethTxs, [calldata |-> send_calldata(a),
                                        instance |-> instance,
                                        state |-> "pending", block |-> 0])
           /\ \/ /\ locks' = locks \cup {<<author, id>>}
                 /\ Submit([call |-> "add_eth_tx_hash", id |-> id, hash |-> hash,
                            author |-> author, instance |-> instance])
                 /\ UNCHANGED faults
              \/ /\ Fault
                 /\ UNCHANGED <<locks, pool>>
    /\ UNCHANGED <<vars, finalised, ethBlock, expired, sessions>>

check_tx_status_eager(id, expiry) == Some(Executed(id))

\* eth::check_tx_status: None while the outcome is open.
check_tx_status(id, expiry) ==
    IF corroborate_status(id, expiry) = 0 THEN None
    ELSE Some(corroborate_status(id, expiry) = 1)

\* eth::check_tx_hash: the transaction behind the hash has the call data that
\* the sender would send now.
check_tx_hash(a) ==
    LET h == a.tx_data[1].eth_tx_hash
    IN  h # ZeroHash /\ ethTxs[h].calldata = send_calldata(a)

ocw_corroborate(author) ==
    /\ Runs(author)
    /\ active[1].tx_data # None
    /\ LET a == active[1]
           t == a.tx_data[1]
           status == check_tx_status(a.request.id, t.expiry)
           hash_is_valid == check_tx_hash(a)
       IN  /\ t.sender # author
           /\ has_enough_confirmations(a)
           /\ t.eth_tx_hash # ZeroHash \/ t.expiry <= expired
           /\ requires_corroboration(t, author)
           /\ status # None
           /\ hash_is_valid => query_confirmations >= MinEthBlockConfirmation
           /\ Submit([call |-> "add_corroboration", id |-> a.request.id,
                      succeeded |-> status[1], hash_is_valid |-> hash_is_valid,
                      author |-> author, replay_attempt |-> t.replay_attempt,
                      instance |-> instance])
    /\ UNCHANGED <<vars, finalised, locks, ethTxs, ethBlock, expired, faults, sessions>>
-------------------------------------------------------------------------------
(* The transaction pool *)

\* save_active_request_to_storage and the set-ups stamp the request with the
\* current block, which is not final yet.
Stamp ==
    finalised' = IF <<active, notified>>' = <<active, notified>> THEN finalised
                                                                ELSE active' = None

StillValid_any_instance(m) == validate_unsigned(m.author)

\* Checked again when the call is put in a block: the author is still active and
\* signed the call for the current instance.
StillValid(m) == validate_unsigned(m.author) /\ m.instance = instance

Apply(m) ==
    \/ /\ m.call = "add_confirmation"
       /\ add_confirmation(m.id, m.confirmation, m.author)
    \/ /\ m.call = "add_eth_tx_hash"
       /\ add_eth_tx_hash(m.id, m.hash, m.author)
    \/ /\ m.call = "add_corroboration"
       /\ add_corroboration(m.id, m.succeeded, m.hash_is_valid, m.author,
                            m.replay_attempt)

Counts(m) ==
    CASE m.call = "add_confirmation" ->
            confirmation_counts(m.id, m.confirmation, m.author)
      [] m.call = "add_eth_tx_hash" -> eth_tx_hash_counts(m.id, m.hash, m.author)
      [] m.call = "add_corroboration" ->
            corroboration_counts(m.id, m.author, m.replay_attempt)

Include(m) ==
    /\ pool' = pool \ {m}
    /\ IF StillValid(m) /\ Counts(m) THEN Apply(m) ELSE UNCHANGED vars
    /\ Stamp
    /\ UNCHANGED <<locks, ethTxs, ethBlock, expired, faults, sessions>>

Lose(m) ==
    /\ Fault
    /\ pool' = pool \ {m}
    /\ UNCHANGED <<vars, finalised, locks, ethTxs, ethBlock, expired, sessions>>
-------------------------------------------------------------------------------
(* Time, finality and Ethereum *)

Finalise ==
    /\ ~finalised
    /\ finalised' = TRUE
    /\ UNCHANGED <<vars, pool, locks, ethTxs, ethBlock, expired, faults, sessions>>

\* The deadline of the active Send passes.  It is untimely, and counted as a
\* fault, when the hash of the transaction is not on chain yet.
Expire ==
    /\ active # None
    /\ active[1].tx_data # None
    /\ active[1].tx_data[1].expiry > expired
    /\ expired' = active[1].tx_data[1].expiry
    /\ IF active[1].tx_data[1].eth_tx_hash = ZeroHash THEN Fault ELSE UNCHANGED faults
    /\ UNCHANGED <<vars, pool, finalised, locks, ethTxs, ethBlock, sessions>>

\* The lock outlives the call that reports the hash, except by a fault.
ExpireLock(lock) ==
    /\ locks' = locks \ {lock}
    /\ IF \E m \in pool : m.call = "add_eth_tx_hash" /\ m.id = lock[2]
       THEN Fault ELSE UNCHANGED faults
    /\ UNCHANGED <<vars, pool, finalised, ethTxs, ethBlock, expired, sessions>>

Mine(h) ==
    /\ ethTxs[h].state = "pending"
    /\ ethBlock' = ethBlock + 1
    /\ ethTxs' = [ethTxs EXCEPT
           ![h].state = IF ContractAccepts(ethTxs[h]) THEN "executed" ELSE "reverted",
           ![h].block = ethBlock + 1]
    /\ UNCHANGED <<vars, pool, finalised, locks, expired, faults, sessions>>
-------------------------------------------------------------------------------
(* Callers, operators and sessions *)

Caller ==
    /\ \/ \E n \in ParamCounts : publish(n)
       \/ \E id \in LowerIds : generate_lower_proof(id)
    /\ Stamp
    /\ UNCHANGED <<pool, locks, ethTxs, ethBlock, expired, faults, sessions>>

\* Operators act a bounded number of times and never go back to an instance.
Operator ==
    /\ \/ RemoveActiveRequest
       \/ \E i \in Instances : i > instance /\ SetEthBridgeInstance(i)
    /\ Fault
    /\ Stamp
    /\ UNCHANGED <<pool, locks, ethTxs, ethBlock, expired, sessions>>

Session ==
    /\ sessions < MaxSessions
    /\ sessions' = sessions + 1
    /\ \E vs \in ValidatorSets : vs # validators /\ NewSession(vs)
    /\ UNCHANGED <<pool, finalised, locks, ethTxs, ethBlock, expired, faults>>
-------------------------------------------------------------------------------
OcwInit ==
    /\ Init
    /\ instance = 1
    /\ pool = {}
    /\ finalised = TRUE
    /\ locks = {}
    /\ ethTxs = <<>>
    /\ ethBlock = MinEthBlockConfirmation
    /\ expired = 0
    /\ faults \in 0..MaxFaults    \* what is left of the bound
    /\ sessions = 0

Ocw(author) == ocw_confirm(author) \/ ocw_send(author) \/ ocw_corroborate(author)

OcwNext ==
    \/ Caller
    \/ \E author \in Accounts : Ocw(author)
    \/ \E m \in pool : Include(m) \/ Lose(m)
    \/ Finalise
    \/ Expire
    \/ \E lock \in locks : ExpireLock(lock)
    \/ \E h \in DOMAIN ethTxs : Mine(h)
    \/ Operator
    \/ Session

OcwSpec == OcwInit /\ [][OcwNext]_allVars

\* Off-chain workers run at every block, blocks take in the calls of the pool,
\* blocks get finalised, time passes and Ethereum mines what it is sent.
Fairness ==
    /\ \A author \in Accounts :
          /\ WF_allVars(ocw_confirm(author))
          /\ WF_allVars(ocw_send(author))
          /\ WF_allVars(ocw_corroborate(author))
    /\ WF_allVars(\E m \in pool : Include(m))
    /\ WF_allVars(Finalise)
    /\ WF_allVars(Expire)
    /\ WF_allVars(\E lock \in locks : ExpireLock(lock))
    /\ WF_allVars(\E h \in DOMAIN ethTxs : Mine(h))

FairOcwSpec == OcwSpec /\ Fairness
-------------------------------------------------------------------------------
(* Properties *)

\* What the chain settles is what happened on Ethereum, and stays so: a Send
\* settled as failed can never run afterwards, not even a transaction of an
\* earlier attempt, and one settled as succeeded has run (corroborate,
\* finalize_state).  Another bridge instance knows nothing of this one's past.
SettledAsOnEthereum ==
    instance = 1 =>
        \A id \in DOMAIN settled : settled[id].tx_succeeded <=> Executed(id)

\* A Send is settled by what its contract says at that moment, with calls of an
\* earlier attempt or of an earlier bridge instance still in the pool
\* (add_corroboration: replay_attempt; validate_unsigned: the instance is signed).
SettledTruthfully ==
    [][\A id \in DOMAIN settled' \ DOMAIN settled :
          settled'[id].tx_succeeded <=> Executed(id)]_allVars

\* No honest author is reported for corroborating: two honest corroborations of
\* one attempt never disagree about the outcome, however far apart they were
\* made (complete_transaction reports the losing side).
HonestNeverReported == offenders = {}

\* An author calls the hash of a transaction invalid only if it is missing or
\* belongs to another transaction than the one sent for the current attempt
\* (tx.rs: "the tx hash is missing or pointing to a different transaction").
HashJudgedFairly ==
    [][\A m \in pool' \ pool :
          (m.call = "add_corroboration" /\ ~m.hash_is_valid) =>
              LET t == active[1].tx_data[1]
              IN  \/ t.eth_tx_hash = ZeroHash
                  \/ ethTxs[t.eth_tx_hash].calldata.request # active[1].request
                  \/ ethTxs[t.eth_tx_hash].calldata.expiry # t.expiry]_allVars

\* Success is vouched for only when the transaction is buried under enough Ethereum
\* blocks (eth.rs: "does not yet have enough ETH confirmations, skipping").
CorroboratedWhenConfirmed ==
    [][\A m \in pool' \ pool :
          (m.call = "add_corroboration" /\ m.succeeded /\ m.hash_is_valid) =>
              LET h == active[1].tx_data[1].eth_tx_hash
              IN  /\ ethTxs[h].block # 0
                  /\ ethBlock - ethTxs[h].block >= MinEthBlockConfirmation]_allVars

\* Every accepted request is answered: nothing is stuck behind a request that
\* nobody can finish (lib.rs: "processed to completion").
EveryRequestAnswered ==
    \A n \in 1..MaxRequests : (Len(accepted) >= n) ~> (Len(notified) >= n)
=============================================================================
