--------------------------- MODULE EthBridgeRequests ---------------------------
(***************************************************************************)
(* pallet-eth-bridge, outgoing direction, as the chain sees it: requests   *)
(* to run a function of the Ethereum bridge contract ("Send") or to sign a *)
(* lower ("LowerProof") are queued, made active one at a time, confirmed,  *)
(* tagged with an Ethereum transaction hash, corroborated, and settled.    *)
(*                                                                         *)
(* Every extrinsic is an action that any current author may submit with    *)
(* any arguments at any time, so a theorem about this module holds however *)
(* the messages of the off-chain workers are delayed, lost, duplicated or  *)
(* reordered, and whatever faulty authors say.  EthBridgeOcw adds the      *)
(* off-chain workers and Ethereum.                                         *)
(*                                                                         *)
(* Abstractions: a deadline `expiry` is the number of the set-up that drew *)
(* it (set-ups draw increasing times); a signature is the pair of signer   *)
(* and message; a message hash is the record of what is hashed; the        *)
(* parameters of a request are represented by their number.                *)
(*                                                                         *)
(* A definition named after another one with a suffix, as is               *)
(* complete_transaction_unset, is a wrong variant of it that no            *)
(* specification uses: it serves to show that a property notices the       *)
(* difference.                                                             *)
(***************************************************************************)
EXTENDS Naturals, Sequences, FiniteSets, AvnQuorum

CONSTANTS
    Accounts,            \* accounts that may be authors
    ValidatorSets,       \* the author lists a session may install
    Instances,           \* bridge instances an operator may install
    EthTxHashes,         \* Ethereum transaction hashes (numbers, never zero)
    ParamCounts,         \* numbers of parameters callers publish with
    LowerIds,            \* ids the token manager gives to lowers
    AdminTxIds,          \* values an operator may set NextTxId to
    ParamsLimit,         \* most parameters of an encoded function call
    MaxQueuedTxRequests, \* capacity of RequestQueue
    MaxRequests,         \* model bound: requests accepted in a behaviour
    MaxSetups            \* model bound: send set-ups in a behaviour

ASSUME ValidatorSetsAssumption == ValidatorSets \subseteq Seq(Accounts)
ASSUME EthTxHashesAssumption == EthTxHashes \subseteq Nat \ {0}
ASSUME IdsAssumption ==
    /\ LowerIds \subseteq Nat
    /\ AdminTxIds \subseteq Nat
    /\ ParamCounts \subseteq Nat
ASSUME LimitsAssumption ==
    /\ ParamsLimit \in Nat
    /\ MaxQueuedTxRequests \in Nat
    /\ MaxRequests \in Nat
    /\ MaxSetups \in Nat

VARIABLES
    validators,  \* pallet-avn Validators
    primary,     \* pallet-avn PrimaryCollatorIndexForSending
    nextTxId,    \* NextTxId
    queue,       \* RequestQueue
    active,      \* ActiveRequest: None or Some(ActiveRequestData)
    settled,     \* SettledTransactions
    instance,    \* Instance
    offenders,   \* accounts reported to the offences pallet
    setups,      \* number of send set-ups so far; stands for the clock
    accepted,    \* history: requests accepted, in order of arrival
    notified     \* history: results reported to the requesting pallets

vars == <<validators, primary, nextTxId, queue, active, settled, instance,
          offenders, setups, accepted, notified>>

None == <<>>
Some(x) == <<x>>
ZeroHash == 0
Contains(s, x) == \E i \in DOMAIN s : s[i] = x

-------------------------------------------------------------------------------
(* Types of types.rs *)

Request == [kind : {"Send", "LowerProof"}, id : Nat, nparams : Nat]

MsgHash == [request : Request, expiry : Nat, instance : Instances]

Signature == [signer : Accounts, msg : MsgHash]

ActiveEthTransaction ==
    [sender : Accounts, expiry : Nat, eth_tx_hash : EthTxHashes \cup {ZeroHash},
     success_corroborations : Seq(Accounts),
     failure_corroborations : Seq(Accounts),
     valid_tx_hash_corroborations : Seq(Accounts),
     invalid_tx_hash_corroborations : Seq(Accounts),
     replay_attempt : Nat]

ActiveRequestData ==
    [request : Request, msg_hash : MsgHash, confirmations : Seq(Signature),
     tx_data : Seq(ActiveEthTransaction)]

TransactionData ==
    [sender : Accounts, eth_tx_hash : EthTxHashes \cup {ZeroHash},
     tx_succeeded : BOOLEAN]

\* What a requesting pallet is told: process_result / process_lower_proof_result
\* with the outcome, and (history) which code path told it.
Notification ==
    [request : Request, succeeded : BOOLEAN,
     why : {"settled", "proof", "setup_failed", "removed"}]

Notify(r, ok, why) == [request |-> r, succeeded |-> ok, why |-> why]
-------------------------------------------------------------------------------
(* Thresholds: util.rs and request.rs *)

has_enough_corroborations(n) == n >= required_for(Len(validators) - 1)

\* The sender's own confirmation is implicit for a Send.
has_enough_confirmations(a) ==
    IF a.request.kind = "Send"
    THEN Len(a.confirmations) + 1 >= required_for(Len(validators))
    ELSE Len(a.confirmations) >= required_for_supermajority(Len(validators))

requires_corroboration_success_only(t, author) ==
    ~Contains(t.success_corroborations, author)

requires_corroboration(t, author) ==
    /\ ~Contains(t.success_corroborations, author)
    /\ ~Contains(t.failure_corroborations, author)

is_active_request(id) == active # None /\ active[1].request.id = id
-------------------------------------------------------------------------------
(* Setting a request up *)

msg_hash(r, expiry, inst) == [request |-> r, expiry |-> expiry, instance |-> inst]

\* extend_params adds the expiry and the transaction id to the caller's
\* parameters and bounds the result; assign_sender needs a validator.
can_set_up(r) ==
    \/ r.kind = "LowerProof"
    \/ r.nparams + 2 <= ParamsLimit /\ validators # <<>>

set_up_active_tx(r, replay, inst) ==
    LET index == advance_primary(primary, Len(validators))
        deadline == setups + 1
    IN  /\ setups < MaxSetups
        /\ setups' = deadline
        /\ primary' = index
        /\ active' = Some(
             [request |-> r,
              msg_hash |-> msg_hash(r, deadline, inst),
              confirmations |-> <<>>,
              tx_data |-> Some(
                [sender |-> validators[index + 1],
                 expiry |-> deadline,
                 eth_tx_hash |-> ZeroHash,
                 success_corroborations |-> <<>>,
                 failure_corroborations |-> <<>>,
                 valid_tx_hash_corroborations |-> <<>>,
                 invalid_tx_hash_corroborations |-> <<>>,
                 replay_attempt |-> replay])])

set_up_active_lower_proof(r) ==
    /\ active' = Some([request |-> r, msg_hash |-> msg_hash(r, 0, instance),
                       confirmations |-> <<>>, tx_data |-> None])
    /\ UNCHANGED <<setups, primary>>

set_up(r) ==
    IF r.kind = "Send" THEN set_up_active_tx(r, 0, instance)
                       ELSE set_up_active_lower_proof(r)

\* process_next_request: kill the active request, then take requests from the
\* queue until one can be set up; the callers of those that cannot are told
\* that they failed.  `result` is the notification of the finished request.
process_next_request(result) ==
    \E k \in 1..(Len(queue) + 1) :
        /\ \A i \in 1..(k - 1) : ~can_set_up(queue[i])
        /\ notified' = Append(notified, result)
                        \o [i \in 1..(k - 1) |-> Notify(queue[i], FALSE, "setup_failed")]
        /\ queue' = SubSeq(queue, k + 1, Len(queue))
        /\ IF k > Len(queue)
           THEN active' = None /\ UNCHANGED <<setups, primary>>
           ELSE can_set_up(queue[k]) /\ set_up(queue[k])
-------------------------------------------------------------------------------
(* BridgeInterface: publish and generate_lower_proof *)

\* A request joins the queue when another one is active and is set up at once
\* otherwise.  When neither is possible the call fails and is rolled back.
add_new_request(r) ==
    /\ Len(accepted) < MaxRequests
    /\ accepted' = Append(accepted, r)
    /\ IF active # None
       THEN /\ Len(queue) < MaxQueuedTxRequests
            /\ queue' = Append(queue, r)
            /\ UNCHANGED <<active, setups, primary>>
       ELSE /\ can_set_up(r)
            /\ set_up(r)
            /\ UNCHANGED queue
    /\ UNCHANGED <<validators, settled, instance, offenders, notified>>

publish(nparams) ==
    /\ nparams <= ParamsLimit
    /\ nextTxId' = nextTxId + 1
    /\ add_new_request([kind |-> "Send", id |-> nextTxId, nparams |-> nparams])

generate_lower_proof(lower_id) ==
    /\ add_new_request([kind |-> "LowerProof", id |-> lower_id, nparams |-> 0])
    /\ UNCHANGED nextTxId
-------------------------------------------------------------------------------
(* Extrinsics of the authors.  The X_counts predicates are the conditions  *)
(* under which the call changes state; in every other case it returns Ok   *)
(* early or fails and is rolled back.                                      *)

\* validate_unsigned: signed by a current author for the current instance.
validate_unsigned(author) == Contains(validators, author)

confirmation_counts_repeated(id, confirmation, author) ==
    /\ is_active_request(id)
    /\ ~has_enough_confirmations(active[1])
    /\ active[1].tx_data # None => author # active[1].tx_data[1].sender
    /\ confirmation = [signer |-> author, msg |-> active[1].msg_hash]

confirmation_counts(id, confirmation, author) ==
    /\ is_active_request(id)
    /\ LET a == active[1]
       IN  /\ ~has_enough_confirmations(a)
           /\ a.tx_data # None => author # a.tx_data[1].sender
           /\ confirmation = [signer |-> author, msg |-> a.msg_hash]
           /\ ~Contains(a.confirmations, confirmation)

add_confirmation(id, confirmation, author) ==
    /\ validate_unsigned(author)
    /\ confirmation_counts(id, confirmation, author)
    /\ LET a == [active[1] EXCEPT !.confirmations = Append(@, confirmation)]
       IN  IF a.request.kind = "LowerProof" /\ has_enough_confirmations(a)
           THEN process_next_request(Notify(a.request, TRUE, "proof"))
           ELSE /\ active' = Some(a)
                /\ UNCHANGED <<queue, notified, setups, primary>>
    /\ UNCHANGED <<validators, nextTxId, settled, instance, offenders, accepted>>

with_tx_data(a, t) == Some([a EXCEPT !.tx_data = Some(t)])

eth_tx_hash_counts(id, hash, author) ==
    /\ is_active_request(id)
    /\ active[1].tx_data # None
    /\ active[1].tx_data[1].eth_tx_hash = ZeroHash
    /\ active[1].tx_data[1].sender = author

add_eth_tx_hash(id, hash, author) ==
    /\ validate_unsigned(author)
    /\ eth_tx_hash_counts(id, hash, author)
    /\ active' = with_tx_data(active[1], [active[1].tx_data[1] EXCEPT !.eth_tx_hash = hash])
    /\ UNCHANGED <<validators, primary, nextTxId, queue, settled, instance,
                   offenders, setups, accepted, notified>>
-------------------------------------------------------------------------------
(* Corroboration and settlement *)

corroboration_counts(id, author, replay_attempt) ==
    /\ is_active_request(id)
    /\ active[1].tx_data # None
    /\ LET t == active[1].tx_data[1]
       IN  /\ replay_attempt = t.replay_attempt
           /\ author # t.sender
           /\ requires_corroboration(t, author)

complete_transaction_unset(r, t, success) ==
    /\ settled' = [id \in DOMAIN settled \cup {r.id} |->
                      IF id = r.id
                      THEN [sender |-> t.sender, eth_tx_hash |-> t.eth_tx_hash,
                            tx_succeeded |-> FALSE]
                      ELSE settled[id]]
    /\ UNCHANGED offenders
    /\ process_next_request(Notify(r, success, "settled"))

\* complete_transaction, after process_result has returned Ok (if it fails the
\* whole extrinsic is rolled back): report the losing side, store the outcome,
\* go on to the next request.
complete_transaction(r, t, success) ==
    LET losers == IF success THEN t.failure_corroborations
                             ELSE t.success_corroborations
        hash == IF success /\ has_enough_corroborations(
                                Len(t.invalid_tx_hash_corroborations))
                THEN ZeroHash ELSE t.eth_tx_hash
        data == [sender |-> t.sender, eth_tx_hash |-> hash,
                 tx_succeeded |-> success]
    IN  /\ offenders' = offenders \cup {losers[i] : i \in DOMAIN losers}
        /\ settled' = [id \in DOMAIN settled \cup {r.id} |->
                          IF id = r.id THEN data ELSE settled[id]]
        /\ process_next_request(Notify(r, success, "settled"))

\* finalize_state: a failed transaction whose hash is missing or wrong is sent
\* again under a new deadline by the next sender.
finalize_state(r, t, success) ==
    IF ~success /\ has_enough_corroborations(
                     Len(t.invalid_tx_hash_corroborations))
    THEN /\ can_set_up(r)
         /\ set_up_active_tx(r, t.replay_attempt + 1, instance)
         /\ UNCHANGED <<queue, settled, offenders, notified>>
    ELSE complete_transaction(r, t, success)

add_corroboration(id, succeeded, hash_is_valid, author, replay_attempt) ==
    /\ validate_unsigned(author)
    /\ corroboration_counts(id, author, replay_attempt)
    /\ LET r == active[1].request
           before == active[1].tx_data[1]
           Push(list, cond) == IF cond THEN Append(list, author) ELSE list
           t == [before EXCEPT
                   !.success_corroborations = Push(@, succeeded),
                   !.failure_corroborations = Push(@, ~succeeded),
                   !.valid_tx_hash_corroborations = Push(@, hash_is_valid),
                   !.invalid_tx_hash_corroborations = Push(@, ~hash_is_valid)]
           matching == IF succeeded THEN t.success_corroborations
                                    ELSE t.failure_corroborations
       IN  IF has_enough_corroborations(Len(matching))
           THEN finalize_state(r, t, succeeded)
           ELSE /\ active' = with_tx_data(active[1], t)
                /\ UNCHANGED <<queue, settled, offenders, setups, primary, notified>>
    /\ UNCHANGED <<validators, nextTxId, instance, accepted>>
-------------------------------------------------------------------------------
(* set_admin_setting *)

RemoveActiveRequest_silent ==
    /\ active # None
    /\ queue = <<>>
    /\ active' = None
    /\ UNCHANGED <<validators, primary, nextTxId, queue, settled, instance,
                   offenders, setups, accepted, notified>>

RemoveActiveRequest ==
    /\ active # None
    /\ process_next_request(Notify(active[1].request, FALSE, "removed"))
    /\ UNCHANGED <<validators, nextTxId, settled, instance, offenders, accepted>>

SetEthereumTransactionId(id) ==
    /\ nextTxId' = id
    /\ UNCHANGED <<validators, primary, queue, active, settled, instance,
                   offenders, setups, accepted, notified>>

\* A new instance restarts an active Send from scratch; an active LowerProof
\* keeps the message it was set up with.
SetEthBridgeInstance(i) ==
    /\ instance' = i
    /\ IF active # None /\ active[1].request.kind = "Send"
       THEN /\ can_set_up(active[1].request)
            /\ set_up_active_tx(active[1].request, 0, i)
       ELSE UNCHANGED <<active, setups, primary>>
    /\ UNCHANGED <<validators, nextTxId, queue, settled, offenders, accepted, notified>>

\* A session change, or an author leaving the active list between sessions.
NewSession(vs) ==
    /\ validators' = vs
    /\ UNCHANGED <<primary, nextTxId, queue, active, settled, instance,
                   offenders, setups, accepted, notified>>
-------------------------------------------------------------------------------
Init ==
    /\ validators \in ValidatorSets
    /\ primary = 0
    /\ nextTxId = 0
    /\ queue = <<>>
    /\ active = None
    /\ settled = [id \in {} |-> {}]
    /\ instance \in Instances
    /\ offenders = {}
    /\ setups = 0
    /\ accepted = <<>>
    /\ notified = <<>>

\* What an author can say about the active request: a signature over its message
\* (others do not verify), any hash, any corroboration of any attempt.  Calls
\* that name another request return at once.
AuthorCall(author) ==
    \E id \in {active[i].request.id : i \in DOMAIN active} :
        \/ \E i \in DOMAIN active :
               add_confirmation(id, [signer |-> author, msg |-> active[i].msg_hash], author)
        \/ \E hash \in EthTxHashes : add_eth_tx_hash(id, hash, author)
        \/ \E succeeded, hash_is_valid \in BOOLEAN, replay_attempt \in 0..MaxSetups :
               add_corroboration(id, succeeded, hash_is_valid, author, replay_attempt)

\* Operators only move NextTxId forward; that is their duty, no code checks it.
Next ==
    \/ \E n \in ParamCounts : publish(n)
    \/ \E id \in LowerIds : generate_lower_proof(id)
    \/ \E author \in Accounts : AuthorCall(author)
    \/ RemoveActiveRequest
    \/ \E id \in AdminTxIds : id >= nextTxId /\ SetEthereumTransactionId(id)
    \/ \E i \in Instances : SetEthBridgeInstance(i)
    \/ \E vs \in ValidatorSets : NewSession(vs)

Spec == Init /\ [][Next]_vars
-------------------------------------------------------------------------------
(* Properties *)

\* Every variable keeps the type its storage item is declared with.
TypeOK ==
    /\ validators \in Seq(Accounts)
    /\ primary \in Nat
    /\ nextTxId \in Nat
    /\ queue \in Seq(Request)
    /\ active \in Seq(ActiveRequestData)
    /\ Len(active) <= 1
    /\ \A i \in DOMAIN active :
          Len(active[i].tx_data) = IF active[i].request.kind = "Send" THEN 1 ELSE 0
    /\ DOMAIN settled \subseteq Nat
    /\ \A id \in DOMAIN settled : settled[id] \in TransactionData
    /\ instance \in Instances
    /\ offenders \subseteq Accounts
    /\ setups \in Nat
    /\ accepted \in Seq(Request)
    /\ notified \in Seq(Notification)

\* Requests are answered exactly once and in the order they arrived: what has
\* been accepted is what callers were told about, then the active request,
\* then the queue, and the queue never waits behind nothing (lib.rs: "requests
\* to be processed to completion in the order they arrive").
ExactlyOnceInOrder ==
    /\ Len(accepted) = Len(notified) + Len(active) + Len(queue)
    /\ \A i \in 1..Len(notified) : notified[i].request = accepted[i]
    /\ \A i \in 1..Len(active) :
          active[i].request = accepted[Len(notified) + i]
    /\ \A i \in 1..Len(queue) :
          queue[i] = accepted[Len(notified) + Len(active) + i]
    /\ active = None => queue = <<>>

NoDuplicates(s) == \A i, j \in DOMAIN s : s[i] = s[j] => i = j
SameMembers(s, t) ==
    /\ \A i \in DOMAIN s : Contains(t, s[i])
    /\ \A i \in DOMAIN t : Contains(s, t[i])

\* However calls are repeated, delayed or mixed between attempts, an author
\* weighs once in the outcome of an attempt and once in the judgement of its
\* hash, judges both or neither, and the sender judges neither
\* (add_corroboration, requires_corroboration).
CorroboratorsCountOnce ==
    \A i \in DOMAIN active : \A j \in DOMAIN active[i].tx_data :
        LET t == active[i].tx_data[j]
            outcome == t.success_corroborations \o t.failure_corroborations
            hash == t.valid_tx_hash_corroborations \o t.invalid_tx_hash_corroborations
        IN  /\ NoDuplicates(outcome)
            /\ NoDuplicates(hash)
            /\ SameMembers(outcome, hash)
            /\ ~Contains(outcome, t.sender)

\* The confirmations that will be shown to the contract are by different
\* authors, none by the sender, all over the message of the current set-up
\* (add_confirmation; replay and instance changes start a new set-up).
ConfirmationsCountOnce ==
    \A i \in DOMAIN active :
        LET a == active[i]
        IN  /\ \A j, k \in DOMAIN a.confirmations :
                  a.confirmations[j].signer = a.confirmations[k].signer => j = k
            /\ \A j \in DOMAIN a.confirmations :
                  /\ a.confirmations[j].msg = a.msg_hash
                  /\ \A k \in DOMAIN a.tx_data :
                        a.confirmations[j].signer # a.tx_data[k].sender

\* A request that was accepted can be set up when its turn comes (lib.rs, at
\* ParamsLimit: "Max T1 function params (excluding expiry, t2TxId, and
\* confirmations)"; extend_params bounds them with the expiry and id included).
AcceptedCanBeSetUp ==
    \A i \in DOMAIN notified : notified[i].why # "setup_failed"

\* An outcome is stored as the caller is told it in the same step, and is never
\* rewritten: not by a replay, a late corroboration, or an id that an operator
\* makes appear again (complete_transaction, SetEthereumTransactionId).
SettledForGood ==
    [][/\ \A id \in DOMAIN settled :
             id \in DOMAIN settled' /\ settled'[id] = settled[id]
       /\ \A id \in DOMAIN settled' \ DOMAIN settled :
             \E i \in DOMAIN notified' \ DOMAIN notified :
                /\ notified'[i].request.kind = "Send"
                /\ notified'[i].request.id = id
                /\ notified'[i].why = "settled"
                /\ notified'[i].succeeded = settled'[id].tx_succeeded]_vars

Promise == INSTANCE BridgePromise WITH requests <- accepted, answers <- notified

\* The pallet implements the promise it makes to its callers: no answer is taken
\* back, repeated, given for a request that was never accepted, or given before
\* the answers to earlier requests.
KeepsPromise == Promise!Spec
=============================================================================
