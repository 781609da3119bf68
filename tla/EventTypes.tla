----------------------------- MODULE EventTypes -----------------------------
(***************************************************************************)
(* The decoding of Ethereum logs into event data (avn-common), through the *)
(* two tables that choose a decoder: the node's registry and the           *)
(* ethereum-events pallet.  A word is a number below Word; the other       *)
(* moduli stand for the integers and addresses a word is cut down to.  A   *)
(* decoder gives the set of its results, empty when it refuses the log.    *)
(***************************************************************************)
EXTENDS Integers, Sequences, FiniteSets, TLC

CONSTANTS
  Word, H160, U128, U64, U32,   \* moduli, each dividing the one before
  Values,                       \* the arguments an event may have
  RefLengths                    \* the lengths of an NFT's reference, in bytes

VARIABLE ev

WORD_LENGTH == 32
ref_size == 36

\* What the T1 contracts emit: the types of the indexed arguments and of the others.
Abi ==
  [AddedValidator |-> <<<<"b32", "b32", "b32">>, <<"u256">>>>,
   Lifted |-> <<<<"address", "b32">>, <<"u256">>>>,
   LiftedToPredictionMarket |-> <<<<"address", "b32">>, <<"u256">>>>,
   Erc20DirectTransfer |-> <<<<"address", "address">>, <<"u256">>>>,
   NftMint |-> <<<<"u256", "u64", "b32">>, <<"string">>>>,
   NftTransferTo |-> <<<<"u256", "b32", "u64">>, <<>>>>,
   NftCancelListing |-> <<<<"u256", "u64">>, <<>>>>,
   NftEndBatchListing |-> <<<<"u256">>, <<>>>>,
   AvtGrowthLifted |-> <<<<"u256", "u32">>, <<>>>>,
   AvtLowerClaimed |-> <<<<"u32">>, <<>>>>,
   LowerReverted |-> <<<<"address", "b32", "address">>, <<"u256", "u32">>>>,
   AvtRewardsMinted |-> <<<<"u256", "u256", "u32">>, <<>>>>]
ValidEvents == DOMAIN Abi
Types(kind) == Abi[kind][1] \o Abi[kind][2]
Width == [address |-> H160, b32 |-> Word, u256 |-> Word, u64 |-> U64, u32 |-> U32, string |-> Word]
Arguments(kind) ==
  {args \in [DOMAIN Types(kind) -> Values] :
     \A i \in DOMAIN args : args[i] < Width[Types(kind)[i]]}

\* A string is its offset, its length and the words it fills, of which the third and
\* the start of the fourth are one value here.
Log(kind, args, length) ==
  LET n == Len(Abi[kind][1])
      rest == SubSeq(args, n + 1, Len(args))
  IN [signature |-> kind, address |-> 1,
      topics |-> [i \in 1..n |-> [len |-> WORD_LENGTH, value |-> args[i]]],
      data |-> IF kind # "NftMint" THEN rest
               ELSE IF length <= WORD_LENGTH THEN <<WORD_LENGTH, length>> \o rest
               ELSE <<WORD_LENGTH, length>> \o rest \o <<0>>]

-----------------------------------------------------------------------------
Ensure(condition, result) == IF condition THEN {result} ELSE {}
Whole(log, count) ==
  Len(log.topics) = count /\ \A i \in DOMAIN log.topics : log.topics[i].len = WORD_LENGTH
T(log, i) == log.topics[i].value
Fits(amount) == amount < U128
Panics == [panics |-> TRUE]

AddedValidatorData(log) ==
  Ensure(Len(log.data) = 1 /\ Whole(log, 3),
    [eth_public_key_lhs |-> T(log, 1), eth_public_key_rhs |-> T(log, 2),
     t2_address |-> T(log, 3), validator_account_id |-> log.data[1]])
LiftedData_cut(log) ==
  Ensure(Len(log.data) = 1 /\ Whole(log, 2),
    [token_contract |-> T(log, 1) % H160, receiver_address |-> T(log, 2),
     amount |-> log.data[1] % U128])
LiftedData(log) ==
  Ensure(Len(log.data) = 1 /\ Whole(log, 2) /\ Fits(log.data[1]),
    [token_contract |-> T(log, 1) % H160, receiver_address |-> T(log, 2),
     amount |-> log.data[1] % U128])
from_erc_20_contract_transfer_bytes(log) ==
  Ensure(Len(log.data) = 1 /\ Whole(log, 2) /\ Fits(log.data[1]),
    [token_contract |-> 0, sender_address |-> T(log, 1) % H160,
     receiver_address |-> T(log, 2) % H160, amount |-> log.data[1] % U128])
\* The words that hold the string's offset and length are not looked at: a reference is
\* the first 36 bytes of its text.
NftMintData(log) ==
  Ensure(Len(log.data) = 4 /\ Whole(log, 3),
    [batch_id |-> T(log, 1), sale_index |-> T(log, 2) % U64, t2_owner_public_key |-> T(log, 3),
     unique_external_ref |-> <<log.data[3], ref_size>>])
NftTransferToData(log) ==
  Ensure(log.data = <<>> /\ Whole(log, 3),
    [nft_id |-> T(log, 1), t2_transfer_to_public_key |-> T(log, 2), op_id |-> T(log, 3) % U64])
\* The second topic is cut without a look at its length.
NftCancelListingData(log) ==
  IF log.data = <<>> /\ Len(log.topics) = 2 /\ log.topics[1].len = WORD_LENGTH
  THEN IF log.topics[2].len < WORD_LENGTH THEN {Panics}
       ELSE Ensure(T(log, 2) < U64, [nft_id |-> T(log, 1), op_id |-> T(log, 2) % U64])
  ELSE {}
NftEndBatchListingData(log) ==
  Ensure(log.data = <<>> /\ Whole(log, 1), [batch_id |-> T(log, 1)])
AvtGrowthLiftedData(log) ==
  Ensure(log.data = <<>> /\ Whole(log, 2) /\ Fits(T(log, 1)),
    [amount |-> T(log, 1) % U128, period |-> T(log, 2) % U32])
AvtLowerClaimedData(log) ==
  Ensure(log.data = <<>> /\ Whole(log, 1), [lower_id |-> T(log, 1) % U32])
LowerRevertedData(log) ==
  Ensure(Len(log.data) = 2 /\ Whole(log, 3) /\ Fits(log.data[1]),
    [token_contract |-> T(log, 1) % H160, receiver_address |-> T(log, 2),
     t1_recipient |-> T(log, 3) % H160, amount |-> log.data[1] % U128,
     lower_id |-> log.data[2] % U32])
TotalSupplyUpdatedData(log) ==
  Ensure(log.data = <<>> /\ Whole(log, 3) /\ Fits(T(log, 1)) /\ Fits(T(log, 2)),
    [amount |-> T(log, 1) % U128, new_supply |-> T(log, 2) % U128, t2_tx_id |-> T(log, 3) % U32])

EventRegistry(log) ==
  CASE log.signature = "AddedValidator" -> AddedValidatorData(log)
    [] log.signature \in {"Lifted", "LiftedToPredictionMarket"} -> LiftedData(log)
    [] log.signature = "AvtGrowthLifted" -> AvtGrowthLiftedData(log)
    [] log.signature = "NftCancelListing" -> NftCancelListingData(log)
    [] log.signature = "NftEndBatchListing" -> NftEndBatchListingData(log)
    [] log.signature = "NftMint" -> NftMintData(log)
    [] log.signature = "NftTransferTo" -> NftTransferToData(log)
    [] log.signature = "AvtLowerClaimed" -> AvtLowerClaimedData(log)
    [] log.signature = "LowerReverted" -> LowerRevertedData(log)
    [] log.signature = "Erc20DirectTransfer" -> from_erc_20_contract_transfer_bytes(log)
    [] log.signature = "AvtRewardsMinted" -> TotalSupplyUpdatedData(log)
\* A transfer to the bridge names its token only by the contract that logged it.
parse_log(log) ==
  IF log.signature = "Erc20DirectTransfer"
  THEN {[d EXCEPT !.token_contract = IF @ = 0 THEN log.address ELSE @] : d \in EventRegistry(log)}
  ELSE EventRegistry(log)

\* The pallet's table has every event but the transfers.
parse_tier1_event(log) ==
  IF log.signature = "Erc20DirectTransfer" THEN {} ELSE EventRegistry(log)
is_valid(kind, d) ==
  CASE kind = "AddedValidator" ->
         /\ d.eth_public_key_lhs # 0 \/ d.eth_public_key_rhs # 0
         /\ d.t2_address # 0 /\ d.validator_account_id # 0
    [] kind \in {"Lifted", "LiftedToPredictionMarket", "Erc20DirectTransfer"} ->
         d.token_contract # 0 /\ d.receiver_address # 0
    [] kind = "NftMint" -> d.batch_id # 0 /\ d.t2_owner_public_key # 0
    [] kind = "NftTransferTo" -> d.t2_transfer_to_public_key # 0
    [] kind = "LowerReverted" -> d.token_contract # 0 /\ d.receiver_address # 0 /\ d.amount > 0
    [] kind \in {"AvtGrowthLifted", "AvtRewardsMinted"} -> d.amount > 0
    [] kind = "AvtLowerClaimed" -> FALSE
    [] OTHER -> TRUE

-----------------------------------------------------------------------------
EventTypesInit == ev = [stage |-> "none"]
Emit(kind, args, length) ==
  /\ ev' = [stage |-> "logged", kind |-> kind, args |-> args, length |-> length,
            log |-> Log(kind, args, length)]
\* The pallet's answer from an Ethereum node may hold a topic of another length.
Shorten(i) ==
  /\ ev.stage = "logged" /\ i \in DOMAIN ev.log.topics
  /\ ev' = [ev EXCEPT !.stage = "altered", !.log.topics[i].len = WORD_LENGTH - 1]
Decode ==
  /\ ev.stage \in {"logged", "altered"}
  /\ ev' = [from |-> ev.stage, stage |-> "decoded", kind |-> ev.kind, args |-> ev.args,
            length |-> ev.length, node |-> parse_log(ev.log),
            pallet |-> {d \in parse_tier1_event(ev.log) : d = Panics \/ is_valid(ev.kind, d)}]
EventTypesNext ==
  \/ /\ ev.stage = "none"
     /\ \E kind \in ValidEvents :
          \E length \in IF kind = "NftMint" THEN RefLengths ELSE {ref_size},
             args \in Arguments(kind) : Emit(kind, args, length)
  \/ \E i \in 1..3 : Shorten(i)
  \/ Decode
EventTypesSpec == EventTypesInit /\ [][EventTypesNext]_ev

-----------------------------------------------------------------------------
\* The fields that hold an event's arguments, in their order.
Fields ==
  [AddedValidator |-> <<"eth_public_key_lhs", "eth_public_key_rhs", "t2_address",
                        "validator_account_id">>,
   Lifted |-> <<"token_contract", "receiver_address", "amount">>,
   LiftedToPredictionMarket |-> <<"token_contract", "receiver_address", "amount">>,
   Erc20DirectTransfer |-> <<"sender_address", "receiver_address", "amount">>,
   NftMint |-> <<"batch_id", "sale_index", "t2_owner_public_key", "unique_external_ref">>,
   NftTransferTo |-> <<"nft_id", "t2_transfer_to_public_key", "op_id">>,
   NftCancelListing |-> <<"nft_id", "op_id">>,
   NftEndBatchListing |-> <<"batch_id">>,
   AvtGrowthLifted |-> <<"amount", "period">>,
   AvtLowerClaimed |-> <<"lower_id">>,
   LowerReverted |-> <<"token_contract", "receiver_address", "t1_recipient", "amount", "lower_id">>,
   AvtRewardsMinted |-> <<"amount", "new_supply", "t2_tx_id">>]
AmountFields == {"amount", "new_supply"}

\* What a contract emitted is decoded to exactly its arguments, or refused because an
\* amount needs more than 128 bits; nothing is cut off, as long as an NFT's reference has
\* the 36 bytes of a UUID.  The two tables never decode one log to two events, and a log
\* whose topics changed length on the way is refused, but for the one decoder that does not
\* look (EventRegistry::new, parse_tier1_event, the parse_bytes functions).
DecodesWhatWasEmitted ==
  ev.stage = "decoded" =>
    LET names == Fields[ev.kind]
        emitted(i) == IF names[i] = "unique_external_ref" THEN <<ev.args[i], ev.length>>
                      ELSE ev.args[i]
        tooLarge == \E i \in DOMAIN names : names[i] \in AmountFields /\ ev.args[i] >= U128
    IN /\ ev.from = "logged" /\ ev.length = ref_size =>
            /\ (ev.node = {}) <=> tooLarge
            /\ \A d \in ev.node : \A i \in DOMAIN names : d[names[i]] = emitted(i)
       /\ ev.pallet \subseteq ev.node
       /\ ev.from = "altered" /\ ev.kind # "NftCancelListing" => ev.node = {}
=============================================================================
