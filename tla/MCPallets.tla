------------------------------ MODULE MCPallets ------------------------------
(* The pallets that share no state, one at a time: the focus is chosen in the *)
(* initial state and the variable s is the storage of the pallet in focus.    *)
(* Calls that only a user or an operator makes are limited in number; steps   *)
(* that the system owes (an answer of the bridge, a vote, a due lower) are    *)
(* not.                                                                       *)
EXTENDS Integers, Sequences, TLC

CONSTANTS v1, v2, v3, v4, e1, e2, c1, c2, u1, u2, r1, r2, t1, t2, t3, k1, k2, k3, k4,
  EventIds, Watched, Users, QuorumFactor, MinEthBlockConfirmation,
  MINIMUM_EVENT_CHALLENGE_PERIOD, ChallengePeriods, Contracts, GenesisContracts,
  MaxUncheckedEvents, MaxEventsPendingChallenges, MaxChallenges, FinalityLag,
  MaxEventBlock, MaxIngress, MaxSessions, Honest,
  NftUsers, Relayers, Refs, RoyaltyRateDenominator, MaxRoyalties, Supplies, BatchBound,
  Indexes, MaxNfts, MaxNonce,
  Holders, Treasury, Tokens, NativeTokens, GenesisKnown, Amounts, GrowthAmounts,
  TreasuryGrowthPercentage, ExistentialDeposit, SchedulePeriods, MaxLowers, MaxEvents,
  Accounts, GenesisValidators, EthKeys, MinimumValidatorCount, MaximumValidatorsBound,
  Deposits, min_collator_stake, LeaveDelay, MaxActions,
  Senders, FixedFees, Percentages, Durations, Counts, Fees, Tips, GenesisFree, MaxBlocks,
  MaxTransactions,
  ProxyUsers, ProxyRelayers, GenesisBalance,
  Identities, Voters, MaxLinkedAccounts, Signers, MaxTransfers,
  GenesisVersions, LowerVersions, MaxRequests,
  Word, H160, U128, U64, U32, Values, RefLengths,
  Leaves, MaxLeaves

VARIABLES s, focus, calls

MCAuthorities == <<<<v2, v1, v3, v4>>, <<v2, v3, v4>>>>
Log(id, address, data) ==
  [topic |-> id, address |-> address, formed |-> TRUE, parses |-> TRUE, data |-> data]
Receipt(logs) == [readable |-> TRUE, status |-> 1, mined |-> 0, logs |-> logs]
\* v1 is not told of the first event, and is told another content of the second,
\* which comes from a contract that is not known at the start.
MCSees ==
  [v \in {v1, v2, v3, v4} |->
     e1 :> Receipt(IF v = v1 THEN <<>> ELSE <<Log(e1, c1, "minted")>>)
     @@ e2 :> Receipt(IF v = v1 THEN <<Log(e2, c1, "forged")>> ELSE <<Log(e2, c2, "minted")>>)]

Events == INSTANCE EthereumEvents WITH ee <- s, Authorities <- MCAuthorities, Sees <- MCSees

MCRoyalties == {<<600000, 400001>>, <<500000>>}
Nfts == INSTANCE NftManager WITH nft <- s, Royalties <- MCRoyalties

Lifting == INSTANCE TokenManager WITH tm <- s

MCGenesisKey == v1 :> k1 @@ v2 :> k2 @@ v3 :> k3
Validators == INSTANCE ValidatorsManager WITH vm <- s, GenesisKey <- MCGenesisKey

Authors == INSTANCE AuthorsManager WITH am <- s, GenesisKey <- MCGenesisKey,
  GenesisAuthors <- GenesisValidators, MinimumAuthorsCount <- MinimumValidatorCount,
  MaximumAuthorsBound <- MaximumValidatorsBound

Payments == INSTANCE AvnTransactionPayment WITH fp <- s

\* Two calls of each user with the same nonce, one with the next, and one not relayed.
MCSignedCalls ==
  {[kind |-> k[1], nonce |-> k[2], signer |-> u, relayer |-> r1, to |-> w] :
     k \in {<<"signed_transfer", 0>>, <<"signed_other", 0>>, <<"signed_other", 1>>,
            <<"unsupported", 0>>}, <<u, w>> \in {p \in ProxyUsers \X ProxyUsers : p[1] # p[2]}}
MCSignedPayments ==
  [for : MCSignedCalls, payer : ProxyUsers, recipient : {r2},
   amount : {1}, nonce : 0..2]
Proxied == INSTANCE AvnProxy WITH px <- s, SignedPayments <- MCSignedPayments,
  SignedCalls <- MCSignedCalls

Voting == INSTANCE CrossChainVoting WITH cv <- s

Upgrades == INSTANCE StorageMigrations WITH mg <- s, OwnerKey <- MCGenesisKey

Decoding == INSTANCE EventTypes WITH ev <- s

Merkle == INSTANCE MerkleTree WITH tree <- s

\* No definition tells the two accounts apart.
Symmetry == Permutations({u1, u2})

MaxCalls == [events |-> 1, nfts |-> 6, tokens |-> 4, validators |-> 4, authors |-> 5,
             fees |-> 5, proxy |-> 5]
Limited(step) == calls < MaxCalls[focus] /\ step /\ calls' = calls + 1
Unlimited(step) == step /\ UNCHANGED calls

MCInit ==
  /\ calls = 0
  /\ \/ focus = "events" /\ Events!EventsInit
     \/ focus = "nfts" /\ Nfts!NftInit
     \/ focus = "tokens" /\ Lifting!TokenInit
     \/ focus = "validators" /\ Validators!ValidatorsInit
     \/ focus = "authors" /\ Authors!AuthorsInit
     \/ focus = "fees" /\ Payments!PaymentInit
     \/ focus = "proxy" /\ Proxied!ProxyInit
     \/ focus = "voting" /\ Voting!VotingInit
     \/ focus = "upgrades" /\ Upgrades!MigrationsInit
     \/ focus = "decoding" /\ Decoding!EventTypesInit
     \/ focus = "merkle" /\ Merkle!MerkleInit
\* The contracts change only while no event is in the line, and the promises of fees
\* only in the first and the third transaction.
MCNext ==
  /\ UNCHANGED focus
  /\ CASE focus = "events" ->
           \/ Unlimited(Events!EventsLife)
           \/ Limited(Events!EventsAround
                      /\ (s.contracts # s'.contracts => s.unchecked \o s.pending = <<>>))
       [] focus = "nfts" -> Limited(Nfts!NftNext)
       [] focus = "tokens" ->
           \/ Unlimited(Lifting!LowerLife)
           \/ Limited(/\ Lifting!TokenCalls \/ Lifting!TokenSettings \/ Lifting!T1Lift
                         \/ Lifting!T1Growth
                      /\ s'.escrow[t3] = 0 /\ \A id \in DOMAIN s'.sched : s'.sched[id].token # t3)
       [] focus = "validators" ->
           Unlimited(Validators!ValidatorLife) \/ Limited(Validators!ValidatorCalls)
       [] focus = "authors" -> Unlimited(Authors!AuthorLife) \/ Limited(Authors!AuthorCalls)
       [] focus = "fees" ->
           Limited(Payments!PaymentNext /\ (s.known # s'.known => calls \in {0, 2}))
       [] focus = "proxy" -> Limited(Proxied!ProxyNext)
       [] focus = "voting" -> Unlimited(Voting!VotingNext)
       [] focus = "upgrades" -> Unlimited(Upgrades!MigrationsNext)
       [] focus = "decoding" -> Unlimited(Decoding!EventTypesNext)
       [] focus = "merkle" -> Unlimited(Merkle!MerkleNext)
MCSpec == MCInit /\ [][MCNext]_<<s, focus, calls>>

-----------------------------------------------------------------------------
\* What is signed, reported or owned once has its effect once: an Ethereum event is applied
\* at most once by the pallets that share its record (ethereum-events: add_event,
\* process_event), a signed proof or an Ethereum operation acts on an NFT once (nft-manager:
\* the nonces and op ids), an authorised payment is charged once and only for the call it
\* was signed for (avn-proxy: charge_fee), and an account's balance counts for one identity
\* (cross-chain-voting: link_account, unlink_account).
EffectiveOnce ==
  /\ focus = "events" => Events!AppliedOnce
  /\ focus = "nfts" => Nfts!NftsActedOnOnce
  /\ focus = "proxy" => Proxied!ChargedOnce
  /\ focus = "voting" => Voting!VotesCountOnce

\* No event is applied against the evidence of more than the tolerated number of validators
\* (ethereum-events: is_challenge_successful, process_event).
JustlyDecided == focus = "events" => Events!JustlyDecided

\* Every token on this side is backed by one that the T1 contract holds (token-manager: lift,
\* schedule_lower, execute_lower, lower proofs, reverted and claimed lowers).
Backed == focus = "tokens" => Lifting!Backed

\* The lists of validators, candidates, keys and actions agree with each other and with what
\* was asked of T1, through every order of answers, sessions, calls and failures, and an
\* account has one change under way (validators-manager, authors-manager).
RostersAgree ==
  /\ focus = "validators" => Validators!RostersAgree
  /\ focus = "authors" => Authors!AuthorChangesAreSerial

\* A sender pays the adjusted fee exactly as long as it was promised one
\* (avn-transaction-payment: withdraw_fee, correct_and_deposit_fee, FeeAdjustmentConfig).
AdjustedAsPromised == focus = "fees" => Payments!AdjustedAsPromised

\* A runtime upgrade keeps what was stored under an older layout and runs again harmlessly
\* (the on_runtime_upgrade functions of the pallets).
SurvivesUpgrades == focus = "upgrades" => Upgrades!SurvivesUpgrades

\* Nothing is lost in a conversion: a log is decoded to what was emitted, or refused
\* (event_types.rs), and the path of an extrinsic proves that it is in the tree whose root
\* was agreed on (merkle_tree_utils.rs).
ConversionsAreExact ==
  /\ focus = "decoding" => Decoding!DecodesWhatWasEmitted
  /\ focus = "merkle" => Merkle!PathsProveMembership

\* A successful challenge of an event that was found invalid lets the event be processed
\* again (ethereum-events: process_event).
ProcessedAgain == focus = "events" => Events!ProcessedAgain

\* The reverse map leads from an author to its key (authors-manager:
\* AccountIdToEthereumKeys).
ReverseMapping == focus = "authors" => Authors!ReverseMapping
=============================================================================
