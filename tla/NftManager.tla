----------------------------- MODULE NftManager -----------------------------
(***************************************************************************)
(* The nft-manager pallet: single NFTs and batches, their sales for fiat   *)
(* money through signed calls and on Ethereum through imported events.     *)
(* A proof is a signature over an encoded payload; whoever holds it may    *)
(* send it again at any time.                                              *)
(***************************************************************************)
EXTENDS Integers, SequencesExt, TLC

CONSTANTS
  NftUsers, Relayers,
  Refs,            \* external references
  Royalties,       \* lists of rates, in parts of RoyaltyRateDenominator
  RoyaltyRateDenominator, MaxRoyalties,
  Supplies, BatchBound,
  Indexes,         \* sale indexes
  MaxNfts, MaxNonce   \* bounds

VARIABLE nft

Fiat == "Fiat"
Ethereum == "Ethereum"
Markets == {Fiat, Ethereum, "Unknown"}

\* done and replayed are no storage: the authorisations that took effect, and
\* whether one of them did so again.
NftInit ==
  nft = [nfts |-> <<>>, infos |-> <<>>, batches |-> <<>>, batchInfo |-> <<>>, used |-> {},
         nextInfo |-> 0, nextUnique |-> 0, sale |-> <<>>, batchSale |-> <<>>,
         nonces |-> [a \in NftUsers |-> 0], done |-> {}, replayed |-> FALSE]

Nft_new(info, ref, owner) == [info |-> info, ref |-> ref, nonce |-> 0, owner |-> owner]
NftInfo_new(royalties) == [total |-> 1, creator |-> "none", royalties |-> royalties]
NftInfo_new_batch(total, creator, royalties) ==
  [total |-> total, creator |-> creator, royalties |-> royalties]

\* Ids are hashes under different contexts: no two of them meet.
generate_nft_id_single_mint(unique) == <<"A", unique>>
generate_batch_id(unique) == <<"batch", unique>>
generate_batch_nft_id(batch, index) == <<"B", batch, index>>

Exists(id) == id \in DOMAIN nft.nfts
MarketOf(sales, id) == IF id \in DOMAIN sales THEN sales[id] ELSE "Unknown"
Without(f, x) == [y \in DOMAIN f \ {x} |-> f[y]]
MintedOf(batch) == IF batch \in DOMAIN nft.batches THEN nft.batches[batch] ELSE <<>>

\* The call takes effect, once more or for the first time.
Effect(after, authorisation) ==
  nft' = [after EXCEPT !.done = @ \cup {authorisation},
                       !.replayed = @ \/ authorisation \in nft.done]

-----------------------------------------------------------------------------
\* What is signed for each call: with the NFT's nonce, the signer's, or none.

encode_mint_single_nft_params(proof, ref, royalties) ==
  <<"mint", proof.relayer, ref, royalties>>
encode_list_nft_for_sale_params_without_nonce(proof, id, market) ==
  <<"list", proof.relayer, id, market>>
encode_list_nft_for_sale_params(proof, id, market) ==
  <<"list", proof.relayer, id, market, nft.nfts[id].nonce>>
encode_transfer_fiat_nft_params(proof, id, to) ==
  <<"transfer", proof.relayer, id, to, nft.nfts[id].nonce>>
encode_cancel_list_fiat_nft_params(proof, id) ==
  <<"cancel", proof.relayer, id, nft.nfts[id].nonce>>
encode_create_batch_params(proof, royalties, total) ==
  <<"create", proof.relayer, total, royalties, nft.nonces[proof.signer]>>
encode_mint_batch_nft_params(proof, batch, index, ref, owner) ==
  <<"mintBatch", proof.relayer, batch, index, ref, owner>>
encode_list_batch_for_sale_params(proof, batch, market) ==
  <<"listBatch", proof.relayer, batch, market, nft.nonces[proof.signer]>>
encode_end_batch_sale_params(proof, batch) ==
  <<"endBatch", proof.relayer, batch, nft.nonces[proof.signer]>>

\* The call encodes the payload afresh and verifies the signature over it: it
\* takes effect if the signer signed just that, now or at any earlier time.
Authorised(proof, payload, after) == Effect(after, <<proof.signer, payload>>)

-----------------------------------------------------------------------------
\* Single NFTs.

validate_external_ref(ref) == ref \notin nft.used
validate_royalties(royalties) ==
  /\ \A i \in DOMAIN royalties : royalties[i] <= RoyaltyRateDenominator
  /\ FoldSeq(+, 0, royalties) <= RoyaltyRateDenominator
  /\ Len(royalties) <= MaxRoyalties

add_nft(st, id, entry) ==
  [st EXCEPT !.nfts = @ @@ (id :> entry), !.used = @ \cup {entry.ref}]

insert_single_nft_into_chain(ref, royalties, owner) ==
  LET id == generate_nft_id_single_mint(nft.nextUnique)
  IN add_nft([nft EXCEPT !.nextUnique = @ + 1, !.nextInfo = @ + 1,
                         !.infos = @ @@ (nft.nextInfo :> NftInfo_new(royalties))],
             id, Nft_new(nft.nextInfo, ref, owner))

validate_mint_single_nft_request(ref, royalties) ==
  /\ nft.nextUnique < MaxNfts
  /\ validate_external_ref(ref) /\ validate_royalties(royalties)

mint_single_nft(sender, ref, royalties) ==
  /\ validate_mint_single_nft_request(ref, royalties)
  /\ Effect(insert_single_nft_into_chain(ref, royalties, sender),
            <<sender, "mint", nft.nextUnique>>)
signed_mint_single_nft(proof, ref, royalties) ==
  /\ validate_mint_single_nft_request(ref, royalties)
  /\ Authorised(proof, encode_mint_single_nft_params(proof, ref, royalties),
                insert_single_nft_into_chain(ref, royalties, proof.signer))

Bump(st, id) == [st EXCEPT !.nfts[id].nonce = @ + 1]
open_nft_for_sale(id, market) == Bump([nft EXCEPT !.sale = @ @@ (id :> market)], id)
validate_open_for_sale_request(sender, id, market) ==
  /\ market # "Unknown" /\ Exists(id) /\ id \notin DOMAIN nft.sale
  /\ nft.nfts[id].owner = sender /\ nft.nfts[id].nonce < MaxNonce

list_nft_open_for_sale(sender, id, market) ==
  /\ validate_open_for_sale_request(sender, id, market)
  /\ Effect(open_nft_for_sale(id, market), <<sender, "list", id, nft.nfts[id].nonce>>)
signed_list_nft_open_for_sale(proof, id, market) ==
  /\ validate_open_for_sale_request(proof.signer, id, market)
  /\ Authorised(proof, encode_list_nft_for_sale_params(proof, id, market),
                open_nft_for_sale(id, market))

remove_listing_from_open_for_sale(st, id) == [st EXCEPT !.sale = Without(@, id)]
update_owner_for_transfer(st, id, to) == Bump([st EXCEPT !.nfts[id].owner = to], id)
transfer_nft(id, to) == update_owner_for_transfer(remove_listing_from_open_for_sale(nft, id), id, to)
unlist_nft_for_sale(id) == Bump(remove_listing_from_open_for_sale(nft, id), id)

validate_nft_open_for_fiat_sale(sender, id) ==
  MarketOf(nft.sale, id) = Fiat /\ nft.nfts[id].owner = sender

signed_transfer_fiat_nft(proof, id, to) ==
  /\ validate_nft_open_for_fiat_sale(proof.signer, id)
  /\ Authorised(proof, encode_transfer_fiat_nft_params(proof, id, to), transfer_nft(id, to))
signed_cancel_list_fiat_nft(proof, id) ==
  /\ validate_nft_open_for_fiat_sale(proof.signer, id)
  /\ Authorised(proof, encode_cancel_list_fiat_nft_params(proof, id), unlist_nft_for_sale(id))

-----------------------------------------------------------------------------
\* Batches.

InfoOf(batch) == nft.infos[nft.batchInfo[batch]]
NextNonce(st, who) == [st EXCEPT !.nonces[who] = @ + 1]

create_batch(proof, royalties, total) ==
  [nft EXCEPT !.nextUnique = @ + 1, !.nextInfo = @ + 1,
     !.batchInfo = @ @@ (generate_batch_id(nft.nextUnique) :> nft.nextInfo),
     !.infos = @ @@ (nft.nextInfo :> NftInfo_new_batch(total, proof.signer, royalties))]

signed_create_batch(proof, royalties, total) ==
  /\ nft.nextUnique < MaxNfts /\ nft.nonces[proof.signer] < MaxNonce
  /\ total > 0 /\ total <= BatchBound /\ validate_royalties(royalties)
  /\ Authorised(proof, encode_create_batch_params(proof, royalties, total),
                NextNonce(create_batch(proof, royalties, total), proof.signer))

validate_mint_batch_nft_request(batch, ref) ==
  /\ batch \in DOMAIN nft.batchInfo /\ batch \in DOMAIN nft.batchSale
  /\ Len(MintedOf(batch)) < InfoOf(batch).total
  /\ validate_external_ref(ref)

mint_batch_nft(batch, owner, index, ref) ==
  LET id == generate_batch_nft_id(batch, index)
  IN [add_nft(nft, id, Nft_new(nft.batchInfo[batch], ref, owner)) EXCEPT
        !.batches = (batch :> Append(MintedOf(batch), id)) @@ @]
CanMint(batch, index, ref) ==
  validate_mint_batch_nft_request(batch, ref) /\ ~Exists(generate_batch_nft_id(batch, index))

signed_mint_batch_nft(proof, batch, index, owner, ref) ==
  /\ CanMint(batch, index, ref)
  /\ nft.batchSale[batch] = Fiat /\ InfoOf(batch).creator = proof.signer
  /\ Authorised(proof, encode_mint_batch_nft_params(proof, batch, index, ref, owner),
                mint_batch_nft(batch, owner, index, ref))

signed_list_batch_for_sale(proof, batch, market) ==
  /\ batch \in DOMAIN nft.batchInfo /\ market # "Unknown"
  /\ InfoOf(batch).creator = proof.signer /\ Len(MintedOf(batch)) < InfoOf(batch).total
  /\ batch \notin DOMAIN nft.batchSale /\ nft.nonces[proof.signer] < MaxNonce
  /\ Authorised(proof, encode_list_batch_for_sale_params(proof, batch, market),
                NextNonce([nft EXCEPT !.batchSale = @ @@ (batch :> market)], proof.signer))

validate_end_batch_listing_request(batch) ==
  batch \in DOMAIN nft.batchInfo /\ batch \in DOMAIN nft.batchSale
end_batch_listing(batch) == [nft EXCEPT !.batchSale = Without(@, batch)]
signed_end_batch_sale(proof, batch) ==
  /\ validate_end_batch_listing_request(batch)
  /\ nft.batchSale[batch] = Fiat /\ InfoOf(batch).creator = proof.signer
  /\ Authorised(proof, encode_end_batch_sale_params(proof, batch),
                NextNonce(end_batch_listing(batch), proof.signer))

-----------------------------------------------------------------------------
\* Imported events.  An event that fails is not tried again; its operation id is
\* the nonce Ethereum knew, which may be out of date.

transfer_eth_nft(id, op, to) ==
  /\ MarketOf(nft.sale, id) = Ethereum /\ op = nft.nfts[id].nonce
  /\ Effect(transfer_nft(id, to), <<"T1", "transfer", id, op, to>>)
cancel_eth_nft_listing(id, op) ==
  /\ MarketOf(nft.sale, id) = Ethereum /\ op = nft.nfts[id].nonce
  /\ Effect(unlist_nft_for_sale(id), <<"T1", "cancel", id, op>>)
process_mint_batch_nft_event(batch, index, owner, ref) ==
  /\ MarketOf(nft.batchSale, batch) = Ethereum /\ CanMint(batch, index, ref)
  /\ Effect(mint_batch_nft(batch, owner, index, ref), <<"T1", "mintBatch", batch, index>>)
\* The event names no operation: it ends whichever listing there is.
process_end_batch_listing_event(batch) ==
  /\ MarketOf(nft.batchSale, batch) = Ethereum
  /\ validate_end_batch_listing_request(batch)
  /\ nft' = end_batch_listing(batch)

NftIds == {generate_nft_id_single_mint(u) : u \in 0..(MaxNfts - 1)} \cup DOMAIN nft.nfts

processed_event_handler ==
  \/ \E id \in NftIds, op \in 0..MaxNonce :
       cancel_eth_nft_listing(id, op) \/ \E to \in NftUsers : transfer_eth_nft(id, op, to)
  \/ \E b \in DOMAIN nft.batchInfo :
       \/ \E i \in Indexes, o \in NftUsers, r \in Refs : process_mint_batch_nft_event(b, i, o, r)
       \/ process_end_batch_listing_event(b)

SingleNftCalls(proof) ==
  \/ \E r \in Refs, y \in Royalties : signed_mint_single_nft(proof, r, y)
  \/ \E id \in NftIds :
       \/ \E m \in Markets : signed_list_nft_open_for_sale(proof, id, m)
       \/ \E to \in NftUsers : signed_transfer_fiat_nft(proof, id, to)
       \/ signed_cancel_list_fiat_nft(proof, id)
BatchCalls(proof) ==
  \/ \E y \in Royalties, t \in Supplies : signed_create_batch(proof, y, t)
  \/ \E b \in DOMAIN nft.batchInfo :
       \/ \E i \in Indexes, o \in NftUsers, r \in Refs :
            signed_mint_batch_nft(proof, b, i, o, r)
       \/ \E m \in Markets : signed_list_batch_for_sale(proof, b, m)
       \/ signed_end_batch_sale(proof, b)

\* The signer sends its proof, or the relayer it names does, through proxy.
proxy == \E signer \in NftUsers, relayer \in Relayers :
  LET proof == [signer |-> signer, relayer |-> relayer]
  IN SingleNftCalls(proof) \/ BatchCalls(proof)

OwnCalls ==
  \E who \in NftUsers :
    \/ \E r \in Refs, y \in Royalties : mint_single_nft(who, r, y)
    \/ \E id \in NftIds, m \in Markets : list_nft_open_for_sale(who, id, m)

NftNext == proxy \/ OwnCalls \/ processed_event_handler
NftSpec == NftInit /\ [][NftNext]_nft

-----------------------------------------------------------------------------
\* However often a proof is relayed, and whatever was sold, cancelled and listed
\* again in between, it takes effect once; so does a sale or a cancellation made on
\* Ethereum for one listing (signed calls, transfer_eth_nft, cancel_eth_nft_listing).
\* Through all of it no two NFTs carry one reference, a batch holds exactly the
\* NFTs minted for it and never more than its supply, and only what exists is listed.
NftsActedOnOnce ==
  /\ ~nft.replayed
  /\ nft.used = {nft.nfts[id].ref : id \in DOMAIN nft.nfts}
  /\ \A i, j \in DOMAIN nft.nfts : nft.nfts[i].ref = nft.nfts[j].ref => i = j
  /\ DOMAIN nft.sale \subseteq DOMAIN nft.nfts
  /\ DOMAIN nft.batchSale \subseteq DOMAIN nft.batchInfo
  /\ \A b \in DOMAIN nft.batchInfo :
       /\ Len(MintedOf(b)) <= InfoOf(b).total
       /\ IsInjective(MintedOf(b))
       /\ ToSet(MintedOf(b)) = {id \in DOMAIN nft.nfts : id[1] = "B" /\ id[2] = b}
=============================================================================
