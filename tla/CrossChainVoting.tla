-------------------------- MODULE CrossChainVoting --------------------------
(***************************************************************************)
(* The cross-chain-voting pallet: accounts of this chain linked to an      *)
(* Ethereum (T1) identity, which votes with the sum of their balances.     *)
(***************************************************************************)
EXTENDS Integers, FiniteSetsExt, SequencesExt, Functions, TLC

CONSTANTS
  Identities, Voters,
  MaxLinkedAccounts,
  Signers,                \* whose key an Ethereum signature may be made with
  MaxTransfers            \* bound

VARIABLE cv

\* LinkedAccounts and LinkedAccountToIdentity, and the accounts' balances.
VotingInit ==
  cv = [linked |-> [t \in Identities |-> <<>>], identity |-> <<>>,
        balance |-> [a \in Voters |-> 1], transfers |-> 0]

\* The signature is over the action, the identity, the account and the chain.
LinkPayloads == [action : {"Link", "Unlink"}, t1_identity_account : Identities,
                 t2_linked_account : Voters]
verify_t1_signature(payload, sig) ==
  sig = [by |-> payload.t1_identity_account, over |-> payload]

Linked(a) == a \in DOMAIN cv.identity
link_account(signer, payload, sig) ==
  LET a == payload.t2_linked_account
      t == payload.t1_identity_account
  IN /\ signer = a /\ payload.action = "Link"
     /\ verify_t1_signature(payload, sig)
     /\ ~Linked(a)        \* linked to this identity already: nothing changes
     /\ Contains(cv.linked[t], a) \/ Len(cv.linked[t]) < MaxLinkedAccounts
     /\ cv' = [cv EXCEPT !.linked[t] = IF Contains(@, a) THEN @ ELSE Append(@, a),
                         !.identity = (a :> t) @@ @]

\* Vec::swap_remove: the last entry takes the place of the one removed.
swap_remove(seq, i) ==
  [j \in 1..(Len(seq) - 1) |-> IF j = i THEN seq[Len(seq)] ELSE seq[j]]
Removed(seq, a) ==
  IF Contains(seq, a) THEN swap_remove(seq, CHOOSE i \in DOMAIN seq : seq[i] = a) ELSE seq
unlink_account_of_the_identity(signer, payload) ==
  LET a == payload.t2_linked_account
  IN /\ signer = a /\ payload.action = "Unlink"
     /\ Linked(a)
     /\ cv' = [cv EXCEPT !.linked[payload.t1_identity_account] = Removed(@, a),
                         !.identity = Restrict(@, DOMAIN @ \ {a})]
unlink_account(signer, payload) ==
  LET a == payload.t2_linked_account
  IN /\ signer = a /\ payload.action = "Unlink"
     /\ Linked(a) /\ cv.identity[a] = payload.t1_identity_account
     /\ cv' = [cv EXCEPT !.linked[payload.t1_identity_account] = Removed(@, a),
                         !.identity = Restrict(@, DOMAIN @ \ {a})]

get_total_linked_balance(t) == FoldSeq(LAMBDA a, sum : cv.balance[a] + sum, 0, cv.linked[t])
get_total_linked_balances(ts) == [i \in DOMAIN ts |-> get_total_linked_balance(ts[i])]

Transfer(a, b) ==
  /\ a # b /\ cv.balance[a] > 0 /\ cv.transfers < MaxTransfers
  /\ cv' = [cv EXCEPT !.balance[a] = @ - 1, !.balance[b] = @ + 1, !.transfers = @ + 1]

VotingNext ==
  \/ \E signer \in Voters, p \in LinkPayloads :
       \/ \E by \in Signers, over \in LinkPayloads :
            link_account(signer, p, [by |-> by, over |-> over])
       \/ unlink_account(signer, p)
  \/ \E a, b \in Voters : Transfer(a, b)
VotingSpec == VotingInit /\ [][VotingNext]_cv

-----------------------------------------------------------------------------
\* No token is counted for two identities or twice for one: whatever was linked,
\* unlinked and linked again to another identity, the votes of all the identities
\* together are the balances of the linked accounts (link_account, unlink_account,
\* get_total_linked_balances).
VotesCountOnce ==
  LET ts == SetToSeq(Identities)
  IN FoldSeq(LAMBDA v, sum : v + sum, 0, get_total_linked_balances(ts)) =
     MapThenSumSet(LAMBDA a : cv.balance[a], DOMAIN cv.identity)
=============================================================================
