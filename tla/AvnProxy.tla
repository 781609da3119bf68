------------------------------ MODULE AvnProxy ------------------------------
(***************************************************************************)
(* The avn-proxy pallet with the runtime's list of the calls it relays: a  *)
(* relayer submits a call its author signed, and is paid for it from an    *)
(* authorisation that the payer signed over the call's proof and the       *)
(* payer's payment nonce.                                                  *)
(***************************************************************************)
EXTENDS Integers, FiniteSetsExt, Bags, TLC

CONSTANTS
  ProxyUsers, ProxyRelayers, GenesisBalance,
  SignedCalls,            \* the calls signed: kind, signer, relayer, nonce, receiver
  SignedPayments          \* the authorisations signed: proof, payer, recipient, amount, nonce

VARIABLE px

\* next is the nonce a target pallet keeps of a user's signed calls; paid and ran
\* are the authorisations charged and the proofs acted on.
ProxyInit ==
  px = [nonces |-> [u \in ProxyUsers |-> 0], next |-> [u \in ProxyUsers |-> 0],
        balance |-> [a \in ProxyUsers \cup ProxyRelayers |->
                       IF a \in ProxyUsers THEN GenesisBalance ELSE 0],
        paid |-> EmptyBag, ran |-> EmptyBag]

\* Every signed call of the target pallets carries a proof, of its signer, of the
\* relayer that may submit it and of the nonce it was signed for; no other call does.
get_proof(call) == IF call.kind = "unsupported" THEN {} ELSE {call}
\* The target pallet re-encodes the call with the nonce it has now.
signature_is_valid(st, call) ==
  call.kind # "unsupported" /\ call.nonce = st.next[call.signer]

\* The payment is signed over the proof, the recipient, the amount and a nonce.
verify_payment_authorisation_signature(st, proof, info) ==
  info.for = proof /\ info.nonce = st.nonces[info.payer]

pay_recipient(st, from, to, amount) ==
  IF st.balance[from] < amount THEN {}
  ELSE {[st EXCEPT !.balance[from] = @ - amount, !.balance[to] = @ + amount]}
Charged(st, info) == [st EXCEPT !.paid = @ (+) SetToBag({info})]
charge_fee_without_nonce(st, proof, info) ==
  IF verify_payment_authorisation_signature(st, proof, info)
  THEN {Charged(p, info) : p \in pay_recipient(st, info.payer, info.recipient, info.amount)}
  ELSE {}
charge_fee(st, proof, info) ==
  IF verify_payment_authorisation_signature(st, proof, info)
  THEN {[Charged(p, info) EXCEPT !.nonces[info.payer] = @ + 1] :
          p \in pay_recipient(st, info.payer, info.recipient, info.amount)}
  ELSE {}

\* A signed transfer moves all its signer has; a dispatch that fails leaves no trace.
dispatch(st, call) ==
  LET ran == [st EXCEPT !.next[call.signer] = @ + 1, !.ran = @ (+) SetToBag({call})]
  IN {st, IF call.kind = "signed_transfer"
          THEN [ran EXCEPT !.balance[call.signer] = 0,
                           !.balance[call.to] = @ + st.balance[call.signer]]
          ELSE ran}

\* What follows the charge is kept whether or not the call is valid or succeeds.
proxy(relayer, call, payment_info) ==
  /\ get_proof(call) # {} /\ relayer = call.relayer
  /\ \E st \in IF payment_info = {} THEN {px}
               ELSE UNION {charge_fee(px, call, info) : info \in payment_info} :
       px' \in IF signature_is_valid(st, call) THEN dispatch(st, call) ELSE {st}

\* The signer may also submit its call itself, to the target pallet.
Direct(call) == signature_is_valid(px, call) /\ px' \in dispatch(px, call)

ProxyNext ==
  \E call \in SignedCalls :
    \/ \E relayer \in ProxyRelayers :
         \/ proxy(relayer, call, {})
         \/ \E info \in SignedPayments : proxy(relayer, call, {info})
    \/ Direct(call)
ProxySpec == ProxyInit /\ [][ProxyNext]_px

-----------------------------------------------------------------------------
\* However a payer's authorisations and its signer's calls are submitted, again, late,
\* with failing calls or after the balance was moved away: an authorisation is charged
\* once, a signed call acts once, and the payment nonce counts the charges, so one that
\* stands behind a charge that failed is still good (charge_fee, proxy).
ChargedOnce ==
  /\ \A a \in BagToSet(px.paid) : CopiesIn(a, px.paid) = 1
  /\ \A c \in BagToSet(px.ran) : CopiesIn(c, px.ran) = 1
  /\ \A u \in ProxyUsers :
       {a.nonce : a \in {b \in BagToSet(px.paid) : b.payer = u}} = 0..(px.nonces[u] - 1)
=============================================================================
