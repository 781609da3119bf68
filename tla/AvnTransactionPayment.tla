----------------------- MODULE AvnTransactionPayment -----------------------
(***************************************************************************)
(* The avn-transaction-payment pallet: the fee of a transaction is         *)
(* withdrawn before its dispatch and corrected after it, with the          *)
(* adjustment root promised the sender, and both parts go to the staking   *)
(* pot.  Operators that can fail give the set of their results.            *)
(***************************************************************************)
EXTENDS Integers, FiniteSetsExt, Functions, TLC

CONSTANTS
  Senders,
  FixedFees, Percentages, Durations, Counts,   \* what root may set
  Fees, Tips,                                  \* the network's fees, and the tips
  GenesisFree, ExistentialDeposit,
  MaxBlocks, MaxTransactions                   \* bounds

VARIABLE fp

Nobody == [kind |-> "None"]
\* sent counts a sender's transactions since its adjustment was set, and is negative
\* once its account was reaped; last is the latest transaction charged.
PaymentInit ==
  fp = [now |-> 1, nonce |-> [a \in Senders |-> 0], free |-> [a \in Senders |-> GenesisFree],
        known |-> <<>>, pot |-> 0, sent |-> [a \in Senders |-> 0], last |-> Nobody]

Monus(a, b) == IF a > b THEN a - b ELSE 0
Put(map, k, v) == (k :> v) @@ map
\* Perbill::from_percent saturates, and a product is rounded to the nearest, half down.
Part(percentage, fee) == (Min({percentage, 100}) * fee + 49) \div 100

NoFeeType == [kind |-> "None"]
FeeTypes == [kind : {"FixedFee"}, value : FixedFees]
            \cup [kind : {"PercentageFee"}, value : Percentages] \cup {NoFeeType}
AdjustmentTypes == [kind : {"TimeBased"}, value : Durations]
                   \cup [kind : {"TransactionBased"}, value : Counts] \cup {[kind |-> "None"]}

TimeBasedConfig(fee_type, duration) ==
  [kind |-> "TimeBased", fee_type |-> fee_type,
   end |-> IF duration = 0 THEN 0 ELSE fp.now + duration]
\* The count is the one the sender's nonce reaches, and is not valid when it is zero.
TransactionBasedConfig(st, fee_type, who, count) ==
  [kind |-> "TransactionBased", fee_type |-> fee_type, account |-> who,
   end |-> st.nonce[who] + count, promised |-> count]

is_valid(c) ==
  CASE c.kind = "FixedFee" -> c.value # 0
    [] c.kind = "PercentageFee" -> c.value # 0 /\ c.value <= 100
    [] c.kind \in {"TimeBased", "TransactionBased"} -> c.end # 0 /\ c.fee_type # NoFeeType
    [] OTHER -> FALSE
is_active_before_the_count(st, c) ==
  CASE c.kind \in {"FixedFee", "PercentageFee"} -> TRUE
    [] c.kind = "TimeBased" -> c.end > st.now
    [] c.kind = "TransactionBased" -> c.end > st.nonce[c.account]
    [] OTHER -> FALSE
is_active(st, c) ==
  CASE c.kind \in {"FixedFee", "PercentageFee"} -> TRUE
    [] c.kind = "TimeBased" -> c.end > st.now
    [] c.kind = "TransactionBased" -> c.end >= st.nonce[c.account]
    [] OTHER -> FALSE
calculate_fee(fee, type) ==
  IF type.kind = "FixedFee" THEN type.value ELSE Monus(fee, Part(type.value, fee))
get_fee(c, fee) ==
  calculate_fee(fee, IF c.kind \in {"TimeBased", "TransactionBased"} THEN c.fee_type ELSE c)

set_known_sender(st, who, fee_type, adjustment) ==
  LET c == CASE adjustment.kind = "TimeBased" -> TimeBasedConfig(fee_type, adjustment.value)
             [] adjustment.kind = "TransactionBased" ->
                  TransactionBasedConfig(st, fee_type, who, adjustment.value)
             [] OTHER -> fee_type
  IN IF is_valid(c) THEN {[st EXCEPT !.known = Put(@, who, c), !.sent[who] = 0]} ELSE {}
remove_known_sender(st, who) ==
  IF who \in DOMAIN st.known
  THEN {[st EXCEPT !.known = Restrict(@, DOMAIN @ \ {who})]} ELSE {}

-----------------------------------------------------------------------------
withdraw_fee(st, who, fee) ==
  IF fee = 0 THEN {st}
  ELSE IF st.free[who] - fee < ExistentialDeposit THEN {}
  ELSE {[st EXCEPT !.free[who] = @ - fee]}

config(st, who) == IF who \in DOMAIN st.known THEN st.known[who] ELSE Nobody
calculate_refund_amount(st, who, paid, corrected, tip) ==
  LET c == config(st, who)
      fee_to_pay == IF is_active(st, c) THEN get_fee(c, Monus(corrected, tip)) + tip ELSE corrected
  IN Monus(paid, fee_to_pay)
\* A payer whose account is gone gets nothing back.
refund_imbalance(st, who, amount) == IF st.free[who] > 0 THEN amount ELSE 0
\* The pot takes the fee and the tip as one.
DealWithFees(st, who, paid, refund) ==
  [st EXCEPT !.free[who] = @ + refund, !.pot = @ + paid - refund]
correct_and_deposit_fee(st, who, paid, corrected, tip) ==
  IF paid = 0 THEN st
  ELSE LET refund == refund_imbalance(st, who, calculate_refund_amount(st, who, paid, corrected, tip))
           vanilla == refund_imbalance(st, who, Monus(paid, corrected))
       IN [DealWithFees(st, who, paid, refund) EXCEPT
             !.last = [kind |-> "charged", sent |-> st.sent[who], config |-> config(st, who),
                       adjusted |-> is_active(st, config(st, who)), tip |-> tip,
                       cost |-> paid - refund, vanilla |-> paid - vanilla]]

RootCalls(st) ==
  UNION {set_known_sender(st, a, f, t) : a \in Senders, f \in FeeTypes, t \in AdjustmentTypes}
  \cup UNION {remove_known_sender(st, a) : a \in Senders}
\* What a dispatch may do to the payer's account: a call of root's, or a transfer of all
\* it has, which ends the account and its nonce.
dispatch(st, who) ==
  {st} \cup RootCalls(st)
  \cup {[st EXCEPT !.free[who] = 0, !.nonce[who] = 0, !.sent[who] = -1]}
CheckNonce(st, who) ==
  [st EXCEPT !.nonce[who] = @ + 1, !.sent[who] = IF @ < 0 THEN @ ELSE @ + 1]
Transaction(who, fee, corrected, tip) ==
  /\ fp.nonce[who] < MaxTransactions /\ fp.free[who] > 0
  /\ \E charged \in withdraw_fee(fp, who, fee + tip) :
       \E done \in dispatch(CheckNonce(charged, who), who) :
         fp' = correct_and_deposit_fee(done, who, fee + tip, corrected + tip, tip)
NewBlock == fp.now < MaxBlocks /\ fp' = [fp EXCEPT !.now = @ + 1]
Endow(who) == fp.free[who] = 0 /\ fp' = [fp EXCEPT !.free[who] = GenesisFree]

PaymentNext ==
  \/ \E who \in Senders, fee \in Fees, tip \in Tips :
       \E corrected \in {c \in Fees : c <= fee} : Transaction(who, fee, corrected, tip)
  \/ fp' \in RootCalls(fp)
  \/ NewBlock
  \/ \E who \in Senders : Endow(who)
PaymentSpec == PaymentInit /\ [][PaymentNext]_fp

-----------------------------------------------------------------------------
\* A sender promised its next n transactions has the first n after the promise adjusted
\* and none later, whatever its dispatches did, unless the account was reaped and its
\* nonce began again.  A sender without an active adjustment pays what the plain adapter
\* would charge, and no adjustment eats into a tip (is_active, calculate_refund_amount,
\* correct_and_deposit_fee).
AdjustedAsPromised ==
  fp.last.kind = "charged" =>
    /\ fp.last.config.kind = "TransactionBased" /\ fp.last.sent >= 0 =>
         (fp.last.adjusted <=> fp.last.sent <= fp.last.config.promised)
    /\ fp.last.adjusted \/ fp.last.cost = fp.last.vanilla
    /\ fp.last.cost >= fp.last.tip
=============================================================================
