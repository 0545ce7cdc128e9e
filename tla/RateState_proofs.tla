--------------------------- MODULE RateState_proofs ---------------------------
(****************************************************************************)
(* What the operations of module RateState return, for every rule, counter, *)
(* amount and time, whatever the widths.                                    *)
(****************************************************************************)
EXTENDS RateState, TLAPS

(* What flows into a counter is never negative and fits a balance: the      *)
(* saturating product and the conversion to i64 in calculate_refill.        *)
LEMMA AccruedType ==
  ASSUME NEW s \in Counters, NEW now \in Times, NEW rule \in Rules
  PROVE  Accrued(s, now, rule) \in 0..MaxI64
<1>1. rule.rate_per_micro \in Nat /\ Elapsed(now, s.last_refill_micros) \in Nat
  BY WidthAssumption DEF Counters, Times, Rules, Elapsed
<1>2. rule.rate_per_micro * Elapsed(now, s.last_refill_micros) \in Nat
  BY <1>1
<1> QED
  BY <1>2, WidthAssumption DEF Accrued, Lesser

(* Credit adds, up to the capacity.                                         *)
LEMMA CreditType ==
  ASSUME NEW b \in 0..MaxI64, NEW x \in Nat, NEW rule \in Rules
  PROVE  /\ Credit(b, x, rule) \in 0..MaxI64
         /\ Credit(b, x, rule) <= rule.max_capacity
         /\ Credit(b, x, rule) <= b + x
BY WidthAssumption DEF Credit, Lesser, Rules

(* calculate_refill returns a balance within the capacity of the rule.      *)
LEMMA RefillType ==
  ASSUME NEW s \in Counters, NEW now \in Times, NEW rule \in Rules
  PROVE  /\ CalculateRefill(s, now, rule) \in 0..MaxI64
         /\ CalculateRefill(s, now, rule) <= rule.max_capacity
<1>1. Accrued(s, now, rule) \in Nat
  BY AccruedType, WidthAssumption
<1>2. s.balance \in 0..MaxI64
  BY DEF Counters
<1> QED
  BY <1>1, <1>2, CreditType DEF CalculateRefill

(* Without a refill rate, time adds nothing.                                *)
LEMMA RefillWithoutRate ==
  ASSUME NEW s \in Counters, NEW now \in Times, NEW rule \in Rules,
         rule.rate_per_micro = 0
  PROVE  CalculateRefill(s, now, rule) <= s.balance
<1>1. Elapsed(now, s.last_refill_micros) \in Nat
  BY WidthAssumption DEF Counters, Times, Elapsed
<1>2. rule.rate_per_micro * Elapsed(now, s.last_refill_micros) = 0
  BY <1>1
<1>3. Accrued(s, now, rule) = 0
  BY <1>2, WidthAssumption DEF Accrued, Lesser
<1>4. s.balance \in 0..MaxI64 /\ 0 \in Nat
  BY DEF Counters
<1> QED
  BY <1>3, <1>4, CreditType DEF CalculateRefill

(* A new counter is a counter: from_rule.                                   *)
LEMMA FromRuleType ==
  ASSUME NEW now \in Times, NEW rule \in Rules
  PROVE  FromRule(now, rule) \in Counters
BY WidthAssumption DEF FromRule, Rules, Counters, Times

(* A withdrawal leaves a counter above the debt floor, whether or not its   *)
(* check accepts, and takes exactly the amount from the refilled balance    *)
(* when it does.                                                            *)
LEMMA WithdrawType ==
  ASSUME NEW s \in Counters, NEW amount \in Amounts, NEW now \in Times,
         NEW rule \in Rules
  PROVE  /\ Withdraw(s, amount, now, rule) \in Counters
         /\ CheckWithdraw(s, amount, now, rule) = "Ok" =>
              Withdraw(s, amount, now, rule).balance
                = CalculateRefill(s, now, rule) - amount
<1>1. CalculateRefill(s, now, rule) \in 0..MaxI64
  BY RefillType
<1>2. CASE CheckWithdraw(s, amount, now, rule) = "Ok"
  <2>1. amount \in 0..MaxI64 /\ amount <= CalculateRefill(s, now, rule)
    BY <1>1, <1>2, WidthAssumption DEF CheckWithdraw, Amounts
  <2>2. CalculateRefill(s, now, rule) - amount \in 0..MaxI64
    BY <1>1, <2>1, WidthAssumption
  <2> QED
    BY <1>2, <2>2 DEF Withdraw, Counters
<1>3. CASE CheckWithdraw(s, amount, now, rule) # "Ok"
  BY <1>3 DEF Withdraw
<1> QED
  BY <1>2, <1>3

(* A refund leaves a counter within the width, and gives back at most the   *)
(* amount.                                                                  *)
LEMMA RefundType ==
  ASSUME NEW s \in Counters, NEW amount \in Amounts, NEW rule \in Rules
  PROVE  /\ Refund(s, amount, rule) \in Counters
         /\ Refund(s, amount, rule).balance <= s.balance + amount
<1>1. s.balance \in 0..MaxI64 /\ amount \in Nat
  BY WidthAssumption DEF Counters, Amounts
<1>2. /\ Credit(s.balance, amount, rule) \in 0..MaxI64
      /\ Credit(s.balance, amount, rule) <= s.balance + amount
  BY <1>1, CreditType
<1> QED
  BY <1>1, <1>2, WidthAssumption DEF Refund, Counters

(* A credit adds everything, unless the counter is then full.               *)
LEMMA CreditAll ==
  ASSUME NEW b \in 0..MaxI64, NEW x \in Nat, NEW rule \in Rules
  PROVE  \/ Credit(b, x, rule) >= b + x
         \/ Credit(b, x, rule) = rule.max_capacity
BY WidthAssumption DEF Credit, Lesser, Rules
=============================================================================
