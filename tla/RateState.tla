------------------------------ MODULE RateState ------------------------------
(****************************************************************************)
(* The arithmetic of one rate or quota counter: src/state/rate_state.rs.    *)
(* A counter is a record [balance, last_refill_micros]; a rule is a record  *)
(* [rate_per_micro, max_capacity].  Every operation is an operator on these *)
(* values; the mutex around a counter and the maps that hold counters are   *)
(* the business of the modules that use this one.                           *)
(****************************************************************************)
EXTENDS Integers

CONSTANTS MaxI64,  \* i64::MAX, the width of a balance
          MaxU64   \* u64::MAX, the width of a rate, an amount and a time

(* The two widths, in the order the saturating conversions rely on.         *)
ASSUME WidthAssumption == /\ MaxI64 \in Nat
                          /\ MaxU64 \in Nat
                          /\ MaxI64 <= MaxU64

Lesser(a, b) == IF a <= b THEN a ELSE b

(* RateLimitRule as deserialization admits it: max_capacity is in           *)
(* 0..i64::MAX and rate_per_micro is a u64.                                 *)
Rules == [rate_per_micro: 0..MaxU64, max_capacity: 0..MaxI64]

(* A counter that the debt floor allows.                                    *)
Counters == [balance: 0..MaxI64, last_refill_micros: 0..MaxU64]

Amounts == 0..MaxU64
Times == 0..MaxU64

----------------------------------------------------------------------------

(* from_rule: a new counter starts full, and its refill clock at `now`.     *)
FromRuleOverfull(now, rule) ==                     \* mutant: one token too many
  [balance |-> rule.max_capacity + 1, last_refill_micros |-> now]
FromRule(now, rule) ==
  [balance |-> rule.max_capacity, last_refill_micros |-> now]

(* now.saturating_sub(last), rate.saturating_mul(elapsed), and              *)
(* i64::try_from(..).unwrap_or(i64::MAX): what has flowed in since `last`.  *)
Elapsed(now, last) == IF now > last THEN now - last ELSE 0
Accrued(s, now, rule) ==
  Lesser(Lesser(rule.rate_per_micro * Elapsed(now, s.last_refill_micros),
                MaxU64),
         MaxI64)

(* balance.saturating_add(x).min(max_capacity), for x >= 0.                 *)
Credit(balance, x, rule) ==
  Lesser(Lesser(balance + x, MaxI64), rule.max_capacity)

(* calculate_refill: the balance projected at `now`.                        *)
CalculateRefill(s, now, rule) ==
  Credit(s.balance, Accrued(s, now, rule), rule)

(* check_withdraw_after_refill: which error, if any, a withdrawal meets.    *)
(* (InvalidRule is for a negative capacity, which no rule in Rules has.)    *)
CheckWithdrawOffByOne(s, amount, now, rule) ==          \* mutant: `<=` slip
  IF amount > MaxI64 THEN "AmountTooLarge"
  ELSE IF CalculateRefill(s, now, rule) + 1 < amount THEN "InsufficientBalance"
  ELSE "Ok"
CheckWithdraw(s, amount, now, rule) ==
  IF amount > MaxI64 THEN "AmountTooLarge"
  ELSE IF CalculateRefill(s, now, rule) < amount THEN "InsufficientBalance"
  ELSE "Ok"

(* withdraw_after_refill: the counter after a withdrawal.  It checks again  *)
(* and then writes the balance, and only the balance.                       *)
WithdrawOnACopy(s, amount, now, rule) == s        \* mutant: nothing written back
Withdraw(s, amount, now, rule) ==
  IF CheckWithdraw(s, amount, now, rule) # "Ok" THEN s
  ELSE [s EXCEPT !.balance = CalculateRefill(s, now, rule) - amount]

(* refund: an amount wider than i64 is refused and changes nothing.         *)
RefundForgotten(s, amount, rule) == s             \* mutant: the debit stays
Refund(s, amount, rule) ==
  IF amount > MaxI64 THEN s
  ELSE [s EXCEPT !.balance = Credit(s.balance, amount, rule)]
=============================================================================
