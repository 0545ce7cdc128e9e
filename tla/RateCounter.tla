----------------------------- MODULE RateCounter -----------------------------
(****************************************************************************)
(* One Arc<Mutex<RateState>> under a fixed rule, called by any number of    *)
(* requests while the clock runs: a withdrawal that is checked and debited  *)
(* under one lock (lib.rs verify_access), and the refund of a withdrawal    *)
(* whose execution failed (refund_applied_state_updates).                   *)
(****************************************************************************)
EXTENDS RateState, Functions

CONSTANTS Rule,            \* the rule the counter was created from
          RequestAmounts,  \* the amounts requests debit
          MaxTime,         \* bound: the clock stops here
          MaxCalls         \* bound: admitted withdrawals in a behaviour
ASSUME CounterAssumption == /\ Rule \in Rules
                            /\ RequestAmounts \subseteq Amounts
                            /\ MaxTime \in Times
                            /\ MaxCalls \in Nat

VARIABLES clock,    \* SystemTime::now(), in microseconds
          counter,  \* the RateState behind the mutex
          open,     \* per amount, the debits whose execution has not ended
          kept      \* per amount, the debits whose execution succeeded
vars == <<clock, counter, open, kept>>

TypeOK == /\ clock \in 0..MaxTime
          /\ counter \in [balance: 0..Rule.max_capacity,
                          last_refill_micros: 0..MaxTime]
          /\ open \in [RequestAmounts -> Nat]
          /\ kept \in [RequestAmounts -> Nat]

Init == /\ clock = 0
        /\ counter = FromRule(0, Rule)
        /\ open = [a \in RequestAmounts |-> 0]
        /\ kept = [a \in RequestAmounts |-> 0]

Calls == SumFunction([a \in RequestAmounts |-> open[a] + kept[a]])
Spent == SumFunction([a \in RequestAmounts |-> a * (open[a] + kept[a])])

Tick == /\ clock < MaxTime
        /\ clock' = clock + 1
        /\ UNCHANGED <<counter, open, kept>>

(* lock; check_withdraw_after_refill; withdraw_after_refill; unlock.  The   *)
(* time `now` was read before the lock was taken (lib.rs:282), so it is any *)
(* instant up to the present one.  A failed check changes nothing.          *)
Admit(amount, now) ==
  /\ Calls < MaxCalls
  /\ CheckWithdraw(counter, amount, now, Rule) = "Ok"
  /\ counter' = Withdraw(counter, amount, now, Rule)
  /\ open' = [open EXCEPT ![amount] = @ + 1]
  /\ UNCHANGED <<clock, kept>>

(* The execution succeeded: the debit stays.                                *)
Keep(amount) ==
  /\ open[amount] > 0
  /\ open' = [open EXCEPT ![amount] = @ - 1]
  /\ kept' = [kept EXCEPT ![amount] = @ + 1]
  /\ UNCHANGED <<clock, counter>>

(* The execution failed: the debit is refunded.                             *)
GiveBack(amount) ==
  /\ open[amount] > 0
  /\ open' = [open EXCEPT ![amount] = @ - 1]
  /\ counter' = Refund(counter, amount, Rule)
  /\ UNCHANGED <<clock, kept>>

Next == \/ Tick
        \/ \E a \in RequestAmounts :
             \/ \E now \in 0..clock : Admit(a, now)
             \/ Keep(a)
             \/ GiveBack(a)

Spec == Init /\ [][Next]_vars

----------------------------------------------------------------------------

(* The counter never withholds what the rule grants: what is left and what  *)
(* is debited (and not refunded) together are at least max_capacity, so a   *)
(* refund restores all of its debit unless the counter is full              *)
(* (rate_state.rs:144-161; STATE_ACCOUNTING_MODEL.md:57-58).                *)
NothingWithheld == counter.balance + Spent >= Rule.max_capacity

(* Usage in flight or kept never exceeds the capacity and what the rate has *)
(* added to it since the counter was created: the limit that max_capacity   *)
(* and rate_per_micro state (nip-nostr-wallet-connect-controller.md:98-106).*)
WithinGrantedRate ==
  Spent <= Rule.max_capacity + Rule.rate_per_micro * clock

(* The counter implements the token bucket of the protocol document: the    *)
(* lazy refill of withdraw_after_refill (rate_state.rs:118-132) is the      *)
(* continuous one, observed through calculate_refill at the present time.   *)
Bucket == INSTANCE TokenBucket WITH
            Rate <- Rule.rate_per_micro, Capacity <- Rule.max_capacity,
            Tokens <- RequestAmounts,
            tokens <- CalculateRefill(counter, clock, Rule)
ImplementsTokenBucket == Bucket!Spec

=============================================================================
