-------------------------- MODULE RateCounter_proofs --------------------------
(****************************************************************************)
(* One counter under any number of calls, of any amounts, at any times: it  *)
(* never withholds what its rule grants, and without a rate it is the token *)
(* bucket of the protocol document, to the token.                           *)
(****************************************************************************)
EXTENDS RateCounter, RateState_proofs, Sums_proofs

(* A rule without a refill rate, the default: a quota.                      *)
PlainRule == Rule.rate_per_micro = 0

(* What the debits weigh, per amount.                                       *)
Weights(o, k) == [a \in RequestAmounts |-> a * (o[a] + k[a])]
Debits == [RequestAmounts -> Nat]

LEMMA AmountsAre ==
  /\ IsFiniteSet(RequestAmounts) /\ RequestAmounts \in SUBSET Nat
  /\ Rule.max_capacity \in Nat /\ Rule.max_capacity <= MaxI64
<1>1. RequestAmounts \in SUBSET Amounts /\ Amounts = 0..MaxU64 /\ MaxU64 \in Int
  BY CounterAssumption, WidthAssumption DEF Amounts
<1>2. IsFiniteSet(Amounts)
  BY <1>1, FS_Interval
<1>3. IsFiniteSet(RequestAmounts)
  BY <1>1, <1>2, FS_Subset
<1> QED BY <1>1, <1>3, CounterAssumption, WidthAssumption DEF Rules

LEMMA WeightsType ==
  ASSUME NEW o \in Debits, NEW k \in Debits
  PROVE  /\ \A a \in RequestAmounts : Weights(o, k)[a] \in Nat
         /\ SumFunction(Weights(o, k)) \in Nat
         /\ SumFunction(Weights(o, k))
              = SumFunctionOnSet(Weights(o, k), RequestAmounts)
<1> DEFINE W == Weights(o, k)
<1>1. DOMAIN W = RequestAmounts
  BY DEF Weights
<1>2. ASSUME NEW a \in RequestAmounts PROVE W[a] \in Nat
  <2>1. a \in Nat /\ o[a] + k[a] \in Nat
    BY AmountsAre DEF Debits
  <2>2. \A x, y \in Nat : x * y \in Nat
    OBVIOUS
  <2>3. a * (o[a] + k[a]) \in Nat
    BY <2>1, <2>2
  <2> QED BY <2>3 DEF Weights
<1> HIDE DEF W
<1>3. SumFunction(W) = SumFunctionOnSet(W, RequestAmounts)
  BY <1>1 DEF SumFunction
<1>4. SumFunctionOnSet(W, RequestAmounts) \in Nat
  BY <1>2, AmountsAre, SumType
<1> QED BY <1>2, <1>3, <1>4 DEF W

(* One more debit of an amount weighs that amount.                          *)
LEMMA OneMore ==
  ASSUME NEW o \in Debits, NEW k \in Debits, NEW p \in Debits, NEW m \in Debits,
         NEW b \in RequestAmounts, p[b] + m[b] = o[b] + k[b] + 1,
         \A a \in RequestAmounts \ {b} : p[a] + m[a] = o[a] + k[a]
  PROVE  SumFunction(Weights(p, m)) = SumFunction(Weights(o, k)) + b
<1> DEFINE F == Weights(o, k)
           G == Weights(p, m)
           R == RequestAmounts \ {b}
<1>1. /\ \A a \in RequestAmounts : F[a] \in Nat /\ G[a] \in Nat
      /\ SumFunction(F) = SumFunctionOnSet(F, RequestAmounts)
      /\ SumFunction(G) = SumFunctionOnSet(G, RequestAmounts)
  BY WeightsType
<1>2. \A a \in R : F[a] = G[a]
  BY DEF Weights
<1>3. G[b] = F[b] + b
  <2>1. /\ F[b] = b * (o[b] + k[b]) /\ G[b] = b * (p[b] + m[b])
        /\ b \in Nat /\ o[b] + k[b] \in Nat
    BY AmountsAre DEF Weights, Debits
  <2>2. \A x, y \in Nat : x * (y + 1) = x * y + x
    OBVIOUS
  <2>3. b * (o[b] + k[b] + 1) = b * (o[b] + k[b]) + b
    BY <2>1, <2>2
  <2> QED BY <2>1, <2>3
<1> HIDE DEF F, G
<1>4. /\ SumFunctionOnSet(F, RequestAmounts) = F[b] + SumFunctionOnSet(F, R)
      /\ SumFunctionOnSet(G, RequestAmounts) = G[b] + SumFunctionOnSet(G, R)
  <2>1. IsFiniteSet(RequestAmounts)
    BY AmountsAre
  <2>2. SumFunctionOnSet(F, RequestAmounts)
          = F[b] + SumFunctionOnSet(F, RequestAmounts \ {b})
    BY <1>1, <2>1, SumTakeOut
  <2>3. SumFunctionOnSet(G, RequestAmounts)
          = G[b] + SumFunctionOnSet(G, RequestAmounts \ {b})
    BY <1>1, <2>1, SumTakeOut
  <2> QED BY <2>2, <2>3
<1>5. IsFiniteSet(R)
  BY AmountsAre, FS_Subset
<1> HIDE DEF R
<1>6. SumFunctionOnSet(F, R) = SumFunctionOnSet(G, R)
  BY <1>2, <1>5, SumOfSame
<1>7. SumFunctionOnSet(F, R) \in Nat
  <2>1. \A a \in R : F[a] \in Nat
    BY <1>1 DEF R
  <2> QED BY <1>5, <2>1, SumType
<1>8. F[b] \in Nat /\ b \in Nat
  BY <1>1, AmountsAre
<1> QED BY <1>1, <1>3, <1>4, <1>6, <1>7, <1>8 DEF F, G

LEMMA SpentIs == Spent = SumFunction(Weights(open, kept))
BY DEF Spent, Weights

----------------------------------------------------------------------------
(* The invariant: the debits that may be refunded are those that the check  *)
(* admits, so that a refund takes place.                                    *)

CounterInv == /\ TypeOK
              /\ \A a \in RequestAmounts : open[a] > 0 => a <= MaxI64
              /\ NothingWithheld
              /\ PlainRule => counter.balance + Spent = Rule.max_capacity

LEMMA CounterStart == Init => CounterInv
<1> SUFFICES ASSUME Init PROVE CounterInv
  OBVIOUS
<1>1. /\ counter = [balance |-> Rule.max_capacity, last_refill_micros |-> 0]
      /\ clock = 0 /\ open = [a \in RequestAmounts |-> 0]
      /\ kept = [a \in RequestAmounts |-> 0] /\ MaxTime \in Nat
  BY CounterAssumption, WidthAssumption DEF Init, FromRule, Times
<1>2. TypeOK
  BY <1>1, AmountsAre DEF TypeOK
<1>3. Spent = 0
  <2> DEFINE W == Weights(open, kept)
             Zero == [a \in {} |-> 0]
  <2>1. open \in Debits /\ kept \in Debits
    BY <1>2 DEF TypeOK, Debits
  <2>2. \A a \in RequestAmounts : W[a] = 0
    BY <1>1, AmountsAre DEF Weights
  <2>3. SumFunction(W) = SumFunctionOnSet(W, RequestAmounts)
    BY <2>1, WeightsType
  <2> HIDE DEF W
  <2>4. SumFunctionOnSet(W, RequestAmounts) <= SumFunctionOnSet(W, {})
    <3>1. IsFiniteSet({}) /\ IsFiniteSet(RequestAmounts)
      BY FS_EmptySet, AmountsAre
    <3>2. \A a \in RequestAmounts : W[a] \in Nat
      BY <2>2
    <3>3. \A a \in RequestAmounts \ {} : W[a] = 0
      BY <2>2
    <3> QED BY <3>1, <3>2, <3>3, SumAtMost
  <2>5. SumFunctionOnSet(W, {}) = 0
    BY SumStep, FS_EmptySet
  <2>6. SumFunction(W) \in Nat
    BY <2>1, WeightsType DEF W
  <2>7. SumFunction(W) = 0
    BY <2>3, <2>4, <2>5, <2>6
  <2> QED BY <2>7, SpentIs DEF W
<1>4. \A a \in RequestAmounts : ~(open[a] > 0)
  BY <1>1
<1> QED BY <1>1, <1>2, <1>3, <1>4, AmountsAre DEF CounterInv, NothingWithheld

(* What the type invariant says in the terms of the lemmas on counters.     *)
LEMMA CounterTypes ==
  ASSUME TypeOK
  PROVE  /\ counter \in Counters /\ counter.balance \in 0..Rule.max_capacity
         /\ counter.last_refill_micros \in 0..MaxTime
         /\ Rule \in Rules /\ clock \in Times /\ clock \in Nat
         /\ open \in Debits /\ kept \in Debits
         /\ RequestAmounts \subseteq Amounts
         /\ \A now \in 0..clock : now \in Times
         /\ Spent \in Nat
<1>1. MaxTime \in Nat /\ MaxTime <= MaxU64 /\ MaxU64 \in Nat /\ MaxI64 \in Nat
  BY CounterAssumption, WidthAssumption DEF Times
<1>2. counter \in Counters
  BY <1>1, AmountsAre DEF TypeOK, Counters
<1>3. /\ counter.balance \in 0..Rule.max_capacity /\ clock \in 0..MaxTime
      /\ counter.last_refill_micros \in 0..MaxTime
      /\ open \in Debits /\ kept \in Debits
  BY DEF TypeOK, Debits
<1>4. Spent \in Nat
  BY <1>3, SpentIs, WeightsType
<1> QED BY <1>1, <1>2, <1>3, <1>4, CounterAssumption DEF Times

LEMMA RefillAtLeast ==
  ASSUME TypeOK, NEW now \in Times
  PROVE  /\ CalculateRefill(counter, now, Rule) \in 0..Rule.max_capacity
         /\ CalculateRefill(counter, now, Rule) >= counter.balance
         /\ PlainRule => CalculateRefill(counter, now, Rule) = counter.balance
<1>1. /\ counter \in Counters /\ Rule \in Rules /\ counter.balance \in Nat
      /\ counter.balance <= Rule.max_capacity /\ counter.balance \in 0..MaxI64
      /\ Rule.max_capacity \in Nat
  BY CounterTypes, AmountsAre DEF Counters
<1>2. Accrued(counter, now, Rule) \in Nat
  BY <1>1, AccruedType, WidthAssumption
<1>3. /\ CalculateRefill(counter, now, Rule) \in Nat
      /\ CalculateRefill(counter, now, Rule) <= Rule.max_capacity
  BY <1>1, RefillType, WidthAssumption
<1>4. CalculateRefill(counter, now, Rule) >= counter.balance
  <2>1. \/ CalculateRefill(counter, now, Rule)
             >= counter.balance + Accrued(counter, now, Rule)
        \/ CalculateRefill(counter, now, Rule) = Rule.max_capacity
    BY <1>1, <1>2, CreditAll DEF CalculateRefill
  <2> QED BY <1>1, <1>2, <1>3, <2>1
<1>5. ASSUME PlainRule
      PROVE  CalculateRefill(counter, now, Rule) <= counter.balance
  BY <1>1, <1>5, RefillWithoutRate DEF PlainRule
<1> QED BY <1>1, <1>3, <1>4, <1>5

(* An admitted debit.                                                       *)
LEMMA AdmitStep ==
  ASSUME CounterInv, NEW a \in RequestAmounts, NEW now \in 0..clock,
         Admit(a, now)
  PROVE  /\ CounterInv' /\ Spent' = Spent + a
         /\ PlainRule => counter.balance' = counter.balance - a
                         /\ a <= counter.balance
<1>1. TypeOK /\ now \in Times /\ a \in Amounts /\ a \in Nat
      /\ counter \in Counters /\ Rule \in Rules
  BY CounterTypes, AmountsAre DEF CounterInv
<1> DEFINE r == CalculateRefill(counter, now, Rule)
<1>2. /\ r \in 0..Rule.max_capacity /\ r >= counter.balance
      /\ PlainRule => r = counter.balance
  BY <1>1, RefillAtLeast
<1>3. /\ CheckWithdraw(counter, a, now, Rule) = "Ok"
      /\ counter' = Withdraw(counter, a, now, Rule)
      /\ open' = [open EXCEPT ![a] = @ + 1] /\ UNCHANGED <<clock, kept>>
  BY DEF Admit
<1>4. a <= MaxI64 /\ a <= r
  BY <1>1, <1>2, <1>3, WidthAssumption, AmountsAre DEF CheckWithdraw
<1>5. counter' = [counter EXCEPT !.balance = r - a]
  BY <1>3 DEF Withdraw
<1> HIDE DEF r
<1>6. /\ counter' \in [balance: 0..Rule.max_capacity,
                       last_refill_micros: 0..MaxTime]
      /\ counter'.balance = r - a
  <2>1. r - a \in 0..Rule.max_capacity
    BY <1>1, <1>2, <1>4, AmountsAre
  <2> QED BY <1>1, <1>5, <2>1 DEF TypeOK
<1>7. open \in Debits /\ kept \in Debits /\ open' \in Debits /\ kept' = kept
  BY <1>1, <1>3, CounterTypes DEF Debits
<1>8. TypeOK'
  BY <1>1, <1>3, <1>6, <1>7 DEF TypeOK, Debits
<1>9. Spent' = Spent + a
  <2>1. /\ open'[a] + kept'[a] = open[a] + kept[a] + 1
        /\ \A b \in RequestAmounts \ {a} : open'[b] + kept'[b] = open[b] + kept[b]
    BY <1>3, <1>7 DEF Debits
  <2>2. Spent' = SumFunction(Weights(open', kept'))
    BY DEF Spent, Weights
  <2>3. kept' \in Debits
    BY <1>7
  <2> QED BY <1>7, <2>1, <2>2, <2>3, SpentIs, OneMore
<1>10. \A b \in RequestAmounts : open'[b] > 0 => b <= MaxI64
  BY <1>3, <1>4, <1>7 DEF CounterInv, Debits
<1>11. Spent \in Nat /\ counter.balance \in Nat /\ Rule.max_capacity \in Nat
       /\ r \in Nat
  BY <1>1, <1>2, CounterTypes, AmountsAre
<1>12. NothingWithheld'
  <2>1. counter.balance + Spent >= Rule.max_capacity
    BY DEF CounterInv, NothingWithheld
  <2> QED BY <1>1, <1>2, <1>6, <1>9, <1>11, <2>1 DEF NothingWithheld
<1>13. PlainRule => counter'.balance + Spent' = Rule.max_capacity
  BY <1>1, <1>2, <1>6, <1>9, <1>11 DEF CounterInv
<1> QED BY <1>2, <1>4, <1>6, <1>8, <1>9, <1>10, <1>12, <1>13 DEF CounterInv, PlainRule

(* A debit that stays.                                                      *)
LEMMA KeepStep ==
  ASSUME CounterInv, NEW a \in RequestAmounts, Keep(a)
  PROVE  CounterInv' /\ UNCHANGED <<clock, counter>>
<1>1. /\ open \in Debits /\ kept \in Debits /\ TypeOK
  BY CounterTypes DEF CounterInv
<1>2. /\ open[a] > 0 /\ open' = [open EXCEPT ![a] = @ - 1]
      /\ kept' = [kept EXCEPT ![a] = @ + 1] /\ UNCHANGED <<clock, counter>>
  BY DEF Keep
<1>3. /\ open' \in Debits /\ kept' \in Debits
      /\ \A b \in RequestAmounts : open'[b] + kept'[b] = open[b] + kept[b]
      /\ \A b \in RequestAmounts : open'[b] > 0 => open[b] > 0
  BY <1>1, <1>2 DEF Debits
<1>4. Spent' = Spent
  <2>1. Weights(open', kept') = Weights(open, kept)
    BY <1>3 DEF Weights
  <2>2. Spent' = SumFunction(Weights(open', kept'))
    BY DEF Spent, Weights
  <2> QED BY <2>1, <2>2, SpentIs
<1>5. TypeOK'
  BY <1>1, <1>2, <1>3 DEF TypeOK, Debits
<1> QED BY <1>2, <1>3, <1>4, <1>5 DEF CounterInv, NothingWithheld, PlainRule

(* A refund.                                                                *)
LEMMA GiveBackStep ==
  ASSUME CounterInv, NEW a \in RequestAmounts, GiveBack(a)
  PROVE  /\ CounterInv' /\ clock' = clock
         /\ counter'.balance = IF counter.balance + a < Rule.max_capacity
                               THEN counter.balance + a ELSE Rule.max_capacity
         /\ PlainRule => counter'.balance = counter.balance + a
<1>1. /\ open \in Debits /\ kept \in Debits /\ TypeOK /\ a \in Nat
      /\ counter.balance \in 0..Rule.max_capacity /\ Spent \in Nat
      /\ Rule.max_capacity \in Nat /\ Rule.max_capacity <= MaxI64
      /\ MaxI64 \in Nat
  BY CounterTypes, AmountsAre, WidthAssumption DEF CounterInv
<1>2. /\ open[a] > 0 /\ open' = [open EXCEPT ![a] = @ - 1]
      /\ counter' = Refund(counter, a, Rule) /\ UNCHANGED <<clock, kept>>
  BY DEF GiveBack
<1>3. a <= MaxI64
  BY <1>2 DEF CounterInv
<1> DEFINE b == IF counter.balance + a < Rule.max_capacity
                THEN counter.balance + a ELSE Rule.max_capacity
<1>4. counter' = [counter EXCEPT !.balance = b] /\ b \in 0..Rule.max_capacity
  <2>1. Credit(counter.balance, a, Rule) = b
    BY <1>1 DEF Credit, Lesser
  <2> QED BY <1>1, <1>2, <1>3, <2>1 DEF Refund
<1>5. /\ counter' \in [balance: 0..Rule.max_capacity,
                       last_refill_micros: 0..MaxTime]
      /\ counter'.balance = b
  <2> HIDE DEF b
  <2> QED BY <1>1, <1>4 DEF TypeOK
<1>6. /\ open' \in Debits /\ kept' = kept /\ kept' \in Debits
      /\ open[a] + kept[a] = open'[a] + kept'[a] + 1
      /\ \A c \in RequestAmounts \ {a} : open[c] + kept[c] = open'[c] + kept'[c]
      /\ \A c \in RequestAmounts : open'[c] > 0 => open[c] > 0
  BY <1>1, <1>2 DEF Debits
<1>7. Spent = Spent' + a
  <2>1. Spent' = SumFunction(Weights(open', kept'))
    BY DEF Spent, Weights
  <2> QED BY <1>1, <1>6, <2>1, SpentIs, OneMore
<1>8. TypeOK'
  BY <1>1, <1>2, <1>5, <1>6 DEF TypeOK, Debits
<1>9. Spent' \in Nat
  <2>1. Spent' = SumFunction(Weights(open', kept'))
    BY DEF Spent, Weights
  <2> QED BY <1>6, <2>1, WeightsType
<1>10. NothingWithheld'
  <2>1. counter.balance + Spent >= Rule.max_capacity
    BY DEF CounterInv, NothingWithheld
  <2> QED BY <1>1, <1>5, <1>7, <1>9, <2>1 DEF NothingWithheld
<1>11. ASSUME PlainRule
       PROVE  /\ counter'.balance = counter.balance + a
              /\ counter'.balance + Spent' = Rule.max_capacity
  <2>1. counter.balance + Spent = Rule.max_capacity
    BY <1>11 DEF CounterInv
  <2>2. counter.balance + a <= Rule.max_capacity
    BY <1>1, <1>7, <1>9, <2>1
  <2> QED BY <1>1, <1>5, <1>7, <1>9, <2>1, <2>2
<1>12. \A c \in RequestAmounts : open'[c] > 0 => c <= MaxI64
  BY <1>6 DEF CounterInv
<1> QED BY <1>2, <1>5, <1>8, <1>10, <1>11, <1>12 DEF CounterInv, PlainRule

LEMMA TickStep ==
  ASSUME CounterInv, Tick
  PROVE  CounterInv' /\ UNCHANGED counter
<1>1. clock' \in 0..MaxTime /\ UNCHANGED <<counter, open, kept>>
  BY CounterAssumption, WidthAssumption DEF Tick, CounterInv, TypeOK, Times
<1> QED BY <1>1 DEF CounterInv, TypeOK, NothingWithheld, Spent, PlainRule

LEMMA CounterStep == CounterInv /\ [Next]_vars => CounterInv'
<1> SUFFICES ASSUME CounterInv, [Next]_vars PROVE CounterInv'
  OBVIOUS
<1>1. CASE UNCHANGED vars
  BY <1>1 DEF vars, CounterInv, TypeOK, NothingWithheld, Spent, PlainRule
<1> QED BY <1>1, TickStep, AdmitStep, KeepStep, GiveBackStep DEF Next

LEMMA CounterAlways == Spec => []CounterInv
BY CounterStart, CounterStep, PTL DEF Spec

(* A balance stays between zero and the capacity of its rule, for whatever  *)
(* rule and widths (rate_state.rs:72-161).                                  *)
THEOREM CounterTypeCorrect == Spec => []TypeOK
<1>1. CounterInv => TypeOK
  BY DEF CounterInv
<1> QED BY <1>1, CounterAlways, PTL

(* For any rule, with a rate or without, and whatever the order of debits,  *)
(* successes and refunds, what is left and what is debited are together the *)
(* capacity at least (rate_state.rs:144-161).                               *)
THEOREM NothingIsWithheld == Spec => []NothingWithheld
<1>1. CounterInv => NothingWithheld
  BY DEF CounterInv
<1> QED BY <1>1, CounterAlways, PTL

(* A quota, a counter whose rule has no rate, is never exceeded: no order   *)
(* of concurrent debits and refunds lets more be used than its capacity     *)
(* (rate_state.rs:86-132).                                                  *)
THEOREM QuotaNotExceeded == PlainRule => (Spec => []WithinGrantedRate)
<1> SUFFICES ASSUME PlainRule PROVE Spec => []WithinGrantedRate
  OBVIOUS
<1>1. CounterInv => WithinGrantedRate
  <2> SUFFICES ASSUME CounterInv PROVE WithinGrantedRate
    OBVIOUS
  <2>1. /\ counter.balance + Spent = Rule.max_capacity /\ Spent \in Nat
        /\ counter.balance \in Nat /\ clock \in Nat /\ Rule.max_capacity \in Nat
    BY CounterTypes, AmountsAre DEF CounterInv
  <2>2. Rule.rate_per_micro * clock = 0
    BY <2>1 DEF PlainRule
  <2> QED BY <2>1, <2>2 DEF WithinGrantedRate
<1> QED BY <1>1, CounterAlways, PTL

----------------------------------------------------------------------------
(* The refinement.                                                          *)

LEMMA Projected ==
  ASSUME TypeOK, PlainRule
  PROVE  CalculateRefill(counter, clock, Rule) = counter.balance
BY CounterTypes, RefillAtLeast

LEMMA BucketStart == Init => Bucket!Init
<1> SUFFICES ASSUME Init PROVE CalculateRefill(counter, clock, Rule)
                                 = Rule.max_capacity
  BY DEF Bucket!Init
<1>1. TypeOK /\ counter.balance = Rule.max_capacity /\ clock \in Times
  BY CounterStart, CounterTypes DEF CounterInv, Init, FromRule
<1> QED BY <1>1, RefillAtLeast, AmountsAre

LEMMA BucketStep ==
  ASSUME PlainRule, CounterInv, CounterInv', [Next]_vars
  PROVE  [Bucket!Next]_(CalculateRefill(counter, clock, Rule))
<1> DEFINE t == CalculateRefill(counter, clock, Rule)
<1>1. t = counter.balance
  BY Projected DEF CounterInv
<1>2. t' = counter'.balance
  <2>1. (TypeOK /\ PlainRule => t = counter.balance)'
    BY Projected, PTL
  <2> QED BY <2>1 DEF CounterInv, PlainRule
<1>3. CASE UNCHANGED vars \/ Tick \/ \E a \in RequestAmounts : Keep(a)
  BY <1>1, <1>2, <1>3, TickStep, KeepStep DEF vars
<1>4. ASSUME NEW a \in RequestAmounts, NEW now \in 0..clock, Admit(a, now)
      PROVE  Bucket!Next
  <2>1. counter'.balance = counter.balance - a /\ a <= counter.balance
    BY <1>4, AdmitStep
  <2> QED BY <1>1, <1>2, <2>1 DEF Bucket!Next, Bucket!Take
<1>5. ASSUME NEW a \in RequestAmounts, GiveBack(a)
      PROVE  Bucket!Next
  <2>1. counter'.balance = IF counter.balance + a < Rule.max_capacity
                           THEN counter.balance + a ELSE Rule.max_capacity
    BY <1>5, GiveBackStep
  <2> QED BY <1>1, <1>2, <2>1 DEF Bucket!Next, Bucket!PutBack, Bucket!Full
<1> QED BY <1>3, <1>4, <1>5 DEF Next

(* A quota is the token bucket of the protocol document: every behaviour of *)
(* the counter is one of the bucket, seen through calculate_refill at the   *)
(* present time (rate_state.rs:60-161).                                     *)
THEOREM QuotaIsBucket == PlainRule => (Spec => ImplementsTokenBucket)
<1> SUFFICES ASSUME PlainRule PROVE Spec => ImplementsTokenBucket
  OBVIOUS
<1>1. CounterInv /\ CounterInv' /\ [Next]_vars
        => [Bucket!Next]_(CalculateRefill(counter, clock, Rule))
  BY BucketStep
<1> QED BY <1>1, BucketStart, CounterAlways, PTL
        DEF Spec, ImplementsTokenBucket, Bucket!Spec
=============================================================================
