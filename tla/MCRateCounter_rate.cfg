\* The granted rate, which the code exceeds: last_refill_micros never moves.
SPECIFICATION Spec
CONSTANTS
  MaxI64 = 7
  MaxU64 = 15
  Rule <- Slow
  RequestAmounts = {1, 2}
  MaxTime = 2
  MaxCalls = 4
INVARIANT WithinGrantedRate
CHECK_DEADLOCK FALSE
