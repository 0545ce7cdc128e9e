\* A counter that never refills: it is the token bucket, to the token.
SPECIFICATION Spec
CONSTANTS
  MaxI64 = 7
  MaxU64 = 15
  Rule <- PlainQuota
  RequestAmounts = {1, 2, 9}
  MaxTime = 3
  MaxCalls = 5
INVARIANTS TypeOK NothingWithheld WithinGrantedRate
PROPERTY ImplementsTokenBucket
CHECK_DEADLOCK FALSE
