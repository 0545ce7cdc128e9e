\* A client reads a list while requests make records, payments move, forwards
\* are recorded and the process restarts.
SPECIFICATION RecordsSpec
CONSTANTS
  None = None
  p1 = p1
  p2 = p2
  p3 = p3
  o1 = o1
  o2 = o2
  a1 = a1
  a2 = a2
  Payments = {p1, p2, p3}
  Offers = {o1, o2}
  Addresses = {a1, a2}
  Queries <- AnyQuery
  Makes <- AnyMake
  OldPayments <- Kept
  MaxSeconds = 1
  Arrivals <- New
  MaxChanges = 3
SYMMETRY Symmetric
INVARIANTS RecordsTypeOK NothingSkipped ForwardsInOrder EachListedOnce
           AnswerMatchesStores
