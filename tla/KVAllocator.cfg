\* The mode the model runner uses: one KV index per page, sorted lists.
CONSTANTS
  Size = 4
  PageSize = 1
  NeedSort = TRUE
  Callers = {r1, r2}
SPECIFICATION MCSpec
INVARIANTS
  TypeOK
  OneHome
  NoneMeansExhausted
PROPERTIES
  OwnershipSpec
  PagedOwnership
