SPECIFICATION LazySpec
CONSTANTS
  LazyThread = {t1, t2}
  StoreOrder = FALSE
INVARIANT UseComplete
