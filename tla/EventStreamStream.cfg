SPECIFICATION LiveSpec
CONSTANTS
  n1 = n1  n2 = n2  k1 = k1  k2 = k2  d1 = d1  d2 = d2
  NoPosition = NoPosition
  Nodes = {n1, n2}
  Kinds = {k1}
  Destinations = {d1}
  KindOf <- OneKind
  Churn = {}
  Backfill = {k1}
  PageSize = 1
  Parts = {"reader"}
  MaxXid = 2
  MaxSeq = 2
INVARIANT ReaderMissesNothing
PROPERTY EveryEventOffered

