SPECIFICATION Spec
CONSTANTS
  n1 = n1  n2 = n2  k1 = k1  k2 = k2  d1 = d1  d2 = d2
  NoPosition = NoPosition
  Nodes = {n1}
  Kinds = {k1}
  Destinations = {d1, d2}
  KindOf <- OneKind
  Churn = {d1, d2}
  Backfill = {}
  PageSize = 1
  Parts = {"retention", "failure"}
  MaxXid = 2
  MaxSeq = 2
SYMMETRY DestinationSymmetry
INVARIANT TypeOK
INVARIANT NoGap
PROPERTY RetentionKeepsUnfinished

