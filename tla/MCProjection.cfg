SPECIFICATION FairSpec
CONSTANTS
  e1 = e1  e1x = e1x  e2 = e2  f1 = f1  f2 = f2
  ga = ga  gb = gb
  Consumer = {c1}
  Aggregate = {ga, gb}
  Event = {e1, e1x, e2, f1, f2}
  Readable = {e1, e1x, f1, f2}
  AggregateOf <- Owners
  SequenceOf <- Positions
INVARIANTS AppliedInOrder CurrentIsComplete LocalWorkInOrder
PROPERTIES EvidenceIsKept ImplementsFeed CatchesUp
