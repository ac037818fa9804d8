SPECIFICATION FairSpec
CONSTANTS
  p1 = p1  p2 = p2  p3 = p3
  NoClient = NoClient
  Clients = {p1, p2, p3}
  Collections <- MCCollections
  Ids = {1, 2}
  Vals = {1, 2}
  MayCall <- MCMayCall
INVARIANT TypeOK
PROPERTIES ImplementsAtomicStore EveryCallReturns
