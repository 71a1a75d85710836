CONSTANTS
  a1 = a1  a2 = a2
  Asset = {a1, a2}
  Kind <- DataAndPackage
  Worker = {w1, w2}
  Waiter = {x1}
  Browser = {b1}
  MaxQueue = 1
  MaxReload = 1
  NoAsset = NoAsset
SPECIFICATION FairSpec
INVARIANTS TypeOK MarksAreLive MarkedIsUsable
PROPERTY QueueIsServed
CONSTRAINT TwoAtOnce
