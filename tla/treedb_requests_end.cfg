CONSTANTS
  c1 = c1  c2 = c2
  d1 = d1  d2 = d2  f1 = f1  f2 = f2  i1 = i1  i2 = i2  g1 = g1  g2 = g2
  Drive = {d1, d2}
  Folder = {f1, f2}
  Item = {i1}
  Group = {g1, g2}
  FirstGroup <- TwoDrives
  DriveGroups <- OwnGroup
  Client = {c1}
  Ops <- OpNames
  Known = {}
  FirstDrives = {}
  DefaultDrive = d1
  DefaultGroup = g1
  DefaultParent <- DefaultFolder
  NoDoc = NoDoc
  NoId = NoId
SPECIFICATION FairSpec
PROPERTY RequestsEnd
