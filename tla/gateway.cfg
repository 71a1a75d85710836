CONSTANTS
  c1 = c1  c2 = c2  g1 = g1  g2 = g2  s1 = s1  s2 = s2
  Asset = {a1}
  Symlink = {s1, s2}
  Group = {g1, g2}
  Folder = {f1}
  Client = {c1, c2}
  Member <- Members
  Ops = {"asset", "folder", "move", "borrow", "delete", "purge", "delete asset",
         "delete raw", "update", "policy"}
  MaxRequests = 1
  MaxLapses = 1
  Levels = {"none", "open"}
  Everyone = Everyone
  NoGroup = NoGroup
  NoItem = NoItem
SPECIFICATION Spec
INVARIANTS TypeOK OwnerFollowsItem NothingLeftBehind PoliciesFollowSymlinks
PROPERTY PurgeIsComplete
SYMMETRY Symlinks
