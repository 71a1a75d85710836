CONSTANTS
  c1 = c1  c2 = c2  s1 = s1  s2 = s2
  Deployment = {"platform", "portal", "application"}
  Storage <- Storages
  Ops <- Operations
  MaxFlows <- Logins
  Id = {i1, i2}
  LocalId = i1
  Session = {s1, s2}
  Flow = {f1, f2}
  Call = {c1, c2}
  MaxGen <- Gens
  MaxEnv = 1
  NoId = NoId
  NoTok = NoTok
  Refused = Refused
SPECIFICATION Spec
INVARIANTS TypeOK ReachableBySession FlowUsedOnce FileIsASnapshot
PROPERTY PlatformForgets
SYMMETRY Symmetric
