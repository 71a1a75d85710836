CONSTANTS
  c1 = c1  c2 = c2  s1 = s1  s2 = s2
  Deployment = {"application"}
  Storage <- LocalStorage
  Ops <- LocalOperations
  MaxFlows <- NoLogin
  Id = {i1, i2}
  LocalId = i1
  Session = {s1, s2}
  Flow = {f1}
  Call = {c1, c2}
  MaxGen <- Gens
  MaxEnv = 1
  NoId = NoId
  NoTok = NoTok
  Refused = Refused
SPECIFICATION Spec
PROPERTY ApplicationForgets
