CONSTANTS
  r1 = r1  t1 = t1
  Uid = {u1, u2}
  Version = {1}
  InContainer = {}
  Config = {k1, k2}
  Default = k1
  Partition = {pd, p1}
  DefaultPartition = pd
  Port = {2010, 2011}
  Starter = {r1}
  Ender = {t1}
  Ops = {"ensure", "graph", "terminate", "uninstall", "develop", "serve"}
  MaxEnv = 1
  MaxTimeouts = 1
  MaxRunSteps = 1
  NoUid = NoUid
  NoConfig = NoConfig
SPECIFICATION Spec
INVARIANTS TypeOK Accounted
PROPERTIES AnsweredItself ServesOnce
CHECK_DEADLOCK FALSE
