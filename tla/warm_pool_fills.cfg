SPECIFICATION RefreshSpec
CONSTANTS
  Requests = {r1}
  Loops = {loop}
  ProcessOf <- OneProcess
  Configs = {c1}
  Warm = Warm
  Nobody = Nobody
  Snapshots = {n1}
  NoSnapshot = NoSnapshot
  MaxBoxes = 3
  MaxTarget = 2
  LoopKey = "uuid"
PROPERTY WarmPoolFills
