SPECIFICATION Spec
CONSTANTS
  Requests = {r1, r2}
  Loops = {l1, l2}
  ProcessOf <- LoopsElsewhere
  Configs = {c1, c2}
  Warm = Warm
  Nobody = Nobody
  Snapshots = {n1}
  NoSnapshot = NoSnapshot
  MaxBoxes = 3
  MaxTarget = 1
  LoopKey = "tag"
SYMMETRY Sym
CONSTRAINTS PoolOrSnapshots TwoAtWork ThirdBesideLoop
CHECK_DEADLOCK FALSE
INVARIANT OverfillIsBounded
PROPERTIES ClaimIsExclusive StorageComesFirst RowsFollowArtifacts
