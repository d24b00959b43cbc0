SPECIFICATION CorsSpec
CONSTANTS
  MaxId = 3
  Names = {1, 2}
  Requests = {r1, r2}
  Callers <- MCCallers
  Scenes <- MCScenes
  Crowded <- MCCrowded
  Batched <- MCBatched
  MaxOps = 2
  Seeded = 2
  Paged = {"allowed_origins", "groups"}
  PageSize = 1
  Lookups = {l1}
  OtherProcesses = TRUE
  Ttl = 2
  MaxTime = 3
SYMMETRY Sym
CONSTRAINT PagingOrCaching
INVARIANTS TypeOK LlmsUseOwnConnections AloneNeverFails PagesCoverStableRows CorsStaleByAtMostTtl
PROPERTIES EffectsAreGranted PatchesKeepOtherColumns
