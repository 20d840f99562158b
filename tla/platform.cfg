SPECIFICATION Spec
CONSTANTS
  Texts = {p, q}
  Layers <- TwoLayers
  MaxToolCalls = 1
  MaxLogFaults = 1
  Files = {f}
  Pieces = {a, b}
  MaxEdits = 2
  MaxOutside = 1
  PoolSize = 3
  MaxRetries = 2
  MaxRedirects = 1
  MaxDeltas = 2
  MaxCalls = 2
  Providers = {anthropic, openai}
  First = anthropic
  Keys = {k}
  Names = {n}
  Ids = {e}
  MaxRequests = 2
  DefaultLimit = 1
  MaxAsked = 2
  ListLimit = 1
  MaxRecords = 2
  Updaters = {u1, u2}
  Prereleases = {2}
  Instances = {i1, i2}
  MaxVersion = 3
  MaxFaults = 1
  MaxSockets = 2
  MaxPosts = 3
  MaxUpsets = 2
  Workspaces = {1, 2}
  MaxTurns = 2
  MaxScans = 2
  MaxMoves = 2
  Scopes <- TwoScopes
  Secrets = {q}
  Mask = masked
  Scribes = {w1, w2}
  MaxOps = 3
  MaxMishaps = 1
INVARIANTS GovernanceHolds    RunIsHonest InstallIsWhole AppIsNeverLost  
 
CONSTRAINT Bounds
VIEW View
CHECK_DEADLOCK FALSE
