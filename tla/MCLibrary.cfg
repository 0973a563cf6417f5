SPECIFICATION LibrarySpec
CONSTANTS
  LibraryParts = {"counter", "maxgauge", "dist", "mono", "uint", "sampled", "http", "tags", "lines", "payload", "buffer", "buckets", "admin", "t", "d"}
  Adders = {a1}
  Measurers = {sender}
  Deltas <- MCDeltas
  MaxAdds = 6
  Updaters = {u1, u2, u3}
  Values = {0, 1, 2, 3}
  kMinValue = 0
  MaxUpdates = 4
  Recorders = {r1, r2}
  Amounts <- MCDeltas
  MaxRecords = 3
  MonoAmounts = {0, 1, 3, 4}
  NaN = NaN
  MonoFalling = TRUE
  MaxMonoSets = 6
  Modulus = 8
  kOverflow = 4
  NoDelta = NoDelta
  SetFirst = TRUE
  MaxUintSets = 4
  SampledAmounts = {0, 1, 3}
  SampledTimes = {1, 2, 3}
  NotANumber = NotANumber
  MaxSampledSets = 5
  ConnectTimeout = 2
  ReadTimeout = 3
  Delay = 1
  BackoffUnit = 1
  TagSlots = {"x", "y"}
  TagKeys = {1, 2, 3, 4}
  TagValues = {1, 3}
  AtlasChars <- MCAtlasChars
  kSmallTags = 1
  TagGrowth = 1
  Symbols = {"a", "b", ",", "="}
  MaxTextLength = 9
  Measured <- MCMeasured
  CommonTags <- MCCommonTags
  AddStats = {"count"}
  MaxBatch = 2
  LowBits = 3
  HighBits = 1
  ChunkIn = 1
  OutSize = 1
  ChunkOut = 2
  MaxBytes = 4
  MaxAppend = 2
  MaxUnit = 2
  MaxPayloads = 2
  Width = 12
  allowed_tags = {"mantisUser", "mantisJobId"}
  AdminTags = {"mantisUser", "mantisJobId", "nf.app"}
  AdminValues = {"x", "", "number"}
  StartTags <- MCStartTags
  Ids = {"t", "d"}
  TypeOf <- MCTypeOf
  Datagrams <- MCDatagrams
  StatusMetrics = TRUE
  ExpireAfter = 4
  Frequency = 2
  MeterTtl = 10
  MaxStall = 1
INVARIANTS
  LibraryTypeOK
  CountConserved ValueIsTheMaximum QuietIsExact MonoNeverOverReports UintNeverOverReports SampledNeverOverReports
  BodyMatchesStatus ReadTimeoutIsFinal AttemptsLogged RequestBounded
  TagsEqualIffSame LineRoundTrip PayloadDecodes BufferDelivers BucketBounds
  EntryAliveWhileUsed LinesAccounted StopBounded
PROPERTIES
  ImplementsFetchAdd ImplementsTagMap ResolverRecovers
  ChangesWholeOrNothing ExpiryLeavesFedEntries
