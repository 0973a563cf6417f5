SPECIFICATION ServerSpec
CONSTANTS
  Ids = {"t", "d"}
  TypeOf <- MCTypeOf
  Datagrams <- MCDatagrams
  StatusMetrics = TRUE
  ExpireAfter = 2
  Frequency = 1
  MeterTtl = 6
  MaxStall = 1
INVARIANT RecordsReachRegistry
