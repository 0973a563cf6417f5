SPECIFICATION Spec
CONSTANTS
  counter = counter
  timer = timer
  gauge = gauge
  age1 = age1
  age2 = age2
  sampled = sampled
  o1 = o1
  o2 = o2
  o3 = o3
  o4 = o4
  o5 = o5
  Keys = {counter, timer, age1, age2}
  TypeOf <- MCTypeOf
  Objs = {o1, o2, o3, o4, o5}
  None = None
  Pinned <- PinCounter
  RegistrySize = counter
  Clients = {io}
  AgeClients = {io}
  Admins = {adm}
  AgeGaugeLimit = 1
  MeterTtl = 0
  DefaultGaugeTtl = 1
  GaugeTtls = {0}
  MinTtl = 1
  ExpirationFrequency = 0
  MaxTime = 1
SYMMETRY FreeObjs
INVARIANTS AgeGaugeLimitRespected OnlyDeletableLeave
CHECK_DEADLOCK FALSE
