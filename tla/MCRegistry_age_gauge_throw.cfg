SPECIFICATION Spec
CONSTANTS
  counter = counter
  timer = timer
  gauge = gauge
  age1 = age1
  age2 = age2
  sampled = sampled
  o1 = o1
  o2 = o2
  o3 = o3
  o4 = o4
  o5 = o5
  Keys = {age1}
  TypeOf <- MCTypeOf
  Objs = {o1, o2, o3}
  None = None
  Pinned <- PinNothing
  RegistrySize = None
  Clients = {io}
  AgeClients = {io}
  Admins = {adm}
  AgeGaugeLimit = 1
  MeterTtl = 1
  DefaultGaugeTtl = 1
  GaugeTtls = {0}
  MinTtl = 1
  ExpirationFrequency = 1
  MaxTime = 0
SYMMETRY AllObjs
INVARIANTS GetAgeGaugeDoesNotThrow
CHECK_DEADLOCK FALSE
