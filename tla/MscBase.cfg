SPECIFICATION FairSpec
CONSTANTS
  t1 = t1
  t2 = t2
  c0 = c0
  c1 = c1
  Tasks = {t1}
  LunOf <- OneTask
  MaxLun = 1
  Blocks = 2
  Contents = {a, b}
  Capacity <- TwoCapacities
  InquiryData = inquiry
  Junk = junk
  NoTask = NULL
  MaxRead = 1
  MaxWrite = 2
  MaxSlow = 0
  MaxNoMem = 0
  MaxBacklog = 9
  Unpluggable = TRUE
  Rejects = FALSE
INVARIANTS
  TypeOK
  PipeInSync
  ExchangeConservation
  ReadyMeansEnumerated
  ReadTruthful
  WriteTruthful
PROPERTIES
  ImplementsBlockDevice
  EnumerationCompletes
  RequestsSucceed
\* An unplugged disk leaves nothing to do.
CHECK_DEADLOCK FALSE
