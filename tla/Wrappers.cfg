SPECIFICATION WrappersSpec
CONSTANTS
  FF_VOLUMES = 3
  MaxLUN = 1
  Units = {0, 1, 2}
  Paths = {p1, p2, p3}
  NoPath = NoPath
  MaxCreated = 2
  Callers = {c1, c2}
  internalTask = internalTask
  Nobody = Nobody
  Versions = {1, 2}
  Erased = 0
  MaxUpdates = 3
  Width = 8
  Counts = {1, 2}
  MaxBus = 3
  I2cCallers = {t1, t2}
  Room = 3
  LastAddress = 2
  Keys = {k1, k2}
  Texts = {k1}
  Nothing = Nothing
  MaxLog = 3
  RingSize = 4
  QueueSize = 3
  MaxChunk = 2
  MaxDrivers = 2
  Waiters = {w1, w2}
  MaxSyncs = 3
INVARIANTS
  MountedReachesUnit
  TasksAccounted
  OneUser
  RolledBackRefused
  SensorsHaveRoom
  LinksAccounted
  AnnouncedIsThere
  EthReleased
  ReportedOnce
PROPERTIES
  VolumesUnlessMisled
  YieldsGoOn
  DumpComplete
  RemoveRemoves
CHECK_DEADLOCK FALSE
