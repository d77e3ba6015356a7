SPECIFICATION FairSpec
CONSTANTS
  t1 = t1
  t2 = t2
  c0 = c0
  c1 = c1
  Tasks = {t1, t2}
  LunOf <- SameVolume
  MaxLun = 0
  Blocks = 2
  Contents = {a}
  Capacity <- TwoCapacities
  InquiryData = inquiry
  Junk = junk
  NoTask = NULL
  MaxRead = 1
  MaxWrite = 1
  MaxSlow = 1
  MaxNoMem = 0
  MaxBacklog = 1
  Unpluggable = FALSE
  Rejects = TRUE
INVARIANT
  PipeInSync
PROPERTY
  RequestsReturn
\* MaxBacklog ends the calls.
CHECK_DEADLOCK FALSE
