SPECIFICATION Spec
CONSTANTS
  t1 = t1
  t2 = t2
  c0 = c0
  c1 = c1
  Tasks = {t1}
  LunOf <- OneTask
  MaxLun = 0
  Blocks = 2
  Contents = {a, b}
  Capacity <- TwoCapacities
  InquiryData = inquiry
  Junk = junk
  NoTask = NULL
  MaxRead = 1
  MaxWrite = 1
  MaxSlow = 1
  MaxNoMem = 0
  MaxBacklog = 9
  Unpluggable = FALSE
  Rejects = FALSE
INVARIANT ReadTruthful
