SPECIFICATION WiFiSpec
CONSTANTS
  Starters = {t1, t2}
INVARIANTS
  DefaultIsThere
  EnabledStaysOn
CHECK_DEADLOCK FALSE
