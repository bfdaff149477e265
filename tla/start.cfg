SPECIFICATION Spec
CONSTANTS
  Starters = {t1, t2}
  MaxStarts = 2
  Once = {t2}
  Nums = {1}
  MayDefer = TRUE
  MayTimeOut = TRUE
  MayBreak = TRUE
  MaxCloses = 1
INVARIANTS ReturnedUsable SameChannels Referenced
PROPERTIES StartReturns
CHECK_DEADLOCK FALSE
