SPECIFICATION Spec
CONSTANTS
  Thread = {t1, t2}
  NoThread = NoThread
  Entry = {a, b}
  NoEntry = NoEntry
  UShort = 3
  FlushAlone = FALSE
PROPERTIES RefinesStack
