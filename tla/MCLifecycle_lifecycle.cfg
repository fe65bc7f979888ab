CONSTANTS
  u1 = u1
  Updates = {u1}
  Values <- AllSaves
  Absent = Absent
  Torn = Torn
  Requests = {r1}
  Configs <- AllCommands
  MaxStarts = 2
SPECIFICATION Spec
INVARIANTS TypeOK ConfirmedIsKept LitterIsFromDeaths QuietExitNeedsSignal RequestsKeepTheirClient
PROPERTIES AckedBeforeStopIsSaved StopsUnlessMissed FileIsAtomic
CHECK_DEADLOCK FALSE
