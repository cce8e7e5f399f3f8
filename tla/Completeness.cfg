SPECIFICATION Spec
CONSTANTS
  c1 = c1
  c2 = c2
  Channels = {c1, c2}
  Sparten = {"STROM", "GAS"}
  Days <- MCDays
  DayStart <- MCDayStart
  DayEnd <- MCDayEnd
  Ticks <- MCTicks
  Tables <- MCTables
  LateRows <- MCLateRows
  Calls <- MCCalls
  Narrowings = {None, c1}
  Names = {"lastgang", "lastgang_resolved"}
  None = None
CHECK_DEADLOCK FALSE
INVARIANTS
  
  
  
  SilentExactlyOnce
