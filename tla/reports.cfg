SPECIFICATION Spec
CONSTANTS
  p1 = p1
  p2 = p2
  butter = butter
  oil = oil
  Products = {p1, p2}
  Sales = {1, 2, 3, 4}
  Category <- MCCategory
  Milli = 2
  Day = 8
  Days = 1
  Now = 28
  Requests <- MCRequests
  InitialTables <- MCInitialTables
  MaxChanges = 3
  AnyCategory = AnyCategory
INVARIANTS KeptReportedWhole ComparedOnce ChartComplete
CHECK_DEADLOCK FALSE
