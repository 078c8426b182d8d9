SPECIFICATION Spec
CONSTANTS
  Inits = {"init1", "init2", "init3"}
  MaxTime = 2
  MaxReports = 2
  Events = {1, 2, 3}
  Holders = {"first", "second"}
  Locations = {1, 2, 3, 4}
  Capacity = 2
  Names = {"address", "street", "number", "city", "name"}
  Scenarios <- AllScenarios
  Dates = {1, 2}
CHECK_DEADLOCK FALSE
INVARIANTS TypeOK PayloadsIntact OutputComplete RedactionExact StreamInitsReportedOnce IntervalsFit
PROPERTIES NoSharedWrites OperationsAreAtomic
