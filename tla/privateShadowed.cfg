SPECIFICATION Spec
CONSTANTS
  Inits = {"init1"}
  MaxTime = 1
  MaxReports = 1
  Events = {1}
  Holders = {"first", "second"}
  Locations = {1, 2, 3, 4}
  Capacity = 2
  Names = {"address", "street", "number", "city", "name"}
  Scenarios <- RedactionScenarios
  Dates = {1, 2}
CHECK_DEADLOCK FALSE
INVARIANTS PrivateAttributesNotSent
