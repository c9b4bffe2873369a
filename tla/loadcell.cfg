CONSTANTS
  Width = 2
  Readings = 3
  Orders <- SomeOrders
  MaxCuts = 2
SPECIFICATION Spec
INVARIANTS TypeOK ReadingIsOfInput LastIsLatest AverageIsOfReadings
