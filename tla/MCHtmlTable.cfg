SPECIFICATION Spec
CONSTANTS
  Names <- SomeNames
  MaxElements = 3
  Slots = 2
  MaxWaiting = 2
INVARIANTS TypeOK WellFormed EveryRowOnce NamesInOrder GraphvizDialect HeadersRead
CHECK_DEADLOCK FALSE
