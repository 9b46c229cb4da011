SPECIFICATION ProgramsSpec
CONSTANTS
  FlushAt = 2
  MaxWrites = 3
  Symbol = {1, 2, 3}
  Earlier <- NoneOrThree
  MaxOrders = 3
  NumOfOrders <- AllOrSome
  num_of_threads_ = 2
  Servers = 2
INVARIANTS
  PostedOnce
  NothingLeftBehind
  EveryTradeStored
  SymbolsInOrder
  PlacedAsGenerated
PROPERTIES
  EveryEntityPosted
  DestructorEnds
\* The programs end.
CHECK_DEADLOCK FALSE
