SPECIFICATION Spec
CONSTANTS
  Price = {1, 2, 3}
  Amount = {0, 1, 3}
  MaxOrders = 4
INVARIANTS
  TypeOK
  LevelsWellFormed
  BestPriceFirst
  EarliestFirst
  NotCrossed
  AmountsConserved
  PartlyFilledLeads
  ReportedInOrder
PROPERTIES
  TradesByPriority
  HandlerEnds
