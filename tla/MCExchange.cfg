SPECIFICATION ExchangeSpec
CONSTANTS
  MaxDeltas = 2
INVARIANTS DeadlinesDoNotPenalize
CHECK_DEADLOCK FALSE
