CONSTANTS
  Node = {1, 2, 3, 4, 10, 11, 20, 21, 22, 23}
  M = 2
  Contact = 1
  Starts <- TreeStarts
SPECIFICATION Spec
CHECK_DEADLOCK FALSE
CONSTRAINT FewMessages
INVARIANT TreeIsSound TransactionsSettle
PROPERTY ComesToRest
