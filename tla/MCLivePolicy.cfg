SPECIFICATION Spec
CONSTANTS
  Names <- MCNames
  PermsOf <- MCPermsOf
  DriverOf <- MCDriverOf
  Stock <- MCStock
  Daemons = {"d1", "d2"}
  Targets = {"n1", "n2"}
  LoadRules <- MCLoadRules
  Readers = {"r1"}
  Queries <- MCQueries
  Texts <- MCTexts
  TooLong <- MCTooLong
  MaxStmts = 6
  MaxRequests = 2
  MaxFaults = 1
CHECK_DEADLOCK FALSE
INVARIANTS ReadersSafe LoansAccounted CacheFresh SuccessInForce
PROPERTY WholeRequest
