\* Two workers, a budget smaller than the list of candidates; the pool stops at
\* the first valid credential or not.
CONSTANTS
  NumCreds = 5
  Users <- MCUsers
  UserOf <- MCUserOf
  MaxConcurrency = 2
  MaxAttempts = 4
  HasDeadline = TRUE
SPECIFICATION FairSpec
INVARIANTS
  TypeOK
  BudgetRespected
  NothingSkipped
  ReportExact
  LateAttemptsBounded
PROPERTY
  DetectReturns
