CONSTANTS
  Calls = {c1, c2, c3}
  Contracts = {v1, v2}
  Expected = v1
  CacheTtl = 2
  QuoteTtl = 1
  TokenLives = {2, 4, 9}
  AuthorizedUntil = 4
  MaxTime = 5
SPECIFICATION Spec
SYMMETRY MCSymmetry
INVARIANTS AnswersAreFresh PostsWithValidAcceptances OutcomeIsTrue
CHECK_DEADLOCK FALSE
