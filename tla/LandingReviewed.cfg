\* main moves twice, the second time without a change to its content.
CONSTANTS
  Content = {old, new}
  MaxMain = 3
  Check = {tests, raceTests}
  CiFixRounds = 1
  InfrastructureReruns = 1
SPECIFICATION Spec
INVARIANT OnlyReviewedTreesLand
CHECK_DEADLOCK FALSE
