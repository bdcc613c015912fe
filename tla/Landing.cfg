\* main moves once while the unit lands, with or without a change; the policy's
\* single repair and two reruns, and any number of crashes, failures and pauses.
CONSTANTS
  Content = {old, new}
  MaxMain = 2
  Check = {tests, raceTests}
  CiFixRounds = 1
  InfrastructureReruns = 2
SPECIFICATION MCSpec
INVARIANTS
  RefusesOnlyUnfinishedWork
  AttemptsAreBounded
PROPERTIES
  LandsWhatItChecked
  ComesToRest
\* A refused landing waits for its user.
CHECK_DEADLOCK FALSE
