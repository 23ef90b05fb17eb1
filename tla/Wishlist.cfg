SPECIFICATION FairSpec
CONSTANTS
  u1 = u1
  u2 = u2
  w1 = w1
  w2 = w2
  Users <- MCUsers
  SettingsUsers <- MCSettingsUsers
  Workers <- MCWorkers
  Max = 6
INVARIANT ToldOnce
PROPERTIES CandidatesAreTold ChoiceKept
CHECK_DEADLOCK FALSE
