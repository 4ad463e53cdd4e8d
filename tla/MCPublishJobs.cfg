SPECIFICATION FairSpec
CONSTANTS
  Publish = {1}
  Project = {p1}
  Source = {s1}
  Batch = 1
  Account = {a1}
  MaxConnects = 2
  Worker = {w1, w2}
  Nobody = Nobody
  Nothing = Nothing
  MaxAttempts = 2
  MaxFaults = 1
INVARIANTS
  NeverDoublePost
  AttemptBudget
  StrandedByFault
PROPERTIES
  PublishFollowsLifecycle
  QueuedPublishIsTaken
