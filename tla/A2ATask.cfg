SPECIFICATION A2AFairSpec
CONSTANTS
  Jobs = {j1, j2}
  TaskIds = {a, b}
  Submissions = {u1, u2}
  NoTask = NoTask
  NoJob = NoJob
  ChannelCap = 1
  MaxPolls = 1
INVARIANTS
  ArtifactIsEarned
PROPERTIES
  OverIsFinal
  SubmittedSettles
