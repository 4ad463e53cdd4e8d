SPECIFICATION BothSpec
CONSTANTS
  w1 = w1
  w2 = w2
  p1 = p1
  Event = {1, 2}
  KindOf <- MCKindOf
  Artifacts = 1
  Process = {p1}
  ProcessOf <- MCProcessOf
  MaxRestarts = 0
  Relay = {w1}
  Mailer = {w2}
  BatchSize = 2
  MaxAttempts = 2
  Nobody = Nobody
  MaxFaults = 1
  p2 = p2
  Render = {1, 2}
  Export = {3, 4}
  Project = {p1, p2}
  ProjectOf <- MCProjectOf
  Batch = 1
  Encoding = {mp4}
  RenderWorker = {w1, w2}
  ExportWorker = {x1}
  Client = {c1, c2}
  NoLessee = NoLessee
  Nothing = Nothing
  MaxMishaps = 1
  MaxDownloads = 1
INVARIANTS
  ProjectedOnce
  StampedMeansProjected
  NoMailLost
  OutputBehindSuccess
  OneActiveExport
  StrandedByFault
PROPERTIES
  EveryEventSettles
  JobsFollowLifecycle
  QueuedRenderIsTaken
