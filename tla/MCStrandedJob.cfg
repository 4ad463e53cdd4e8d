SPECIFICATION UncrashedSpec
CONSTANTS
  Render = {1}
  Export = {2}
  Project = {p1}
  ProjectOf <- OneProject
  Batch = 1
  Encoding = {mp4}
  RenderWorker = {w1}
  ExportWorker = {x1}
  Client = {c1}
  NoLessee = NoLessee
  Nothing = Nothing
  MaxMishaps = 1
  MaxDownloads = 0
PROPERTIES
  EscapedIsRetried
