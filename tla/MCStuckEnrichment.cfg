SPECIFICATION Spec
CONSTANTS
  Client = {c1}
  Worker = {w1}
  Preview = {thumb, gif}
  Note = {x}
  Thumbnail = thumb
  Video = Video
  Nobody = Nobody
  Claim = {}
  MaxPatches = 0
  MaxFailures = 1
PROPERTIES
  EnrichmentConverges
CHECK_DEADLOCK FALSE
