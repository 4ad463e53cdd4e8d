SPECIFICATION DeskSpec
CONSTANTS
  Client = {c1, c2}
  Generation = {g1}
  Key = {x, y}
  Look = {x, y}
  Nothing = Nothing
  Kinds <- TwoKinds
  Cap <- OneOfEach
  MaxVersion = 3
  Item = {i1, i2, i3}
  Preview = {thumb, gif}
  Thumbnail = thumb
  Video = Video
  Film = {Video}
  Title = {reel, still}
  LibraryCalls = 2
  AccountCalls = 6
  MaxPatches = 1
  Claim <- AllDone
  MaxFailures = 1
  STEP = 2
  MaxEdits = 4
  MaxVersions = 3
  Author = {c1, c2}
  Scene = {i1, i2, i3}
  Text = {x, y}
  Track = {t1, t2}
  Clip = {clip}
  ZIndex = {1, 2}
  Cut = {1, 2}
  NoEdit = NoEdit
INVARIANTS
  OnlyRacesHurt
  OnceWon
  WorldsHold
  LedgerIsTrue
PROPERTIES
  EditsWhatWasSeen
  EnrichmentIsHonest
  TokenNamesContent
  MovesAsAsked
SYMMETRY Symmetry
CHECK_DEADLOCK FALSE
