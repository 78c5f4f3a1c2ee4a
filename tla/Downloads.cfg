SPECIFICATION FairSpec
CONSTANTS
  s1 = s1
  s2 = s2
  s3 = s3
  a1 = a1
  a2 = a2
  pypi = pypi
  other = other
  Searches = {s1, s2, s3}
  Archives = {a1}
  Urls = {pypi}
  Slots = 1
  SlotWait = 1
  UpstreamTimeout = 2
  FreshFor = 3
  NoTask = NoTask
  NoUrl = NoUrl
INVARIANT NoSlotLeaks
INVARIANT FetchesOnlyWhatIsNotHeld
INVARIANT WaitsATurnAndAFetch
INVARIANT RefusedOnlyBehindALine
PROPERTY EveryDownloadEnds
