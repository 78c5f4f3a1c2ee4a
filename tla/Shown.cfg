SPECIFICATION ShownSpec
CONSTANTS
  s1 = s1
  s2 = s2
  s3 = s3
  mid = mid
  large = large
  new1 = new1
  new2 = new2
  Items = {s1, s2, s3, mid, large, new1, new2}
  Bytes <- MCBytes
  Starts <- MCStarts
  Limits = {0, 1, 4}
  NoLimit = NoLimit
  DefaultLimit = 2
  MaxLimit = 3
  Ceiling = 8
  MaxChanges = 2
  Walk = Walk
  Questions <- MCQuestions
  WantsInTurn <- MCWantsInTurn
  Chars <- MCChars
  Raw <- MCRaw
  EncodedCost <- MCCost
  Patches <- MCPatches
  Contexts = {0, 1, 2}
  Full = Full
  MaxBytes = {0, 2, 8, 40}
  TextCeiling = 30
  MarkerReserve = 4
  MarkerCost = 4
  MaxLines = 5
  Entries <- MCEntries
  Trees <- MCTrees
  Depths = {0, 1, 2}
  AllTheWay = 9
  MostChanged = 2
  Spellings <- MCSpellings
  Dates = {1, 2}
  None = None
  Unset = Unset
  Capitals = {1}
  SmallOf <- MCSmallOf
  Wants = {1, 2, 3}
  PageRoom = 2
  AnswersMost = 3
  Names = {"a name", "another"}
  Builds = {"this", "other"}
  ThisBuild = "this"
  Ours = {"npm", "go"}
  Unknown = "unknown"
  Base = 4
  Kept = 2
  Places = 3
  Whole = 2
  MostPlaces = 140
  ReadAs <- MCReadAs
  PathChars = {"/", "%", "file", "2", "5"}
  Hex = {"2", "5"}
  PercentCode <- MCPercentCode
INVARIANT UnchangedListIsReadOnce
INVARIANT MissesOnlyAfterARemoval
INVARIANT RepeatsOnlyAfterAPublication
PROPERTY WalkEnds
INVARIANT PatchApplies
INVARIANT FitsAndGoesOn
INVARIANT LessIsTrueOfTheWhole
INVARIANT VersionsAreTheRegistrys
INVARIANT NothingBetterIsPassedOver
INVARIANT HandlesNameOneComparison
INVARIANT LinksLeadToThemselves
