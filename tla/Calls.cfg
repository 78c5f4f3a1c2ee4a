SPECIFICATION CallsSpec
CONSTANTS
  v1 = v1
  v2 = v2
  Tools = {"comparison", "file", "entry", "archive", "document"}
  Versions = {v1, v2}
  Works = {0, 3, 20}
  LongestLookup = 2
  LongestFetch = 2
  WriteDeadline = 3
  AnswerTime = 1
  Deadline = 11
  a = a
  inA = inA
  b = b
  t = t
  u = u
  Paths = {a, inA, b}
  Above <- MCAbove
  Texts = {t, u}
  NoText = NoText
  NoPath = NoPath
INVARIANT SlownessIsNamed
INVARIANT WriteCostsNoAnswer
INVARIANT FetchIsCounted
INVARIANT HitIsReadBack
INVARIANT SameAnswer
INVARIANT AnswersWhatIsThere
INVARIANT WarmDownloadsNothing
PROPERTY EveryCallIsAnswered
CHECK_DEADLOCK FALSE
