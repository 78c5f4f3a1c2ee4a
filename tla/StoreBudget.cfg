SPECIFICATION FairSpec
CONSTANTS
  c1 = c1
  c2 = c2
  k1 = k1
  k2 = k2
  k3 = k3
  k4 = k4
  i1 = i1
  i2 = i2
  i3 = i3
  i4 = i4
  Calls = {c1}
  Keys = {k1, k2, k3, k4}
  Ids = {i1, i2, i3, i4}
  Omitting <- FirstOnly
  DiffId <- MCDiffId
  MetaBytes <- BigFirst
  PatchesBytes <- Ones
  OverPatchCap <- Nobody
  EntryCap = 2
  MaxBytes = 6
  TargetBytes = 4
  Modes = {"compare", "uncached"}
  Replaces = FALSE
  Faults = {"put", "head", "list", "delete", "time", "compute"}
  MaxStarts = 5
  MaxLate = 0
INVARIANT WithinBudget
INVARIANT RecomputesOnlyWhatIsNotHeld
PROPERTY EvictsOldestWhole
PROPERTY EveryCallAnswered
