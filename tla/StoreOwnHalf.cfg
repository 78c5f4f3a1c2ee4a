SPECIFICATION Spec
CONSTANTS
  c1 = c1
  c2 = c2
  k1 = k1
  k2 = k2
  k3 = k3
  k4 = k4
  i1 = i1
  i2 = i2
  i3 = i3
  i4 = i4
  Calls = {c1}
  Keys = {k1, k2, k3, k4}
  Ids = {i1, i2, i3, i4}
  Omitting <- Nobody
  DiffId <- MCDiffId
  MetaBytes <- Ones
  PatchesBytes <- Ones
  OverPatchCap <- Nobody
  EntryCap = 2
  MaxBytes = 6
  TargetBytes = 2
  Modes = {"compare"}
  Replaces = FALSE
  Faults = {"time"}
  MaxStarts = 6
  MaxLate = 0
PROPERTY PutLeavesWhole
