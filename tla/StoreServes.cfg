SPECIFICATION Spec
CONSTANTS
  c1 = c1
  c2 = c2
  k1 = k1
  k2 = k2
  k3 = k3
  k4 = k4
  i1 = i1
  i2 = i2
  i3 = i3
  i4 = i4
  Calls = {c1, c2}
  Keys = {k1, k2, k3}
  Ids = {i1, i2}
  Omitting <- FirstOnly
  DiffId <- TwoShare
  MetaBytes <- Ones
  PatchesBytes <- Ones
  OverPatchCap <- FirstOnly
  EntryCap = 2
  MaxBytes = 3
  TargetBytes = 2
  Modes = {"compare", "byId"}
  Replaces = FALSE
  Faults = {"read", "put", "time"}
  MaxStarts = 3
  MaxLate = 1
SYMMETRY CallSymmetry
INVARIANT ServesWhatWasAsked
PROPERTY IsACache
