SPECIFICATION ComparingSpec
CONSTANTS
  a = a
  inA = inA
  b = b
  t = t
  u = u
  Paths = {a, inA, b}
  Above <- MCAbove
  Texts = {t, u}
  NoText = NoText
  NoPath = NoPath
INVARIANT FilesAreServed
