SPECIFICATION ISpec
CONSTANTS
  a = a
  b = b
  k1 = k1
  k2 = k2
  k3 = k3
  Ingestors = {r1, r2}
  Ids = {a, b}
  Keys = {k1, k2, k3}
  Lines <- FourLines
  Producers = {"other"}
  MaxLines = 2
  Torn = Torn
  NoLine = NoLine
SYMMETRY Alike
INVARIANTS
  OneTaskPerDirective
  RowsFollowFile
CONSTRAINT RefusedUnaltered
