SPECIFICATION IndexSpec
CONSTANTS
  Documents = {d1, d2}
  Slugs = {a, b, c}
  Sessions = {t1, t2}
  MaxDepth = 2
  MaxDocuments = 2
  Root = root
SYMMETRY Symmetry
INVARIANT IndexFollows
INVARIANT SoundUnlessRaced
PROPERTY DeletedRowsFinal
