SPECIFICATION Spec
CONSTANTS
  Documents = {d1, d2, d3, d4, d5}
  Slugs = {a, b, c, d, e}
  MaxDepth = 3
  MaxDocuments = 4
  Root = root
SYMMETRY Symmetry
INVARIANT Forest
PROPERTY PlacedShown
PROPERTY LinksResolve
INVARIANT AliasesSound
