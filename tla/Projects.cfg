SPECIFICATION Spec
CONSTANTS
  Desks = {p1, p2}
  MaxContent = 2
  MaxSubmissions = 2
  Docs = {d1, d2}
  Body = body
  Handlers = {h1}
  Slots = {g1, g2}
  MaxText = 2
  MayFail = TRUE
SYMMETRY Symmetry
INVARIANT OneReviewEach
INVARIANT TextsAsSubmitted
INVARIANT DraftsNotIndexed
INVARIANT IndexMirrors
PROPERTY CatalogKept
