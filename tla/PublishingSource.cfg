SPECIFICATION Spec
CONSTANTS
  Ids = {i1, i2}
  Editors = {e1, e2}
  Locales = {en}
  Slugs = {s1, s2, s3}
  NoSlug = NoSlug
  Unborn = Unborn
  Removed = Removed
  NoDate = NoDate
  Keep = Keep
  NoEdit = NoEdit
  MaxTime = 1
INVARIANTS
  PublicSlugIsNoSource
SYMMETRY Symmetry
CHECK_DEADLOCK FALSE
