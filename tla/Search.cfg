CONSTANTS
  d1 = d1
  d2 = d2
  p1 = p1
  p2 = p2
  p3 = p3
  Dta = {d1, d2}
  Priv = {p1, p2, p3}
  Null = Null
  Listing <- AllKinds
  Patterns = {"*.*", "SUB", "."}
  Attrs <- FewAttrs
SPECIFICATION Spec
SYMMETRY Symmetric
INVARIANTS
  PointersSound
  InfoIsTrue
PROPERTIES
  SearchesIndependent
  
CHECK_DEADLOCK FALSE
