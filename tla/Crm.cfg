SPECIFICATION Spec
CONSTANTS
  Customers = {c1, c2, c3}
  Identities = {i1, s1}
  SimIdentities = {s1}
  Notes = {n1}
  Followups = {f1}
  Tags = {t1}
  Statuses = {"new", "lost"}
  Seeds = {"new"}
  Default = "new"
  None = None
SYMMETRY Symmetry
CHECK_DEADLOCK FALSE
INVARIANT MergedStaysMerged
