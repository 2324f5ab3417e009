CONSTANTS
  People = {ana, bia}
  Purposes = {p1}
  Forms = {f1}
  Versions = {v1}
  Fields = {x1}
  Requests = {q1, q2}
  None = None
SPECIFICATION FormSpec
SYMMETRY Sym
INVARIANT PublishedFieldsAllowed
CHECK_DEADLOCK FALSE
