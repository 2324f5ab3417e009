CONSTANTS
  People = {ana, bia}
  Purposes = {p1, p2}
  Forms = {f1}
  Versions = {v1, v2}
  Fields = {}
  Requests = {q1, q2}
  Posts = {i1, i2}
  Keys = {k1}
  Contents = {c1, c2}
  MaxAccepted = 2
  Items = {n1}
  None = None
SPECIFICATION IntakeSpec
SYMMETRY Sym
INVARIANTS IntakeTypeOK ReviewedByAnother AnsweredIsStored
PROPERTY ArchivedStaysClosed
CHECK_DEADLOCK FALSE
