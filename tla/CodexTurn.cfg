CONSTANTS
  Root = Root
  None = None
  Children = {c1, c2}
  Turns = {t1}
  Items = {i1, i2}
  _MAX_COLLAB_THREADS = 2
  _MAX_COLLAB_TURNS = 2
  MaxItems = 3
SPECIFICATION Spec
SYMMETRY Symmetry
CONSTRAINT RootApart
CHECK_DEADLOCK FALSE
INVARIANTS
  TypeOK
  OutcomeIsComplete
  ScopesAgree
