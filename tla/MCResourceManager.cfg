SPECIFICATION Spec
CONSTANTS
  m1 = m1
  m2 = m2
  Main = Main
  Managers <- TwoManagers
SYMMETRY Symmetry
INVARIANTS
  TypeOK
  CompleteOrNothing
