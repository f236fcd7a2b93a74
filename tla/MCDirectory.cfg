SPECIFICATION Spec
CONSTANTS
  Names = {a, b}
  MaxINum = 3
  MaxDepth = 2
  MaxEntries = 4
  MaxLapses = 1
  LinkModulus = 8
  WritesMayFail = TRUE
SYMMETRY NamesSymmetry
INVARIANTS
  TypeOK
  LinksMatchNames
  NoDanglingEntries

  
CHECK_DEADLOCK FALSE
