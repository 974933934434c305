SPECIFICATION Spec
CONSTANTS
  Processes = {p1, p2}
  Objects = {o1}
  Named = {o1}
  Global = Global
  NoObject = NoObject
  Junk = Junk
  MIN_HANDLE_ENTRIES = 1
  MaxCount = 4
  MaxWaits = 1
  MaxRefs = 3
  Marks = {{}, {"inherit"}, {"protect"}, {"fd"}}
  CloseRemote = FALSE
INVARIANTS TypeOK Initialised FirstFree LastUsed RefcountExact
PROPERTY HandleStable
SYMMETRY Symmetric
