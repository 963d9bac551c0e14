SPECIFICATION Spec
CONSTANTS
  Procs = {p1, p2}
  Dirs = {d1, d2, d3}
  Old = {d2, d3}
  Ids = {d1, d2}
  NoOne = NoOne
  Limits = {1}
  Drives = {"asked"}
  MaxUpsets = 2
SYMMETRY SymProcs
CONSTRAINT PagesInPeace
CHECK_DEADLOCK FALSE
INVARIANTS ResultTrue OwnJournal NoRunMissed
PROPERTIES ResultSettles
