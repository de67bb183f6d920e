CONSTANTS
  c1 = c1
  c2 = c2
  Clients = {c1, c2}
  Files = {"f", "n"}
  Folders = {"dir"}
  In <- InOf
  NoFile = NoFile
  Blocks = {1, 2}
  Bodies <- ShortAndLong
  Serial = {"n"}
SPECIFICATION Spec
INVARIANTS TypeOK NoSilentChange
PROPERTIES Linearizable
SYMMETRY ClientSymmetry
