\* Terminals that only look users up, while the file is edited in place at any time.
CONSTANTS
  TzOffset <- MCTzOffset
  c1 = c1
  c2 = c2
  c3 = c3
  desk = desk
  door = door
  AllCodes = {c1, c2, c3}
  ShortCodes = {}
  NoCode = NoCode
  Garbled = Garbled
  ShortRow = ShortRow
  Nil = Nil
  Clients = {desk, door}
  Modifiers = {}
  Addrs = {1, 2, 3, 4, 5, 6, 7}
  Inodes = {1, 2, 3, 4}
  Instants <- MCInstants
  InitialFile <- TwoRows
  HandEdits = {}
  Requests <- Lookups
  EditWhen = "anytime"
  EditHow = "inplace"
  DiskMayFill = FALSE
  OpenMayFail = FALSE
  ReadMayFail = TRUE
  MaxChanges = 0
  MaxEdits = 2
  MaxCrashes = 0
SPECIFICATION Spec
INVARIANTS Synced LookupIsFresh
