\* One control terminal adds a user while another dumps the database.
CONSTANTS
  TzOffset <- MCTzOffset
  c1 = c1
  c2 = c2
  c3 = c3
  desk = desk
  door = door
  AllCodes = {c1, c2, c3}
  ShortCodes = {}
  NoCode = NoCode
  Garbled = Garbled
  ShortRow = ShortRow
  Nil = Nil
  Clients = {desk, door}
  Modifiers = {desk, door}
  Addrs = {1, 2, 3, 4, 5, 6, 7}
  Inodes = {1, 2, 3, 4}
  Instants <- FirstInstant
  InitialFile <- TwoRows
  HandEdits <- MCHandEdits
  Requests <- FewRequests
  EditWhen = "never"
  EditHow = "rename"
  DiskMayFill = FALSE
  OpenMayFail = FALSE
  ReadMayFail = FALSE
  MaxChanges = 2
  MaxEdits = 0
  MaxCrashes = 0
SPECIFICATION Spec
INVARIANTS AcknowledgedIsStored
