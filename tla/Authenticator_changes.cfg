\* One control terminal, one door, edits while the authenticator is idle.
CONSTANTS
  TzOffset <- MCTzOffset
  c1 = c1
  c2 = c2
  c3 = c3
  desk = desk
  door = door
  AllCodes = {c1, c2, c3}
  ShortCodes = {}
  NoCode = NoCode
  Garbled = Garbled
  ShortRow = ShortRow
  Nil = Nil
  Clients = {desk, door}
  Modifiers = {desk}
  Addrs = {1, 2, 3, 4, 5, 6, 7}
  Inodes = {1, 2, 3, 4}
  Instants <- FirstInstant
  InitialFile <- TwoRows
  HandEdits <- MCHandEdits
  Requests <- AllRequests
  EditWhen = "idle"
  EditHow = "rename"
  DiskMayFill = FALSE
  OpenMayFail = FALSE
  ReadMayFail = FALSE
  MaxChanges = 2
  MaxEdits = 1
  MaxCrashes = 1
SPECIFICATION Spec
INVARIANTS IndexInv Synced AcknowledgedIsStored
PROPERTIES ChangesAreAuthorised ImplementsDirectory
