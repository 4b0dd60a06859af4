CONSTANTS
  TzOffset <- MCTzOffset
  AllCodes = {c1}
  NoCode = NoCode
  Garbled = Garbled
  ShortRow = ShortRow
  Instants <- MCInstants
  Issuable <- MCIssuable
SPECIFICATION Spec
INVARIANT DocumentedUserHours
CHECK_DEADLOCK FALSE
