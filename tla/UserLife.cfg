CONSTANTS
  TzOffset <- MCTzOffset
  AllCodes = {c1}
  NoCode = NoCode
  Garbled = Garbled
  ShortRow = ShortRow
  Instants <- MCInstants
  Issuable <- MCIssuable
SPECIFICATION Spec
INVARIANTS TypeOK ReloadIsStable AccessRules
PROPERTIES ExpiryIsFinal ReloadNeverExtends
CHECK_DEADLOCK FALSE
