SPECIFICATION FairSpec
CONSTANTS
  c1 = c1
  c2 = c2
  Calls <- MCCalls
  Asks <- MCAsks
  Fields <- MCFields
  Names <- MCNames
  KeyOf <- MCKeyOf
  Schema = {"wifi"}
  Default = Default
  User = User
  Unset = Unset
  MaxBoots = 1
  MaxEdits = 1
  Limits = {0, 1, 2}
  MaxPages = 1
  MaxInbox = 2
CHECK_DEADLOCK FALSE
INVARIANT TypeOK
PROPERTIES ImplementsContract LosesOnlyRaces CallsEnd
