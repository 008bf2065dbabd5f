CONSTANTS
  Browsers = {b1}
  Slots = {s1, s2}
  Users <- MCUsers
  Colors = {blue}
  Fields <- MCFields
  updatable_fields <- MCUpdatable
  Passwords = {w1}
  Settings <- MCSettings
  MaxChanges = 1
  MaxStarts = 2
  None = None
SPECIFICATION Spec
PROPERTY StaysLoggedIn
PROPERTY UserKept
CHECK_DEADLOCK FALSE
