CONSTANTS
  Processes = {p1, p2}
  User = User
  System = System
  lab = lab
  hub = hub
  theme = theme
  font = font
  v1 = v1
  v2 = v2
  Keys = {theme, font}
  Values = {v1, v2}
  Null = Null
  Exts = {lab, hub}
  Installed <- MCInstalled
  Pinned = {hub}
  shipped <- MCShipped
  site <- MCSite
  Passwords = {w1}
  Missing = Missing
  Empty = Empty
  MaxOps = 3
  MaxCrashes = 1
SPECIFICATION Spec
INVARIANT SettingsHold
INVARIANT SwitchesHold
PROPERTY AnswerHolds
SYMMETRY MCSymmetry
CHECK_DEADLOCK FALSE
