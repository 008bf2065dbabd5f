CONSTANTS
  s1 = s1
  s2 = s2
  lab = lab
  hub = hub
  Nobody = Nobody
  Servers = {s1}
  Interactive = {s1}
  Ports = {p1}
  Packages = {lab, hub}
  Enabled <- MCEnabledOne
  Starter <- MCStarterOne
  Alone = {s1}
  Size <- MCSize
  Apps <- MCApps
  Faulty <- MCFaulty
  Used = {s1}
  MaxBroken = 0
  MaxEvents = 2
SPECIFICATION Spec
PROPERTY StopAlwaysEnds
CHECK_DEADLOCK FALSE
