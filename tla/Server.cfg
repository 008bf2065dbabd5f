CONSTANTS
  s1 = s1
  s2 = s2
  lab = lab
  hub = hub
  Nobody = Nobody
  Servers = {s1, s2}
  Interactive = {s1}
  Ports = {p1}
  Packages = {lab, hub}
  Enabled <- MCEnabled
  Starter <- MCStarter
  Alone = {}
  Size <- MCSize
  Apps <- MCApps
  Faulty <- MCFaulty
  Used = {s1}
  MaxBroken = 1
  MaxEvents = 2
SPECIFICATION Spec
INVARIANT SoundPackagesRun
INVARIANT StopIsClean
INVARIANT InterruptAsksAgain
INVARIANT ListedWhileServing
PROPERTY StopEnds
CHECK_DEADLOCK FALSE
