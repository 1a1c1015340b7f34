SPECIFICATION pluginSpec
CONSTANTS
  Pcilib = Pcilib
  Normal = {latency, pcixml, proc, sonypi}
  OnBus = {latency, pcixml}
  Stays = {pcixml, proc}
  Partial = {}
  MaxReloads = 2
  MaxPlugs = 2
INVARIANT
  ReloadSurvives
CHECK_DEADLOCK FALSE
