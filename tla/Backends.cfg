SPECIFICATION MCSpec
CONSTANTS
  printk = printk
  forwarding = forwarding
  console = console
  default = default
  forward = forward
  hdc = hdc
  lcd = lcd
  shmmax = shmmax
  cpu = cpu
  hda = hda
  bridge = bridge
  nic = nic
  Procs = {p1, p2}
  Tweaks = {console, default, forward}
  Files = {printk, forwarding}
  Order <- MCOrder
  File <- MCFile
  Element <- MCElement
  Widget <- MCWidget
  Sizes <- MCSizes
  Reach <- MCReach
  Legal <- MCLegal
  Values = {0, 1}
  MaxOutside = 1
  Processes = {p1, p2}
  Devices = {hdc, lcd, shmmax, cpu, hda}
  Kind <- MCKind
  Holds <- MCHolds
  Asks <- MCAsks
  Char = 8
  Word = 1024
  Memory = 200
  Fastest = 24
  MaxLeak = 2
  MaxChanges = 2
  Buses <- MCBuses
  Name <- MCName
  Registers <- MCRegisters
  Wildcards <- MCWildcards
  Entries = {"eth0", "eth1", ".."}
  Hidden = {".."}
  Known = {"tcp_ecn", "osrelease"}
  ReadOnly = {"osrelease"}
  Names = {"tcp_ecn", "osrelease", "absent"}
  Texts = {"=", "!=", "<=", "geq", "lt", ">"}
  Bound = 2
  Profiles <- MCProfiles
  MaxMerges = 1
  Pcilib = Pcilib
  Normal = {latency, pcixml, dmi, sonypi}
  OnBus = {latency, pcixml}
  Stays = {pcixml}
  Partial = {dmi}
  MaxReloads = 2
  MaxPlugs = 2
INVARIANTS
  NothingInvented
  CrashNeedsLoss
  ClockIsClosest
  DescriptorsAccounted
  TreeIsTheMachine
  CompatibleSettingsHold
  CodeIsLoaded
  BusOutlivesTweaks
  InitOnce
  EndReleasesAll
PROPERTIES
  WriteIsPrecise
  UneditedApplyChangesOnly
  ChangesAreMinimal
SYMMETRY Interchangeable
CHECK_DEADLOCK FALSE
