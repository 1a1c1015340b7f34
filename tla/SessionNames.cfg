SPECIFICATION Spec
CONSTANTS
  Tweaks <- NamesakeTweaks
  Registers <- MCRegisters
  Bits <- MCBits
  One <- MCOne
  Backend <- MCBackend
  Widget <- MCWidget
  Register <- MCRegister
  Mask <- MCMask
  On <- MCOn
  Off <- MCOff
  Daemons = {d}
  Locals = {}
  Savers = {d}
  Textual = {}
  Order <- NamesakeOrder
  ConfigName <- MCConfigName
  Choices <- MCChoices
  InitialConfigs <- MCConfigs
  Profile <- NoProfile
  Opened <- NoProfile
  BootStates <- Apart
  KernelStates <- NoStates
  MaxEdits = 2
  None = None
INVARIANT
  WidgetsShowSystem
