SPECIFICATION Spec
CONSTANTS
  Tweaks <- MixedTweaks
  Registers <- MCRegisters
  Bits <- MCBits
  One <- MCOne
  Backend <- MCBackend
  Widget <- MCWidget
  Register <- MCRegister
  Mask <- MCMask
  On <- MCOn
  Off <- MCOff
  Daemons = {d}
  Locals = {}
  Savers = {d}
  Textual = {}
  Order <- MixedOrder
  ConfigName <- MCConfigName
  Choices <- MCChoices
  InitialConfigs <- MCConfigs
  Profile <- MCProfile
  Opened <- NoProfile
  BootStates <- LegalStates
  KernelStates <- NoStates
  MaxEdits = 2
  None = None
INVARIANT
  GetValueReturnsSetting
