SPECIFICATION Spec
CONSTANTS
  Tweaks <- PCITweaks
  Registers <- MCRegisters
  Bits <- MCBits
  One <- MCOne
  Backend <- MCBackend
  Widget <- MCWidget
  Register <- MCRegister
  Mask <- MCMask
  On <- MCOn
  Off <- MCOff
  Daemons = {d}
  Locals = {g}
  Savers = {}
  Textual = {d}
  Order <- PCIOrder
  ConfigName <- MCConfigName
  Choices <- MCChoices
  InitialConfigs <- OneConfig
  Profile <- NoProfile
  Opened <- MCOpened
  BootStates <- LegalStates
  KernelStates <- NoStates
  MaxEdits = 2
  None = None
INVARIANTS
  FieldsStayLegal
  AppliedIsInEffect
  OpenedProfileIsInEffect
