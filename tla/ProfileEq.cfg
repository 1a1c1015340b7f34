SPECIFICATION profileSpec
CONSTANTS
  Known = {"tcp_ecn", "osrelease"}
  ReadOnly = {"osrelease"}
  Names = {"tcp_ecn", "osrelease", "absent"}
  Texts = {"=", "geq", "eq"}
  Bound = 2
  Profiles <- EqProfiles
  MaxMerges = 1
INVARIANT
  EqIsHonoured
CHECK_DEADLOCK FALSE
