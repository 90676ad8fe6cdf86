SPECIFICATION ProbingSpec
CONSTANTS
  Device = {"tty0", "null", "sda"}
  Driver = {"uart", "serial", "mem"}
  Probe <- MCProbe
  NoDriver = "none"
INVARIANTS
  BindingsAgree
  EarliestClaimerHasIt
