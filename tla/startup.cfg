SPECIFICATION StartupSpec
CONSTANTS
  Wrong = Wrong
  Rejected = Rejected
  Missing = Missing
  NotUnicode = NotUnicode
  NoLaunch = NoLaunch
  MaxPort <- MCMaxPort
  ValidNames <- MCValidNames
  Upper <- MCUpper
  Digit = {"0", "7", "8"}
  DigitValue <- MCDigits
  Base <- MCBase
  LowerOf <- MCLower
  Globbed <- MCGlobbed
  Families <- AllFamilies
INVARIANTS NothingIgnored SameValueEverywhere ArgumentsAsWritten RouteAsDeclared
CHECK_DEADLOCK FALSE
