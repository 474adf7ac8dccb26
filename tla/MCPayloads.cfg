SPECIFICATION Spec
CONSTANTS
  Width <- Widths
  At = "@"
  Dot = "."
  MinEmail = 5
  MaxEmail = 7
  MaxSubject = 2
  MaxBody = 3
  Payloads <- AllPayloads
CHECK_DEADLOCK FALSE
INVARIANTS AddressesFound BothSidesAgree
