SPECIFICATION Spec
CONSTANTS
  e1 = e1
  e2 = e2
  e3 = e3
  e4 = e4
  IPs = {"192.0.2.1", "192.0.2.2"}
  Emails = {e1, e2, e3, e4}
  NoEmail = NoEmail
  MaxDay = 2
INVARIANTS TypeOK SlotsPacked
PROPERTIES LimitSpec
