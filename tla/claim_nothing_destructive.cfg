SPECIFICATION ThrownSpec
CONSTANTS
  None = None
  Mails = {m1}
  Lanes = {l1}
  Pollers = {p1}
  Operators = {}
  Grace = 1
  MaxDay = 3
  MaxFaults = 0
  MaxCommands = 0
  MaxActs = 1
PROPERTY NothingIsDestructive
