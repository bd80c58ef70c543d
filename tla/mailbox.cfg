SPECIFICATION Spec
CONSTANTS
  None = None
  m1 = m1  m2 = m2
  l1 = l1  l2 = l2
  p1 = p1  o1 = o1
  Mails = {m1, m2}
  Lanes = {l1, l2}
  Pollers = {p1}
  Operators = {o1}
  Grace = 0
  MaxDay = 1
  MaxFaults = 1
  MaxCommands = 1
  MaxActs = 2
SYMMETRY Interchangeable
INVARIANTS TypeOK SeenWasHandled DoubledIsTorn
PROPERTIES KeepsPlaces
