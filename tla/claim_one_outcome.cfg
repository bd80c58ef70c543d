SPECIFICATION Spec
CONSTANTS
  None = None
  u1 = u1  u2 = u2
  m1 = m1  m2 = m2
  a1 = a1  a2 = a2  a3 = a3
  w1 = w1  w2 = w2  x1 = x1
  o1 = o1  o2 = o2
  Uids = {u1, u2}
  PipeUids = {u2}
  MsgIds = {m1}
  MsgOf <- OneMessageTwice
  Junk = {}
  Outcomes = {"auto_send", "approve", "escalate"}
  Pollers = {w1}
  Pipes = {x1}
  Operators = {}
  ApprovalIds = {a1, a2, a3}
  ImapFaults = {}
  MaxFaults = 0
  MaxDecisions = 0
SYMMETRY Interchangeable
INVARIANTS OneOutcomePerMessage
