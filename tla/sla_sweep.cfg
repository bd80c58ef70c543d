SPECIFICATION FairSpec
CONSTANTS
  None = None
  a1 = a1  a2 = a2  a3 = a3
  m1 = m1  m2 = m2
  t1 = t1
  p1 = p1  c1 = c1
  Approvals = {a1, a2, a3}
  Messages = {m1, m2}
  Threads = {t1}
  MsgOf <- TestMsgOf
  ThreadOf <- TestThreadOf
  Pollers = {p1}
  Commands = {c1}
  MaxFaults = 1
INVARIANTS TypeOK NudgedOncePerSweeper NudgeIsOnRecord SweepMissesNobody
PROPERTIES OverdueIsNudged
