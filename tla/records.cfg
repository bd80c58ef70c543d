SPECIFICATION FairSpec
CONSTANTS
  None = None
  m1 = m1  m2 = m2
  a1 = a1  a2 = a2  a3 = a3
  s1 = s1  k1 = k1  n1 = n1
  t1 = t1  t2 = t2  t3 = t3  t4 = t4  t5 = t5
  p1 = p1  x1 = x1
  Messages = {m1, m2}
  Senders = {s1}
  Threads = {t1, t2, t3, t4, t5}
  Attachments = {a1, a2, a3}
  Names = {n1}
  SenderOf <- TestSenderOf
  TopicOf <- TestTopicOf
  Replies = {m2}
  Mailed = {m1, m2}
  Piped = {m1, m2}
  OwnerOf <- TestOwnerOf
  DirOf <- TestDirOf
  NameOf <- TestNameOf
  Pollers = {p1}
  Pipes = {x1}
  MaxFaults = 1
INVARIANTS TypeOK RepliesSplitNoThread InteractionsFollowRows AttachmentsAreOnRecord RefsFindTheirBlob
PROPERTIES AllSettle
CHECK_DEADLOCK FALSE
