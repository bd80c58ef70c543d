SPECIFICATION Spec
CONSTANTS
  Addresses = {"ann@", "bob@", "noreply@", "support@a", "legal@a", "contact@b"}
  Automated = {"noreply@"}
  Malformed = "malformed"
  Brands = {"a", "b"}
  Names <- TestNames
  Configs <- TestConfigs
  Mails <- TestMails
  Answers <- TestAnswers
  One = 10
  Threshold = 8
  None = None
INVARIANTS TypeOK AutoSendIsEarned DangerIsEscalated NoRobotIsAnswered FormCustomerIsHeard ReplyKeepsMailbox
