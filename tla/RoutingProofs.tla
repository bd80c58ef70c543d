---------------------------- MODULE RoutingProofs ----------------------------
(***************************************************************************)
(* Proofs about Routing, for every mail, scenario, threshold and answer.   *)
(***************************************************************************)
EXTENDS Routing, IntakeProofs

USE RoutingAssumption

(* What _coerce makes of any answer is a Classification; a confidence that *)
(* is a number keeps its side of every threshold up to One, and the        *)
(* categories that need a human say so.                                    *)
LEMMA CoerceIsClassification ==
  ASSUME NEW a \in Answers
  PROVE  /\ Coerce(a) \in Classification
         /\ a.confidence.kind = "number" /\ 0 < Threshold
              => (Coerce(a).confidence >= Threshold <=> a.confidence.value >= Threshold
                                                          /\ One >= Threshold)
         /\ a.category \in Categories => Coerce(a).category = a.category
         /\ a.category \notin Categories => Coerce(a).category = "other"
         /\ a.sentiment \in Sentiments => Coerce(a).sentiment = a.sentiment
         /\ a.needsHuman => Coerce(a).needsHuman
  <1>1. /\ a.needsHuman \in BOOLEAN
        /\ a.confidence.kind \in {"number", "nan", "unreadable"}
        /\ a.confidence.value \in Int /\ One \in Nat \ {0} /\ Threshold \in Int
    OBVIOUS
  <1>2. CASE a.confidence.kind = "number"
    <2>1. CASE a.confidence.value < 0
      <3>1. CoerceConfidence(a.confidence) = 0
        BY <1>1, <1>2, <2>1 DEF CoerceConfidence
      <3> QED BY <1>1, <1>2, <2>1, <3>1 DEF Coerce, Classification, Categories, Sentiments
    <2>2. CASE a.confidence.value > One
      <3>1. CoerceConfidence(a.confidence) = One
        BY <1>1, <1>2, <2>2 DEF CoerceConfidence
      <3> QED BY <1>1, <1>2, <2>2, <3>1 DEF Coerce, Classification, Categories, Sentiments
    <2>3. CASE a.confidence.value \in 0..One
      <3>1. CoerceConfidence(a.confidence) = a.confidence.value
        BY <1>1, <1>2, <2>3 DEF CoerceConfidence
      <3> QED BY <1>1, <1>2, <2>3, <3>1 DEF Coerce, Classification, Categories, Sentiments
    <2> QED BY <1>1, <2>1, <2>2, <2>3
  <1>3. CASE a.confidence.kind # "number"
    <2>1. CoerceConfidence(a.confidence) \in {0, One}
      BY <1>1, <1>3 DEF CoerceConfidence
    <2> QED BY <1>1, <1>3, <2>1 DEF Coerce, Classification, Categories, Sentiments
  <1> QED BY <1>2, <1>3

(* The class is that of the answer at hand, the action that of the class.  *)
AnswerIsHeeded ==
  /\ stage \in Drafting \ {"parsed"} => answer \in Answers
  /\ stage \in {"classified", "routed"} => class = Coerce(answer)
  /\ stage = "routed" => action = Decide(class)

(* The prefilter has judged the mail at hand, and its brand is one whose   *)
(* key occurs in the address it was written to.                            *)
MailIsJudged ==
  /\ stage \notin {"down", "idle"} =>
       /\ mail \in Mails /\ brand \in Brands \cup {None}
       /\ brand # None => mail.to \in Names[brand]
  /\ stage = "dropped" => Dropped(mail)
  /\ stage \in Drafting \cup {"queued", "sent"} => ~Dropped(mail)

(* A reply goes to the true sender, as a mailbox of the scenario at work.  *)
ReplyIsOfMail ==
  stage = "sent" =>
    /\ reply \in [from : Addresses, to : Addresses]
    /\ reply.to = TrueSender(mail)

Faithful ==
  /\ environ \in BOOLEAN /\ config \in Configs
  /\ stage \in {"down", "idle", "dropped", "queued", "sent"} \cup Drafting
  /\ AnswerIsHeeded /\ MailIsJudged /\ ReplyIsOfMail /\ ReplyKeepsMailbox

(* Faithful at the end of a run: the two tables of route.py follow.        *)
LEMMA FaithfulIsSafe == Faithful => TypeOK /\ AutoSendIsEarned /\ DangerIsEscalated
  <1> SUFFICES ASSUME Faithful PROVE TypeOK /\ AutoSendIsEarned /\ DangerIsEscalated
    OBVIOUS
  <1> USE DEF Faithful, AnswerIsHeeded, MailIsJudged, ReplyIsOfMail, Drafting
  <1>1. stage \in {"classified", "routed"} => class \in Classification
    BY CoerceIsClassification
  <1>2. stage = "routed" => action \in Actions
    BY DEF Decide, Actions
  <1>3. TypeOK
    BY <1>1, <1>2 DEF TypeOK
  <1>4. ASSUME stage = "routed"
        PROVE  /\ answer \in Answers /\ class = Coerce(answer)
               /\ action = "auto_send" => /\ ~Escalates(class)
                                          /\ EffectiveMode = "auto" /\ MayAutoSend(class)
               /\ Escalates(class) => action = "escalate"
    BY <1>4 DEF Decide
  <1>5. AutoSendIsEarned
    <2> SUFFICES ASSUME stage = "routed", action = "auto_send" PROVE AutoSendIsEarned
      BY DEF AutoSendIsEarned
    <2>1. ~environ /\ config.mode = "auto"
      BY <1>4 DEF EffectiveMode
    <2>2. /\ class.category \in config.allowlist \ (config.humanCategories \cup AlwaysHuman)
          /\ mail.to \notin config.humanIdentities
          /\ class.sentiment # "negative" /\ ~class.needsHuman
          /\ class.confidence >= Threshold
      BY <1>4 DEF Escalates, MayAutoSend
    <2>3. /\ answer.category \notin AlwaysHuman
          /\ answer.category \in config.allowlist \/ "other" \in config.allowlist
      <3>1. answer.category \in AlwaysHuman => answer.category \in Categories
        BY DEF AlwaysHuman, Categories
      <3> QED BY <1>4, <2>2, <3>1, CoerceIsClassification
    <2>4. answer.sentiment # "negative" /\ ~answer.needsHuman
      <3>1. "negative" \in Sentiments BY DEF Sentiments
      <3> QED BY <1>4, <2>2, <3>1, CoerceIsClassification
    <2>5. answer.confidence.kind = "number" /\ Threshold > 0
            => answer.confidence.value >= Threshold
      <3>1. Threshold > 0 <=> 0 < Threshold OBVIOUS
      <3> QED BY <1>4, <2>2, <3>1, CoerceIsClassification
    <2> QED BY <2>1, <2>2, <2>3, <2>4, <2>5 DEF AutoSendIsEarned
  <1>6. DangerIsEscalated
    <2> SUFFICES ASSUME stage = "routed",
                        \/ mail.to \in config.humanIdentities
                        \/ answer.sentiment = "negative"
                        \/ answer.category \in AlwaysHuman
                        \/ answer.needsHuman
                        \/ /\ answer.confidence.kind = "number"
                           /\ 0 < Threshold /\ answer.confidence.value < Threshold
                 PROVE  Escalates(class)
      BY <1>4 DEF DangerIsEscalated
    <2>1. CASE mail.to \in config.humanIdentities
      BY <2>1 DEF Escalates
    <2>2. CASE answer.sentiment = "negative"
      BY <1>4, <2>2, CoerceIsClassification DEF Escalates, Sentiments
    <2>3. CASE answer.category \in AlwaysHuman
      <3>1. answer.category \in Categories
        BY <2>3 DEF AlwaysHuman, Categories
      <3> QED BY <1>4, <2>3, <3>1, CoerceIsClassification DEF Escalates
    <2>4. CASE answer.needsHuman
      BY <1>4, <2>4, CoerceIsClassification DEF Escalates
    <2>5. CASE /\ answer.confidence.kind = "number"
               /\ 0 < Threshold /\ answer.confidence.value < Threshold
      <3>1. ~(Coerce(answer).confidence >= Threshold)
        BY <1>4, <2>5, CoerceIsClassification
      <3>2. Coerce(answer).confidence \in Int
        BY <1>4, CoerceIsClassification DEF Classification
      <3> QED BY <1>4, <3>1, <3>2 DEF Escalates
    <2> QED BY <2>1, <2>2, <2>3, <2>4, <2>5
  <1> QED BY <1>3, <1>5, <1>6

(* Faithful past the prefilter: loop prevention and the customer of a form *)
(* follow.                                                                 *)
LEMMA FaithfulIsPolite == Faithful => NoRobotIsAnswered /\ FormCustomerIsHeard
  <1> SUFFICES ASSUME Faithful PROVE NoRobotIsAnswered /\ FormCustomerIsHeard
    OBVIOUS
  <1> USE DEF Faithful, MailIsJudged, ReplyIsOfMail, Dropped
  <1>1. NoRobotIsAnswered
    BY DEF NoRobotIsAnswered
  <1>2. FormCustomerIsHeard
    <2> SUFFICES ASSUME stage \notin {"down", "idle"},
                        mail.replyTo \notin Automated \cup {None}
                 PROVE  /\ stage = "dropped" => AutomatedHeaders(mail) \/ mail.empty
                        /\ stage = "sent" => reply.to = mail.replyTo
      BY DEF FormCustomerIsHeard
    <2>1. mail \in Mail /\ TrueSender(mail) = mail.replyTo
      BY TrueSenderIsAddress
    <2> QED BY <2>1
  <1> QED BY <1>1, <1>2

LEMMA FaithfulInit == Init => Faithful
  BY DEF Init, Faithful, AnswerIsHeeded, MailIsJudged, ReplyIsOfMail, ReplyKeepsMailbox,
         Drafting

(* A reply that transport.send accepts goes to the true sender, as the     *)
(* mailbox it is sent from.                                                *)
LEMMA SendsReply ==
  ASSUME mail \in Mail, NEW from, NEW identities \in Seq(Addresses),
         Sends(from, identities)
  PROVE  /\ reply' \in [from : Addresses, to : Addresses]
         /\ reply'.from = from /\ reply'.to = TrueSender(mail)
         /\ IdentityFor(from, identities) # None
  <1>1. from \in Addresses
    BY IdentityIsItself DEF Sends
  <1>2. TrueSender(mail) \in Addresses
    BY TrueSenderIsAddress DEF Sends
  <1> QED BY <1>1, <1>2 DEF Sends

(* Only the two actions that send touch the reply, and only Receive and    *)
(* the actions that end a mail touch the mail.                             *)
LEMMA FaithfulNext == Faithful /\ [Next]_vars => Faithful'
  <1> SUFFICES ASSUME Faithful, [Next]_vars PROVE Faithful'
    OBVIOUS
  <1> USE DEF Faithful, AnswerIsHeeded, MailIsJudged, ReplyIsOfMail, Drafting, settings
  <1>1. CASE Receive
    <2>1. mail' \in Mails /\ config.brands \in Seq(Brands)
      BY <1>1 DEF Receive
    <2>2. /\ brand' \in Brands \cup {None}
          /\ brand' # None => mail'.to \in Names[brand']
      BY <1>1, <2>1, BrandOccurs DEF Receive
    <2>3. /\ stage' \in {"dropped", "parsed"}
          /\ stage' = "dropped" <=> Dropped(mail')
      BY <1>1 DEF Receive
    <2>4. Dropped(mail)' <=> Dropped(mail')
      BY DEF Dropped, TrueSender, AutomatedHeaders
    <2> QED BY <1>1, <2>1, <2>2, <2>3, <2>4 DEF Receive, ReplyKeepsMailbox
  <1>2. CASE Answer
    BY <1>2 DEF Answer, ReplyKeepsMailbox, Dropped, TrueSender, AutomatedHeaders
  <1>3. CASE Classify
    BY <1>3 DEF Classify, ReplyKeepsMailbox
  <1>4. CASE Route
    BY <1>4 DEF Route, ReplyKeepsMailbox, Decide, Escalates, MayAutoSend, EffectiveMode
  <1>5. CASE AutoSend
    <2>1. /\ mail \in Mail /\ config.identities \in Seq(Addresses)
          /\ Sends(mail.to, config.identities)
      BY <1>5 DEF AutoSend
    <2>2. /\ reply' \in [from : Addresses, to : Addresses]
          /\ reply'.from = mail.to /\ reply'.to = TrueSender(mail)
          /\ IdentityFor(mail.to, config.identities) # None
      BY <2>1, SendsReply
    <2> QED BY <1>5, <2>2 DEF AutoSend, ForgetAnswer, ReplyKeepsMailbox
  <1>6. CASE Enqueue
    BY <1>6 DEF Enqueue, ForgetAnswer, ReplyKeepsMailbox
  <1>7. CASE Approve
    <2> DEFINE from == ReplyIdentity(mail.to, brand, config'.identities)
    <2>1. /\ mail \in Mail /\ config'.identities \in Seq(Addresses)
          /\ Sends(from, config'.identities)
      BY <1>7 DEF Approve
    <2>2. /\ reply' \in [from : Addresses, to : Addresses]
          /\ reply'.from = from /\ reply'.to = TrueSender(mail)
          /\ IdentityFor(from, config'.identities) # None
      BY <2>1, SendsReply
    <2>3. \/ from = mail.to
          \/ /\ IdentityFor(mail.to, config'.identities) = None
             /\ brand # None /\ {from, mail.to} \subseteq Names[brand]
      <3>1. CASE IdentityFor(mail.to, config'.identities) # None
        BY <3>1 DEF ReplyIdentity
      <3>2. CASE IdentityFor(mail.to, config'.identities) = None
        <4>1. from = BrandIdentity(brand, config'.identities) /\ from # None
          BY <2>2, <3>2, IntakeAssumption DEF ReplyIdentity
        <4>2. brand \in Brands /\ brand # None /\ mail.to \in Names[brand]
          BY <1>7, <4>1 DEF Approve, BrandIdentity
        <4>3. from \in Names[brand]
          BY <2>1, <4>1, <4>2, StandInIsOfBrand
        <4>4. {from, mail.to} \subseteq Names[brand]
          <5> HIDE DEF from
          <5> QED BY <4>2, <4>3
        <4> QED BY <3>2, <4>2, <4>4
      <3> QED BY <3>1, <3>2
    <2> HIDE DEF from
    <2> QED BY <1>7, <2>2, <2>3 DEF Approve, ReplyKeepsMailbox
  <1>8. CASE Finish
    BY <1>8 DEF Finish, Forget, ReplyKeepsMailbox
  <1>9. CASE Stop
    BY <1>9 DEF Stop, Forget, ReplyKeepsMailbox
  <1>10. CASE Start
    BY <1>10 DEF Start, ReplyKeepsMailbox
  <1>11. CASE UNCHANGED vars
    BY <1>11 DEF vars, ReplyKeepsMailbox, Decide, Escalates, MayAutoSend, EffectiveMode
  <1> QED BY <1>1, <1>2, <1>3, <1>4, <1>5, <1>6, <1>7, <1>8, <1>9, <1>10, <1>11 DEF Next

(* For every configuration, threshold and answer of the model: nothing is  *)
(* sent unseen that the table of route.py does not allow, and nothing that *)
(* the table calls dangerous waits in the ordinary queue, whatever _coerce *)
(* had to repair and whenever the process was restarted.                   *)
THEOREM RoutingIsSafe == Spec => [](AutoSendIsEarned /\ DangerIsEscalated)
  <1>1. Init => Faithful
    BY FaithfulInit
  <1>2. Faithful /\ [Next]_vars => Faithful'
    BY FaithfulNext
  <1>3. Faithful => AutoSendIsEarned /\ DangerIsEscalated
    BY FaithfulIsSafe
  <1> QED BY <1>1, <1>2, <1>3, PTL DEF Spec

(* In particular nothing dangerous waits in the ordinary queue.            *)
COROLLARY DangerIsAlwaysEscalated == Spec => []DangerIsEscalated
  BY RoutingIsSafe, PTL

(* What _coerce returns is a Classification and what decide_route returns  *)
(* is a RouteAction, for every answer of the model.                        *)
THEOREM RoutingTypeCorrect == Spec => []TypeOK
  <1>1. Init => Faithful
    BY FaithfulInit
  <1>2. Faithful /\ [Next]_vars => Faithful'
    BY FaithfulNext
  <1>3. Faithful => TypeOK
    BY FaithfulIsSafe
  <1> QED BY <1>1, <1>2, <1>3, PTL DEF Spec

(* For every mail, scenario and sequence of restarts: no automatic address *)
(* and no automatic mail is ever answered, form mail is neither dropped    *)
(* for its From nor answered to anybody but its Reply-To, and every reply  *)
(* leaves as the mailbox written to or one of the same brand.              *)
THEOREM RepliesAreSafe ==
  Spec => [](NoRobotIsAnswered /\ FormCustomerIsHeard /\ ReplyKeepsMailbox)
  <1>1. Init => Faithful
    BY FaithfulInit
  <1>2. Faithful /\ [Next]_vars => Faithful'
    BY FaithfulNext
  <1>3. Faithful => NoRobotIsAnswered /\ FormCustomerIsHeard /\ ReplyKeepsMailbox
    BY FaithfulIsPolite DEF Faithful
  <1> QED BY <1>1, <1>2, <1>3, PTL DEF Spec

(* In particular nobody loses a form mail to the From of its mailer.       *)
COROLLARY FormCustomersAreHeard == Spec => []FormCustomerIsHeard
  BY RepliesAreSafe, PTL

(* In particular a changed list of identities never makes one brand answer *)
(* for another.                                                            *)
COROLLARY RepliesKeepMailbox == Spec => []ReplyKeepsMailbox
  BY RepliesAreSafe, PTL
=============================================================================
