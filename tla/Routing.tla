------------------------------- MODULE Routing -------------------------------
(***************************************************************************)
(* One mail from the transport to the reply: parse_raw and prefilter, the  *)
(* answer of the triage model and classify._coerce, decide_route, and the  *)
(* reply that _auto_send or an approval sends, under the configuration and *)
(* the environment the process at work was started with.                   *)
(*                                                                         *)
(* The configuration file and the .env file may be edited at any time; the *)
(* service sees the edit when it is restarted, a command of an operator    *)
(* when it starts.                                                         *)
(***************************************************************************)
EXTENDS Integers, Intake

CONSTANTS
  Configs,      \* scenarios: the autonomy section, sending_identities and brands
  Mails,        \* mail that may arrive
  Answers,      \* what the model can answer: [category, sentiment, needsHuman, confidence]
  One,          \* the confidence 1.0, in the unit confidences are counted in
  Threshold     \* autonomy.confidence_threshold

Categories == {"faq", "acknowledgement", "support", "sales", "billing", "legal",
               "refund", "spam", "other"}
AlwaysHuman == {"billing", "legal", "refund"}
Sentiments == {"positive", "neutral", "negative"}
Modes == {"draft_only", "approval", "auto"}
Actions == {"auto_send", "approve", "escalate"}

(* A confidence in the JSON answer is a number, a NaN (json.loads and      *)
(* float() both take one), or something float() refuses.  A category or    *)
(* sentiment may be any string.                                            *)
ASSUME RoutingAssumption ==
  /\ One \in Nat \ {0}
  /\ Threshold \in Int
  /\ \A c \in Configs :
       c.mode \in Modes /\ c.identities \in Seq(Addresses) /\ c.brands \in Seq(Brands)
  /\ Mails \subseteq Mail
  /\ \A a \in Answers :
       /\ a.needsHuman \in BOOLEAN
       /\ a.confidence.kind \in {"number", "nan", "unreadable"}
       /\ a.confidence.value \in Int

VARIABLES
  environ,   \* KILL_SWITCH in the environment of the running process
  config,    \* the scenario the process at work loaded
  stage,     \* how far the mail has come
  mail,      \* the mail at hand
  brand,     \* the brand parse_raw found for it
  answer,    \* the model's answer about it
  class,     \* the Classification made of the answer
  action,    \* the RouteAction it got
  reply      \* [from, to] of the reply that was sent

vars == <<environ, config, stage, mail, brand, answer, class, action, reply>>
settings == <<environ, config>>

Classification ==
  [category : Categories, sentiment : Sentiments, needsHuman : BOOLEAN, confidence : 0..One]

(* The stages in which a mail is in the graph, past the prefilter; "queued" *)
(* is the wait for a decision, which outlives the run and the process.     *)
Drafting == {"parsed", "answered", "classified", "routed"}

TypeOK ==
  /\ environ \in BOOLEAN
  /\ config \in Configs
  /\ stage \in {"down", "idle", "dropped", "queued", "sent"} \cup Drafting
  /\ stage \notin {"down", "idle"} => mail \in Mails /\ brand \in Brands \cup {None}
  /\ stage \in Drafting \ {"parsed"} => answer \in Answers
  /\ stage \in {"classified", "routed"} => class \in Classification
  /\ stage = "routed" => action \in Actions
  /\ stage = "sent" => reply \in [from : Addresses, to : Addresses]

-----------------------------------------------------------------------------
(* classify._coerce.                                                       *)

UnclampedConfidence(c) == IF c.kind = "number" THEN c.value ELSE 0

(* max(0.0, min(1.0, x)): a NaN is not below 1.0, so min keeps the 1.0.    *)
CoerceConfidence(c) ==
  CASE c.kind = "unreadable"                     -> 0
    [] c.kind = "nan"                            -> One
    [] c.kind = "number" /\ c.value < 0          -> 0
    [] c.kind = "number" /\ c.value > One        -> One
    [] c.kind = "number" /\ c.value \in 0..One   -> c.value

Coerce(a) ==
  LET category == IF a.category \in Categories THEN a.category ELSE "other"
  IN [category   |-> category,
      sentiment  |-> IF a.sentiment \in Sentiments THEN a.sentiment ELSE "neutral",
      needsHuman |-> a.needsHuman \/ category \in AlwaysHuman,
      confidence |-> CoerceConfidence(a.confidence)]

-----------------------------------------------------------------------------
(* route.decide_route.                                                     *)

EffectiveMode == IF environ THEN "draft_only" ELSE config.mode

(* The conditions that escalate before the mode is looked at.              *)
Escalates(c) ==
  \/ mail.to \in config.humanIdentities
  \/ c.sentiment = "negative"
  \/ c.category \in config.humanCategories \cup AlwaysHuman
  \/ c.confidence < Threshold
  \/ c.needsHuman

MayAutoSend(c) == c.category \in config.allowlist /\ c.confidence >= Threshold

DecideIgnoringKillSwitch(c) ==
  IF Escalates(c) THEN "escalate"
  ELSE IF config.mode = "auto" /\ MayAutoSend(c) THEN "auto_send" ELSE "approve"

DecideModeFirst(c) ==
  IF EffectiveMode # "auto" THEN "approve"
  ELSE IF Escalates(c) THEN "escalate"
  ELSE IF MayAutoSend(c) THEN "auto_send" ELSE "approve"

Decide(c) ==
  IF Escalates(c) THEN "escalate"
  ELSE IF EffectiveMode = "auto" /\ MayAutoSend(c) THEN "auto_send" ELSE "approve"

-----------------------------------------------------------------------------
(* Nothing of a mail stays in the process when it is done with.            *)
Forget ==
  /\ mail' = None /\ brand' = None /\ answer' = None /\ class' = None
  /\ action' = None /\ reply' = None

Init ==
  /\ environ \in BOOLEAN
  /\ config \in Configs
  /\ stage = "idle"
  /\ mail = None /\ brand = None /\ answer = None /\ class = None
  /\ action = None /\ reply = None

(* _parse and _prefilter.                                                  *)
Receive ==
  /\ stage = "idle"
  /\ mail' \in Mails
  /\ brand' = BrandOf(mail'.to, config.brands)
  /\ stage' = IF Dropped(mail') THEN "dropped" ELSE "parsed"
  /\ UNCHANGED <<settings, answer, class, action, reply>>

(* The triage model answers about it.                                      *)
Answer ==
  /\ stage = "parsed" /\ stage' = "answered"
  /\ answer' \in Answers
  /\ UNCHANGED <<settings, mail, brand, class, action, reply>>

Classify ==
  /\ stage = "answered" /\ stage' = "classified"
  /\ class' = Coerce(answer)
  /\ UNCHANGED <<settings, mail, brand, answer, action, reply>>

Route ==
  /\ stage = "classified" /\ stage' = "routed"
  /\ action' = Decide(class)
  /\ UNCHANGED <<settings, mail, brand, answer, class, reply>>

(* The draft is sent, or has been queued: what the model said is over.     *)
ForgetAnswer == answer' = None /\ class' = None /\ action' = None

(* transport.send: an identity must be configured for the sending mailbox, *)
(* and the SMTP server takes no reply without a recipient.                 *)
Sends(from, identities) ==
  /\ IdentityFor(from, identities) # None
  /\ TrueSender(mail) # None
  /\ reply' = [from |-> from, to |-> TrueSender(mail)]

AutoSend ==
  /\ stage = "routed" /\ action = "auto_send" /\ stage' = "sent"
  /\ Sends(mail.to, config.identities)
  /\ ForgetAnswer
  /\ UNCHANGED <<settings, mail, brand>>

Enqueue ==
  /\ stage = "routed" /\ action # "auto_send" /\ stage' = "queued"
  /\ ForgetAnswer
  /\ UNCHANGED <<settings, mail, brand, reply>>

(* process_approval with send or edit, in a process of its own, which loads *)
(* the scenario again.  When it cannot send, the draft stays queued.       *)
Approve ==
  /\ stage = "queued" /\ stage' = "sent"
  /\ environ' \in BOOLEAN /\ config' \in Configs
  /\ Sends(ReplyIdentity(mail.to, brand, config'.identities), config'.identities)
  /\ UNCHANGED <<mail, brand, answer, class, action>>

(* The mail is done with: answered, dropped, discarded by an operator, or  *)
(* given up for this run because a call raised.                            *)
Finish ==
  /\ stage \in {"dropped", "sent", "queued"} \cup Drafting /\ stage' = "idle"
  /\ Forget
  /\ UNCHANGED settings

(* The service stops, wherever it is, and is started again: main loads     *)
(* .env and the scenario and sees the edits made since.  A queued draft is *)
(* in the database and waits on.                                           *)
Stop ==
  /\ stage \notin {"down", "queued"} /\ stage' = "down"
  /\ Forget
  /\ UNCHANGED settings

Start ==
  /\ stage = "down" /\ stage' = "idle"
  /\ environ' \in BOOLEAN /\ config' \in Configs
  /\ UNCHANGED <<mail, brand, answer, class, action, reply>>

Next ==
  \/ Receive \/ Answer \/ Classify \/ Route \/ AutoSend \/ Enqueue \/ Approve
  \/ Finish \/ Stop \/ Start

Spec == Init /\ [][Next]_vars

-----------------------------------------------------------------------------
(* A reply goes out unseen only if the kill switch of the process is off,  *)
(* the mode is auto, the category is allowed and needs no human, and the   *)
(* model itself was confident, not negative and asked for nobody: the      *)
(* table of route.py, of the model's own answer, for every coercion.       *)
AutoSendIsEarned ==
  stage = "routed" /\ action = "auto_send" =>
    /\ ~environ /\ config.mode = "auto"
    /\ class.category \in config.allowlist \ (config.humanCategories \cup AlwaysHuman)
    /\ answer.category \notin AlwaysHuman
    /\ answer.category \in config.allowlist \/ "other" \in config.allowlist
    /\ mail.to \notin config.humanIdentities
    /\ answer.sentiment # "negative" /\ ~answer.needsHuman
    /\ answer.confidence.kind = "number" /\ Threshold > 0
         => answer.confidence.value >= Threshold

(* Negative, low-confidence, billing, legal and refund mail, and mail to   *)
(* an address that always needs a human, is escalated in every mode and    *)
(* with the kill switch on or off: it never waits in the ordinary queue.   *)
DangerIsEscalated ==
  stage = "routed" /\ (\/ mail.to \in config.humanIdentities
                       \/ answer.sentiment = "negative"
                       \/ answer.category \in AlwaysHuman
                       \/ answer.needsHuman
                       \/ /\ answer.confidence.kind = "number"
                          /\ 0 < Threshold /\ answer.confidence.value < Threshold)
    => action = "escalate"

(* Loop prevention from end to end: no reply, automatic or approved, ever  *)
(* goes to an address nobody reads or answers a mail whose headers or      *)
(* subject call it automatic, whichever of Reply-To, body and From the     *)
(* recipient was taken from.                                               *)
NoRobotIsAnswered ==
  stage = "sent" => reply.to \notin Automated /\ ~AutomatedHeaders(mail)

(* A customer whose form mail comes from the site's own system mailer is   *)
(* heard, and a reply goes to the Reply-To: the prefilter must not judge   *)
(* by From what parse_raw took from Reply-To.                              *)
FormCustomerIsHeard ==
  stage \notin {"down", "idle"} /\ mail.replyTo \notin Automated \cup {None} =>
    /\ stage = "dropped" => AutomatedHeaders(mail) \/ mail.empty
    /\ stage = "sent" => reply.to = mail.replyTo

(* A reply leaves as the mailbox the customer wrote to, under whatever     *)
(* configuration it is approved in the end; only when that mailbox is no   *)
(* identity any more does another one of the same brand stand in.          *)
ReplyKeepsMailbox ==
  stage = "sent" =>
    /\ IdentityFor(reply.from, config.identities) # None
    /\ \/ reply.from = mail.to
       \/ /\ IdentityFor(mail.to, config.identities) = None
          /\ brand # None /\ {reply.from, mail.to} \subseteq Names[brand]
=============================================================================
