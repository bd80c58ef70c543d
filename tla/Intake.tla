------------------------------- MODULE Intake -------------------------------
(***************************************************************************)
(* What parse_raw and prefilter make of a mail: who wrote it, for which    *)
(* brand, and whether it is dropped; and as which mailbox a reply leaves.  *)
(*                                                                         *)
(* Addresses are compared case-folded throughout, so an address stands for *)
(* all its spellings.  A mail is a record of                               *)
(*   from, replyTo, to  the first address of the header, or None;          *)
(*   mentions           the addresses in its text part, in order;          *)
(*   auto               the Auto-Submitted header: absent, "no", or else;  *)
(*   bulk               a list, precedence or auto-response header;        *)
(*   autoSubject        a subject of an out-of-office reply or a bounce;   *)
(*   empty              neither a text nor an HTML part with content.      *)
(***************************************************************************)
EXTENDS Naturals, Sequences

CONSTANTS
  Addresses,   \* mail addresses
  Automated,   \* those whose local part says nobody reads them
  Malformed,   \* a mention two of the patterns take and _EMAIL_RE refuses
  Brands,      \* keys of the brands section
  Names,       \* Names[b]: the addresses in whose text the key b occurs
  None

(* The element at the first of the positions hits of s, None if there is   *)
(* none.                                                                   *)
First(s, hits) ==
  IF hits = {} THEN None ELSE s[CHOOSE i \in hits : \A j \in hits : i <= j]

Styles == {"labelled", "angled", "plain"}

Mention == [style : Styles, addr : Addresses \cup {Malformed}]

Mail ==
  [from : Addresses \cup {None}, replyTo : Addresses \cup {None},
   to : Addresses \cup {None}, mentions : Seq(Mention), auto : {"absent", "no", "yes"},
   bulk : BOOLEAN, autoSubject : BOOLEAN, empty : BOOLEAN]

ASSUME IntakeAssumption ==
  /\ Automated \subseteq Addresses
  /\ Names \in [Brands -> SUBSET Addresses]
  /\ Malformed \notin Addresses
  /\ None \notin Addresses \cup {Malformed} \cup Brands \cup Mention

-----------------------------------------------------------------------------
(* resolve_true_sender.  The patterns are tried in the order "label: a@b", *)
(* "<a@b>", a@b anywhere; only the first match of each is looked at, and   *)
(* the last one matches nothing malformed.                                 *)

FirstMatch(mentions, hits) ==
  LET match == First(mentions, hits)
  IN IF match = None \/ match.addr = Malformed THEN None ELSE match.addr

Styled(mentions, style) == {i \in DOMAIN mentions : mentions[i].style = style}
WellFormed(mentions) == {i \in DOMAIN mentions : mentions[i].addr # Malformed}

BodySender(mail) ==
  LET labelled == FirstMatch(mail.mentions, Styled(mail.mentions, "labelled"))
      angled   == FirstMatch(mail.mentions, Styled(mail.mentions, "angled"))
  IN IF labelled # None THEN labelled
     ELSE IF angled # None THEN angled
     ELSE FirstMatch(mail.mentions, WellFormed(mail.mentions))

TrueSenderFromBody(mail) ==
  IF BodySender(mail) # None THEN BodySender(mail)
  ELSE IF mail.replyTo # None THEN mail.replyTo ELSE mail.from

TrueSender(mail) ==
  IF mail.replyTo # None THEN mail.replyTo
  ELSE IF BodySender(mail) # None THEN BodySender(mail) ELSE mail.from

(* prefilter.  The From header counts only when it is the true sender.     *)
AutomatedHeaders(mail) == mail.auto = "yes" \/ mail.bulk \/ mail.autoSubject

DroppedByFrom(mail) ==
  mail.from \in Automated \/ AutomatedHeaders(mail) \/ mail.empty

Dropped(mail) ==
  \/ TrueSender(mail) \in Automated
  \/ TrueSender(mail) = mail.from /\ mail.from \in Automated
  \/ AutomatedHeaders(mail)
  \/ mail.empty

-----------------------------------------------------------------------------
(* The mailbox a reply leaves as: identity_for, and _brand_to_addr for an  *)
(* approval whose recipient is no identity (any more).  identities and     *)
(* brands are in the order of the configuration file; None is no mailbox.  *)

(* resolve_brand: the first brand whose key occurs in the To address.      *)
BrandOf(to, brands) == First(brands, {i \in DOMAIN brands : to \in Names[brands[i]]})

IdentityFor(to, identities) ==
  First(identities, {i \in DOMAIN identities : identities[i] = to})

BrandIdentity(brand, identities) ==
  IF brand = None THEN None
  ELSE First(identities, {i \in DOMAIN identities : identities[i] \in Names[brand]})

ReplyIdentityByBrand(replyFrom, brand, identities) ==
  BrandIdentity(brand, identities)

ReplyIdentity(replyFrom, brand, identities) ==
  IF IdentityFor(replyFrom, identities) # None THEN replyFrom
  ELSE BrandIdentity(brand, identities)
=============================================================================
