---------------------------- MODULE IntakeProofs ----------------------------
(***************************************************************************)
(* What the operators of Intake return, for every mail, every list of      *)
(* identities and every list of brands.                                    *)
(***************************************************************************)
EXTENDS Intake, WellFoundedInduction, TLAPS

USE IntakeAssumption

(* A set of positions that is not empty has a first one.                   *)
LEMMA FirstPosition ==
  ASSUME NEW n \in Nat, NEW hits \in SUBSET (1..n), hits # {}
  PROVE  \E i \in hits : \A j \in hits : i <= j
  <1> DEFINE Less == OpToRel(<, Nat)
  <1>1. IsWellFoundedOn(Less, Nat)
    BY NatLessThanWellFounded
  <1>2. PICK i \in hits : \A j \in hits : ~(<<j, i>> \in Less)
    <2>1. hits \subseteq Nat
      OBVIOUS
    <2> HIDE DEF Less
    <2> QED BY <1>1, <2>1, WFMin
  <1>3. \A j \in hits : j < i => <<j, i>> \in Less
    BY DEF OpToRel
  <1>4. \A j \in hits : ~(j < i)
    <2> HIDE DEF Less
    <2> QED BY <1>2, <1>3
  <1> QED BY <1>4

(* First picks an element at one of the positions, and None only when      *)
(* there is none.                                                          *)
LEMMA FirstIsAHit ==
  ASSUME NEW S, NEW s \in Seq(S), NEW hits \in SUBSET DOMAIN s, None \notin S
  PROVE  /\ First(s, hits) = None <=> hits = {}
         /\ hits # {} => \E i \in hits : First(s, hits) = s[i]
         /\ First(s, hits) \in S \cup {None}
  <1>1. CASE hits = {}
    BY <1>1 DEF First
  <1>2. CASE hits # {}
    <2>1. PICK i \in hits : \A j \in hits : i <= j
      <3>1. Len(s) \in Nat /\ hits \in SUBSET (1..Len(s))
        OBVIOUS
      <3> QED BY <1>2, <3>1, FirstPosition
    <2>2. (CHOOSE i0 \in hits : \A j \in hits : i0 <= j) \in hits
      BY <2>1
    <2>3. \A k \in DOMAIN s : s[k] \in S
      OBVIOUS
    <2> QED BY <1>2, <2>2, <2>3 DEF First
  <1> QED BY <1>1, <1>2

(* The sender recovered from a body is a well-formed address, or nothing.  *)
LEMMA BodySenderIsAddress ==
  ASSUME NEW mail \in Mail
  PROVE  BodySender(mail) \in Addresses \cup {None}
  <1>1. mail.mentions \in Seq(Mention) /\ None \notin Mention
    BY DEF Mail
  <1>2. ASSUME NEW hits \in SUBSET DOMAIN mail.mentions
        PROVE  FirstMatch(mail.mentions, hits) \in Addresses \cup {None}
    <2>1. First(mail.mentions, hits) \in Mention \cup {None}
      BY <1>1, FirstIsAHit
    <2>2. \A x \in Mention : x.addr \in Addresses \cup {Malformed}
      BY DEF Mention
    <2> QED BY <2>1, <2>2 DEF FirstMatch
  <1>3. /\ \A style : Styled(mail.mentions, style) \in SUBSET DOMAIN mail.mentions
        /\ WellFormed(mail.mentions) \in SUBSET DOMAIN mail.mentions
    BY DEF Styled, WellFormed
  <1> QED BY <1>2, <1>3 DEF BodySender

LEMMA TrueSenderIsAddress ==
  ASSUME NEW mail \in Mail
  PROVE  /\ TrueSender(mail) \in Addresses \cup {None}
         /\ mail.replyTo # None => TrueSender(mail) = mail.replyTo
  BY BodySenderIsAddress DEF TrueSender, Mail

(* A brand is found only where its key occurs.                             *)
LEMMA BrandOccurs ==
  ASSUME NEW brands \in Seq(Brands), NEW to
  PROVE  /\ BrandOf(to, brands) \in Brands \cup {None}
         /\ BrandOf(to, brands) # None => to \in Names[BrandOf(to, brands)]
  <1> DEFINE hits == {i \in DOMAIN brands : to \in Names[brands[i]]}
  <1>1. /\ hits \in SUBSET DOMAIN brands /\ None \notin Brands
        /\ BrandOf(to, brands) = First(brands, hits)
    BY DEF BrandOf
  <1>2. \A i \in hits : to \in Names[brands[i]]
    OBVIOUS
  <1> HIDE DEF hits
  <1> QED BY <1>1, <1>2, FirstIsAHit

(* identity_for finds the mailbox itself.                                  *)
LEMMA IdentityIsItself ==
  ASSUME NEW identities \in Seq(Addresses), NEW to
  PROVE  /\ IdentityFor(to, identities) \in {to, None}
         /\ IdentityFor(to, identities) # None =>
              to \in Addresses /\ IdentityFor(to, identities) = to
  <1> DEFINE hits == {i \in DOMAIN identities : identities[i] = to}
  <1>1. /\ hits \in SUBSET DOMAIN identities /\ None \notin Addresses
        /\ IdentityFor(to, identities) = First(identities, hits)
    BY DEF IdentityFor
  <1>2. \A i \in hits : identities[i] = to
    OBVIOUS
  <1> HIDE DEF hits
  <1> QED BY <1>1, <1>2, FirstIsAHit

(* The stand-in of a brand carries the key of the brand.                   *)
LEMMA StandInIsOfBrand ==
  ASSUME NEW identities \in Seq(Addresses), NEW brand \in Brands,
         BrandIdentity(brand, identities) # None
  PROVE  BrandIdentity(brand, identities) \in Names[brand]
  <1> DEFINE hits == {i \in DOMAIN identities : identities[i] \in Names[brand]}
  <1>1. /\ hits \in SUBSET DOMAIN identities /\ None \notin Addresses /\ brand # None
        /\ BrandIdentity(brand, identities) = First(identities, hits)
    BY DEF BrandIdentity
  <1>2. \A i \in hits : identities[i] \in Names[brand]
    OBVIOUS
  <1> HIDE DEF hits
  <1> QED BY <1>1, <1>2, FirstIsAHit
=============================================================================
