------------------------------ MODULE MCRouting ------------------------------
(***************************************************************************)
(* Routing on every mode and allowlist that matters, with confidences, in  *)
(* tenths, on both sides of 0, of the threshold and of 1, and mail of      *)
(* customers, forms, robots and from nobody.  The scenarios differ in      *)
(* which mailbox of brand A is an identity.                                *)
(***************************************************************************)
EXTENDS Routing

TestNames == [b \in {"a", "b"} |-> IF b = "a" THEN {"support@a", "legal@a"} ELSE {"contact@b"}]

TestConfigs ==
  [mode : Modes, allowlist : {{"faq"}, {"faq", "billing", "other"}},
   humanCategories : {{}, {"faq"}}, humanIdentities : {{"legal@a"}},
   identities : {<<"legal@a", "support@a", "contact@b">>, <<"contact@b", "legal@a">>},
   brands : {<<"a", "b">>}]

TestConfidences ==
  [kind : {"number"}, value : {-1, 7, 8, 12}] \cup [kind : {"nan", "unreadable"}, value : {0}]

TestAnswers ==
  [category : {"faq", "billing", "other", "gibberish"}, sentiment : {"negative", "angry"},
   needsHuman : BOOLEAN, confidence : TestConfidences]

Says(style, addr) == [style |-> style, addr |-> addr]

TestBodies ==
  {<<>>,
   <<Says("plain", "support@a")>>,
   <<Says("plain", "noreply@"), Says("labelled", "ann@")>>,
   <<Says("labelled", "malformed"), Says("plain", "noreply@"), Says("angled", "bob@")>>}

Customers ==
  [from : {"ann@", "noreply@", None}, replyTo : {None, "bob@", "noreply@"},
   to : {"support@a", "legal@a"}, mentions : TestBodies, auto : {"no"}, bulk : {FALSE},
   autoSubject : {FALSE}, empty : {FALSE}]

Machines ==
  [from : {"ann@"}, replyTo : {None, "bob@"}, to : {"support@a", None}, mentions : {<<>>},
   auto : {"absent", "no", "yes"}, bulk : BOOLEAN, autoSubject : BOOLEAN, empty : BOOLEAN]

TestMails == Customers \cup Machines
=============================================================================
