------------------------------ MODULE MCRecords ------------------------------
(***************************************************************************)
(* Two messages of one customer about one topic, the second of them a      *)
(* reply, each with an attachment of the same name, and a second           *)
(* attachment of the first that _safe spells like its sibling.             *)
(***************************************************************************)
EXTENDS Records, TLC

CONSTANTS m1, m2, a1, a2, a3, s1, k1, p1, x1, t1, t2, t3, t4, t5, n1

TestSenderOf == m1 :> s1 @@ m2 :> s1
TestTopicOf == m1 :> k1 @@ m2 :> k1
TestOwnerOf == a1 :> m1 @@ a2 :> m1 @@ a3 :> m2
TestDirOf == m1 :> m1 @@ m2 :> m2
TestNameOf == a1 :> n1 @@ a2 :> n1 @@ a3 :> n1
=============================================================================
