----------------------------- MODULE MCSlaSweep -----------------------------
(***************************************************************************)
(* Three drafts, two of them about one message (a run that was cut off and *)
(* repeated), and two messages in one thread.                              *)
(***************************************************************************)
EXTENDS SlaSweep, TLC

CONSTANTS a1, a2, a3, m1, m2, t1, p1, c1

TestMsgOf == a1 :> m1 @@ a2 :> m1 @@ a3 :> m2

TestThreadOf == m1 :> t1 @@ m2 :> t1
=============================================================================
