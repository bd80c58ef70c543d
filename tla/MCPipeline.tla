----------------------------- MODULE MCPipeline -----------------------------
(***************************************************************************)
(* Small instances of Pipeline for TLC.                                    *)
(***************************************************************************)
EXTENDS PipelineClaims, TLC

CONSTANTS u1, u2, m1, m2, a1, a2, a3, w1, w2, x1, o1, o2

(* One delivery.                                                           *)
OneMessageOnce == u1 :> m1

(* Two deliveries of one message: a redelivery with a UID of its own.      *)
OneMessageTwice == (u1 :> m1) @@ (u2 :> m1)

(* Two messages, one delivery each.                                        *)
TwoMessages == (u1 :> m1) @@ (u2 :> m2)

(* Primary keys are uuids, commands processes: both are interchangeable.    *)
Interchangeable ==
  Permutations(ApprovalIds) \cup Permutations(Operators) \cup Permutations(Pollers)
=============================================================================
