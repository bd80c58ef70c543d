---------------------------- MODULE ApprovalQueue ----------------------------
(***************************************************************************)
(* What everything else may rely on of the approvals table, with the runs  *)
(* that fill it and the commands that decide drafts left out: a draft is   *)
(* queued once, for one message, and once it is decided it is never        *)
(* pending again.  Pipeline implements this, and SlaSweep takes its        *)
(* actions for what happens to the table while sweeps are under way.       *)
(***************************************************************************)
CONSTANTS
  Approvals,  \* primary keys
  Messages,
  None

VARIABLES
  status,     \* status[a]: "none" (no such row), "pending" or "decided"
  about       \* about[a]: the message of the draft, None when there is no row

vars == <<status, about>>

Init ==
  /\ status = [a \in Approvals |-> "none"]
  /\ about = [a \in Approvals |-> None]

Enqueue(a, m) ==
  /\ status[a] = "none" /\ status' = [status EXCEPT ![a] = "pending"]
  /\ about' = [about EXCEPT ![a] = m]

(* A draft may be decided a second time.                                   *)
Decide(a) ==
  /\ status[a] # "none" /\ status' = [status EXCEPT ![a] = "decided"]
  /\ about' = about

Next == \E a \in Approvals : Decide(a) \/ \E m \in Messages : Enqueue(a, m)

Spec == Init /\ [][Next]_vars
=============================================================================
