--------------------------- MODULE OutcomeContract ---------------------------
(***************************************************************************)
(* What the pipeline promises about the outcomes of one Message-ID, with   *)
(* the mailbox, the tables and the processes left out.                     *)
(*                                                                         *)
(* An outcome is an effect a person can see: a reply sent automatically,   *)
(* or a draft put in the approval queue.  The idempotency gate cannot make *)
(* outcomes exactly-once, because the outcome and the row that records it  *)
(* are two commits.  What it does promise is that outcomes are repeated    *)
(* for two reasons only: a run was cut off before it could record its      *)
(* outcome, and one cut excuses one repetition; or several workers ran the *)
(* message at once, each of which adds one at most, ever.  With one worker *)
(* an outcome follows another only when that one was cut off.              *)
(***************************************************************************)
EXTENDS Naturals

CONSTANTS
  MsgIds,
  Parallel    \* how many workers there are

VARIABLES
  outcomes,   \* outcomes[m]: how many outcomes m has had
  cut         \* cut[m]: how many of them were not recorded before the run ended

vars == <<outcomes, cut>>

Init ==
  /\ outcomes = [m \in MsgIds |-> 0]
  /\ cut = [m \in MsgIds |-> 0]

(* A run handles m: there are fewer outcomes that were not cut off than    *)
(* there are workers.                                                      *)
Produce(m) ==
  /\ outcomes[m] < cut[m] + Parallel
  /\ outcomes' = [outcomes EXCEPT ![m] = @ + 1]
  /\ UNCHANGED cut

(* A run that produced an outcome ends before recording it.                *)
Cut(m) ==
  /\ outcomes[m] > cut[m]
  /\ cut' = [cut EXCEPT ![m] = @ + 1]
  /\ UNCHANGED outcomes

Next == \E m \in MsgIds : Produce(m) \/ Cut(m)

Spec == Init /\ [][Next]_vars
=============================================================================
