------------------------------ MODULE SlaSweep ------------------------------
(***************************************************************************)
(* The SLA follow-up of maintenance.py: list_overdue_pending and           *)
(* run_sla_followups, which the poll loop calls after every pass and the   *)
(* "sla" command once.  Sweepers are processes on one SQLite file; each    *)
(* query and each statement is a step, and people decide drafts meanwhile. *)
(***************************************************************************)
EXTENDS Naturals, FiniteSets

CONSTANTS
  Approvals, Messages, Threads,
  MsgOf,       \* MsgOf[a]: the message approval a is about
  ThreadOf,    \* ThreadOf[m]: the thread of m, None when its row has none
  Pollers,     \* processes running "run_agent run"
  Commands,    \* processes running "run_agent sla"
  MaxFaults,   \* bound on sweeps that raise or die, and on passes without one
  None

Sweepers == Pollers \cup Commands

ASSUME SlaAssumption ==
  /\ MsgOf \in [Approvals -> Messages]
  /\ ThreadOf \in [Messages -> Threads \cup {None}]
  /\ None \notin Threads \cup Approvals
  /\ IsFiniteSet(Sweepers)
  /\ MaxFaults \in Nat

VARIABLES
  clock,     \* approvals created so far: creation times are their numbers
  created,   \* approvals.created_at, 0 when a is not in the table
  cutoff,    \* creation times up to this one are past sla.follow_up_hours
  status,    \* approvals.status: "none", "pending" or "decided"
  overdue,   \* overdue[t]: the approval whose deadline thread t is flagged with
  nudges,    \* nudges[m]: the sla_followup rows of m in audit_log
  pc,        \* pc[s]: where sweeper s is
  todo,      \* todo[s]: the overdue approvals it listed and has not looked at
  cur,       \* cur[s]: the one at hand
  asOf,      \* asOf[s]: the cutoff its list was made with, 0 between sweeps
  faults

queue == <<clock, created, cutoff, status>>
vars == <<clock, created, cutoff, status, overdue, nudges, pc, todo, cur, asOf, faults>>

TypeOK ==
  /\ clock \in Nat /\ created \in [Approvals -> Nat] /\ cutoff \in Nat
  /\ status \in [Approvals -> {"none", "pending", "decided"}]
  /\ \A a \in Approvals : created[a] = 0 <=> status[a] = "none"
  /\ overdue \in [Threads -> Approvals \cup {None}]
  /\ nudges \in [Messages -> Nat]
  /\ pc \in [Sweepers -> {"idle", "check", "flag", "audit"}]
  /\ todo \in [Sweepers -> SUBSET Approvals]
  /\ cur \in [Sweepers -> Approvals \cup {None}]
  /\ \A s \in Sweepers : pc[s] \in {"flag", "audit"} => cur[s] \in Approvals
  /\ asOf \in [Sweepers -> Nat]
  /\ faults \in Nat

Init ==
  /\ clock = 0 /\ created = [a \in Approvals |-> 0] /\ cutoff = 0
  /\ status = [a \in Approvals |-> "none"]
  /\ overdue = [t \in Threads |-> None]
  /\ nudges = [m \in Messages |-> 0]
  /\ pc = [s \in Sweepers |-> "idle"]
  /\ todo = [s \in Sweepers |-> {}]
  /\ cur = [s \in Sweepers |-> None]
  /\ asOf = [s \in Sweepers |-> 0]
  /\ faults = 0

-----------------------------------------------------------------------------
(* The approvals table, as ApprovalQueue allows and Pipeline fills it, and *)
(* time.                                                                   *)

Queue == INSTANCE ApprovalQueue
           WITH about <- [a \in Approvals |-> IF status[a] = "none" THEN None ELSE MsgOf[a]]

EnqueueUndated(a) ==
  /\ status[a] = "none" /\ status' = [status EXCEPT ![a] = "pending"]
  /\ clock' = clock + 1
  /\ UNCHANGED <<created, cutoff, overdue, nudges, pc, todo, cur, asOf, faults>>

Enqueue(a) ==
  /\ Queue!Enqueue(a, MsgOf[a])
  /\ clock' = clock + 1
  /\ created' = [created EXCEPT ![a] = clock + 1]
  /\ UNCHANGED <<cutoff, overdue, nudges, pc, todo, cur, asOf, faults>>

Decide(a) ==
  /\ Queue!Decide(a)
  /\ UNCHANGED <<clock, created, cutoff, overdue, nudges, pc, todo, cur, asOf, faults>>

Age ==
  /\ cutoff < clock /\ cutoff' = cutoff + 1
  /\ UNCHANGED <<clock, created, status, overdue, nudges, pc, todo, cur, asOf, faults>>

-----------------------------------------------------------------------------
(* A sweep.                                                                *)

PastDeadline(a) == created[a] \in 1..cutoff

(* list_overdue_pending.                                                   *)
OverduePending == {a \in Approvals : status[a] = "pending" /\ PastDeadline(a)}

(* The thread of the item at hand, as the list's join gave it.             *)
Thread(a) == ThreadOf[MsgOf[a]]

List(s) ==
  /\ pc[s] = "idle" /\ pc' = [pc EXCEPT ![s] = "check"]
  /\ todo' = [todo EXCEPT ![s] = OverduePending]
  /\ asOf' = [asOf EXCEPT ![s] = cutoff]
  /\ UNCHANGED <<queue, overdue, nudges, cur, faults>>

Oldest(a, s) == a \in todo[s] /\ \A b \in todo[s] : created[a] <= created[b]

CheckEndingSweep(s) ==
  /\ pc[s] = "check"
  /\ \E a \in Approvals :
       /\ Oldest(a, s)
       /\ IF nudges[MsgOf[a]] > 0
          THEN todo' = [todo EXCEPT ![s] = {}] /\ UNCHANGED <<pc, cur>>
          ELSE /\ todo' = [todo EXCEPT ![s] = @ \ {a}]
               /\ cur' = [cur EXCEPT ![s] = a]
               /\ pc' = [pc EXCEPT ![s] = "flag"]
  /\ UNCHANGED <<queue, overdue, nudges, asOf, faults>>

CheckNothing(s) ==
  /\ pc[s] = "check"
  /\ \E a \in Approvals :
       /\ Oldest(a, s)
       /\ todo' = [todo EXCEPT ![s] = @ \ {a}]
       /\ cur' = [cur EXCEPT ![s] = a]
       /\ pc' = [pc EXCEPT ![s] = "flag"]
  /\ UNCHANGED <<queue, overdue, nudges, asOf, faults>>

CheckByThread(s) ==
  /\ pc[s] = "check"
  /\ \E a \in Approvals :
       /\ Oldest(a, s)
       /\ todo' = [todo EXCEPT ![s] = @ \ {a}]
       /\ IF Thread(a) # None /\ overdue[Thread(a)] # None
          THEN UNCHANGED <<pc, cur>>
          ELSE cur' = [cur EXCEPT ![s] = a] /\ pc' = [pc EXCEPT ![s] = "flag"]
  /\ UNCHANGED <<queue, overdue, nudges, asOf, faults>>

(* The next item, oldest first: skipped when its message has an            *)
(* sla_followup row.                                                       *)
Check(s) ==
  /\ pc[s] = "check"
  /\ \E a \in Approvals :
       /\ Oldest(a, s)
       /\ todo' = [todo EXCEPT ![s] = @ \ {a}]
       /\ IF nudges[MsgOf[a]] > 0
          THEN UNCHANGED <<pc, cur>>
          ELSE cur' = [cur EXCEPT ![s] = a] /\ pc' = [pc EXCEPT ![s] = "flag"]
  /\ UNCHANGED <<queue, overdue, nudges, asOf, faults>>

FlagNothing(s) ==
  /\ pc[s] = "flag" /\ pc' = [pc EXCEPT ![s] = "audit"]
  /\ UNCHANGED <<queue, overdue, nudges, todo, cur, asOf, faults>>

(* The thread is marked overdue with the deadline of this approval.        *)
Flag(s) ==
  /\ pc[s] = "flag" /\ pc' = [pc EXCEPT ![s] = "audit"]
  /\ overdue' = [t \in Threads |-> IF t = Thread(cur[s]) THEN cur[s] ELSE overdue[t]]
  /\ UNCHANGED <<queue, nudges, todo, cur, asOf, faults>>

(* The sla_followup row, and on with the list.                             *)
Audit(s) ==
  /\ pc[s] = "audit" /\ pc' = [pc EXCEPT ![s] = "check"]
  /\ nudges' = [nudges EXCEPT ![MsgOf[cur[s]]] = @ + 1]
  /\ cur' = [cur EXCEPT ![s] = None]
  /\ UNCHANGED <<queue, overdue, todo, asOf, faults>>

EndSweep(s) ==
  /\ pc[s] = "check" /\ todo[s] = {} /\ pc' = [pc EXCEPT ![s] = "idle"]
  /\ asOf' = [asOf EXCEPT ![s] = 0]
  /\ UNCHANGED <<queue, overdue, nudges, todo, cur, faults>>

(* A query or statement raises, or the process dies: the sweep is over.    *)
(* The poll loop logs it and sleeps; the next sweep lists again.           *)
Fail(s) ==
  /\ pc[s] # "idle" /\ pc' = [pc EXCEPT ![s] = "idle"]
  /\ faults < MaxFaults /\ faults' = faults + 1
  /\ todo' = [todo EXCEPT ![s] = {}] /\ cur' = [cur EXCEPT ![s] = None]
  /\ asOf' = [asOf EXCEPT ![s] = 0]
  /\ UNCHANGED <<queue, overdue, nudges>>

Sweep(s) == List(s) \/ Check(s) \/ Flag(s) \/ Audit(s) \/ EndSweep(s)

Next ==
  \/ \E a \in Approvals : Enqueue(a) \/ Decide(a)
  \/ Age
  \/ \E s \in Sweepers : Sweep(s) \/ Fail(s)

Spec == Init /\ [][Next]_vars

(* run_loop sweeps after every pass, for ever; nobody need run a command.  *)
FairSpec == Spec /\ \A s \in Pollers : WF_vars(Sweep(s))

-----------------------------------------------------------------------------
(* "Nudge drafts that breached SLA - once each" (run_sla_followups), as    *)
(* far as the code goes: looking for the row and writing it are two steps, *)
(* and a message gets at most one nudge from each process that sweeps at   *)
(* the same time, however often sweeps fail and start again.  With the     *)
(* poll loop alone that is once each.                                      *)
NudgedOncePerSweeper == \A m \in Messages : nudges[m] <= Cardinality(Sweepers)

(* A nudged message has a draft past its deadline, and the thread of the   *)
(* message is flagged with a deadline that has passed: the digest never    *)
(* reports a breach the threads table does not know of.                    *)
NudgeIsOnRecord ==
  \A m \in Messages : nudges[m] > 0 =>
    /\ \E a \in Approvals : MsgOf[a] = m /\ PastDeadline(a)
    /\ ThreadOf[m] # None =>
         overdue[ThreadOf[m]] # None /\ PastDeadline(overdue[ThreadOf[m]])

(* A sweep that is through with its list has missed nobody: each draft that *)
(* was overdue when it asked and is still pending has its message nudged,   *)
(* by this sweep, by one before it or by one at the same time, although     *)
(* drafts are queued and decided while it works.                            *)
SweepMissesNobody ==
  \A s \in Sweepers : pc[s] = "check" /\ todo[s] = {} =>
    \A a \in Approvals :
      status[a] = "pending" /\ created[a] \in 1..asOf[s] => nudges[MsgOf[a]] > 0

(* A draft that stays pending past its deadline has its message nudged in  *)
(* the end, whatever was nudged, decided or has failed before.             *)
OverdueIsNudged ==
  \A a \in Approvals :
    (status[a] = "pending" /\ PastDeadline(a))
      ~> (status[a] # "pending" \/ nudges[MsgOf[a]] > 0)
=============================================================================
