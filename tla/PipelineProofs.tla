--------------------------- MODULE PipelineProofs ---------------------------
(***************************************************************************)
(* Proofs about Pipeline, for every set of deliveries, messages, processes *)
(* and approvals and every bound.                                          *)
(***************************************************************************)
EXTENDS Pipeline, FiniteSetTheorems, TLAPS

(* What the local state of a run, of a command and of a row refers to.     *)

RunHasRaw == \A w \in Workers : pc[w] \notin {"sleep", "loop"} => cur[w] \in Uids

RunHasOutcome ==
  \A w \in Workers :
    pc[w] \in {"act", "audit", "settle", "log", "move", "finish"} => outcome[w] \in Outcomes

RunHasRow ==
  \A w \in Workers :
    pc[w] \in {"draft", "act", "audit", "settle", "log", "move", "finish"}
      => folder[Msg(w)] # None

RowHasUid ==
  \A m \in MsgIds : folder[m] # None => rowUid[m] \in Uids /\ MsgOf[rowUid[m]] = m

QueuedHasRow ==
  \A a \in ApprovalIds :
    IF Queued(a) THEN approvals[a].msg \in MsgIds /\ folder[approvals[a].msg] # None
                 ELSE approvals[a].msg = None

CommandHasTarget ==
  \A o \in Operators : opc[o] # "off" =>
    target[o] \in ApprovalIds /\ Queued(target[o]) /\ decision[o] \in Decisions

Refs ==
  /\ RunHasRaw /\ RunHasOutcome /\ RunHasRow
  /\ RowHasUid /\ QueuedHasRow /\ CommandHasTarget

(* The typing invariant is not inductive without the references.           *)
Typing == TypeOK /\ Refs

USE PipelineAssumption

(* At the start no run, command, row or approval refers to anything.       *)
LEMMA TypingInit == Init => Typing
  <1> SUFFICES ASSUME Init PROVE Typing OBVIOUS
  <1>1. TypeOK BY DEF Init, TypeOK, Workers
  <1>2. Refs
    BY DEF Init, Refs, RunHasRaw, RunHasOutcome, RunHasRow, RowHasUid, QueuedHasRow,
           CommandHasTarget, Queued
  <1> QED BY <1>1, <1>2 DEF Typing

(* Steps of a worker keep the typing invariant.                            *)
LEMMA TypingWork ==
  ASSUME Typing, NEW w \in Workers, Work(w) \/ Fail(w) \/ Crash(w)
  PROVE  Typing'
  <1> USE DEF Typing, TypeOK, Refs, RunHasRaw, RunHasOutcome, RunHasRow, RowHasUid,
              QueuedHasRow, CommandHasTarget, Queued, Msg, server, database, command, bounds
  <1>1. CASE ReadNew(w)
    BY <1>1 DEF ReadNew
  <1>2. CASE PipeDeliver(w)
    BY <1>2 DEF PipeDeliver
  <1>3. CASE Parse(w)
    BY <1>3 DEF Parse
  <1>4. CASE EndPass(w)
    BY <1>4 DEF EndPass
  <1>5. CASE Drop(w)
    BY <1>5 DEF Drop, LeaveGraph, AuditActions
  <1>6. CASE Enrich(w)
    <2>1. cur[w] \in Uids /\ Msg(w) \in MsgIds /\ MsgOf[cur[w]] = Msg(w)
      BY <1>6 DEF Enrich
    <2>2. CASE folder[Msg(w)] = None
      <3>1. /\ folder' = [folder EXCEPT ![Msg(w)] = "INBOX"]
            /\ rowUid' = [rowUid EXCEPT ![Msg(w)] = cur[w]]
            /\ pc' = [pc EXCEPT ![w] = "draft"]
            /\ UNCHANGED <<server, approvals, audit, interactions, batch, cur, outcome,
                           command, bounds, cuts, misfiled>>
        BY <1>6, <2>2 DEF Enrich
      <3>2. \A m \in MsgIds : folder'[m] # None <=> folder[m] # None \/ m = Msg(w)
        BY <2>1, <3>1
      <3>3. TypeOK'
        BY <2>1, <3>1
      <3>4. RunHasRaw' /\ RunHasOutcome' /\ CommandHasTarget'
        BY <2>1, <3>1, <1>6
      <3>5. RunHasRow'
        BY <2>1, <3>1, <3>2
      <3>6. RowHasUid'
        BY <2>1, <3>1, <3>2
      <3>7. QueuedHasRow'
        BY <2>1, <3>1, <3>2
      <3> QED BY <3>3, <3>4, <3>5, <3>6, <3>7
    <2>3. CASE folder[Msg(w)] # None
      BY <1>6, <2>1, <2>3 DEF Enrich
    <2> QED BY <2>2, <2>3
  <1>7. CASE DraftAndRoute(w)
    BY <1>7 DEF DraftAndRoute
  <1>8. CASE AutoSend(w)
    BY <1>8 DEF AutoSend
  <1>9. CASE Enqueue(w)
    BY <1>9 DEF Enqueue
  <1>10. CASE AuditOutcome(w)
    BY <1>10 DEF AuditOutcome, AuditOutcomeAs, AuditActions
  <1>11. CASE SetFolder(w)
    <2>1. /\ folder' = [folder EXCEPT ![Msg(w)] = Lane(outcome[w])]
          /\ RecordFiling(Msg(w), Lane(outcome[w]))
          /\ pc[w] = "settle" /\ pc' = [pc EXCEPT ![w] = "log"]
          /\ UNCHANGED <<server, rowUid, approvals, audit, interactions, batch, cur, outcome,
                         command, bounds, cuts>>
      BY <1>11 DEF SetFolder
    <2>2. Msg(w) \in MsgIds /\ Lane(outcome[w]) \in Lanes
      BY <2>1 DEF Lane, Lanes
    <2>3. misfiled' \subseteq MsgIds
      BY <2>1, <2>2 DEF RecordFiling
    <2>4. \A m \in MsgIds : folder'[m] # None <=> folder[m] # None \/ m = Msg(w)
      BY <2>1, <2>2 DEF Lanes
    <2>5. TypeOK'
      BY <2>1, <2>2, <2>3
    <2>6. RunHasRaw' /\ RunHasOutcome' /\ CommandHasTarget'
      BY <2>1
    <2>7. RunHasRow' /\ RowHasUid' /\ QueuedHasRow'
      BY <2>1, <2>2, <2>4
    <2> QED BY <2>5, <2>6, <2>7
  <1>12. CASE LogInbound(w)
    <2>1. /\ interactions' = interactions \cup {<<"inbound", Msg(w)>>}
          /\ pc[w] = "log" /\ pc' = [pc EXCEPT ![w] = "move"]
          /\ UNCHANGED <<server, folder, rowUid, approvals, audit, batch, cur, outcome,
                         command, bounds, cuts, misfiled>>
      BY <1>12 DEF LogInbound
    <2>2. Msg(w) \in MsgIds
      BY <2>1
    <2>3. interactions' \subseteq {"inbound", "outbound"} \X MsgIds
      BY <2>1, <2>2
    <2>4. TypeOK'
      BY <2>1, <2>3
    <2>5. Refs'
      BY <2>1
    <2> QED BY <2>4, <2>5
  <1>13. CASE MoveOut(w)
    BY <1>13 DEF MoveOut, MoveResults, Lane, Lanes
  <1>14. CASE AuditFinalize(w)
    BY <1>14 DEF AuditFinalize, LeaveGraph, AuditActions
  <1>15. CASE Fail(w)
    BY <1>15 DEF Fail, LeaveGraph, RecordCut
  <1>16. CASE Crash(w)
    BY <1>16 DEF Crash, RecordCut
  <1> QED
    BY <1>1, <1>2, <1>3, <1>4, <1>5, <1>6, <1>7, <1>8, <1>9, <1>10, <1>11, <1>12, <1>13, <1>14, <1>15, <1>16 DEF Work, Node

(* Steps of a command keep the typing invariant.                           *)
LEMMA TypingCommand ==
  ASSUME Typing, NEW o \in Operators, Decide(o) \/ Abort(o)
  PROVE  Typing'
  <1> USE DEF Typing, TypeOK, Refs, RunHasRaw, RunHasOutcome, RunHasRow, RowHasUid,
              QueuedHasRow, CommandHasTarget, Queued, Msg, About, server, database, worker, bounds
  <1>1. CASE Invoke(o)
    BY <1>1 DEF Invoke, Decisions
  <1>2. CASE SendReply(o)
    BY <1>2 DEF SendReply
  <1>3. CASE Resolve(o)
    BY <1>3 DEF Resolve, Decisions
  <1>4. CASE MoveSource(o)
    BY <1>4 DEF MoveSource, MoveResults, Lanes
  <1>5. CASE SetReplied(o)
    BY <1>5 DEF SetReplied, RecordFiling, Lanes
  <1>6. CASE LogOutbound(o)
    BY <1>6 DEF LogOutbound
  <1>7. CASE AuditDecision(o)
    BY <1>7 DEF AuditDecision, Exit, AuditDecisionAs, AuditActions, Decisions
  <1>8. CASE Abort(o)
    BY <1>8 DEF Abort, Exit
  <1> QED
    BY <1>1, <1>2, <1>3, <1>4, <1>5, <1>6, <1>7, <1>8 DEF Decide

(* The typing invariant is inductive.                                      *)
LEMMA TypingNext == Typing /\ [Next]_vars => Typing'
  <1> SUFFICES ASSUME Typing, [Next]_vars PROVE Typing' OBVIOUS
  <1> USE DEF Typing, TypeOK, Refs, RunHasRaw, RunHasOutcome, RunHasRow, RowHasUid,
              QueuedHasRow, CommandHasTarget, Queued, Msg
  <1>1. CASE \E u \in Uids : Arrive(u)
    BY <1>1 DEF Arrive, database, worker, command, bounds
  <1>2. CASE \E w \in Workers : Work(w) \/ Fail(w) \/ Crash(w)
    BY <1>2, TypingWork
  <1>3. CASE \E o \in Operators : Decide(o) \/ Abort(o)
    BY <1>3, TypingCommand
  <1>4. CASE UNCHANGED vars
    BY <1>4 DEF vars, server, database, worker, command, bounds
  <1> QED BY <1>1, <1>2, <1>3, <1>4 DEF Next

(* Every variable of Pipeline keeps its type: no row, approval or command  *)
(* ever refers to a delivery or message that is not there.                 *)
THEOREM TypeCorrect == Spec => []TypeOK
  <1>1. Spec => []Typing
    BY TypingInit, TypingNext, PTL DEF Spec
  <1>2. Typing => TypeOK BY DEF Typing
  <1> QED BY <1>1, <1>2, PTL

-----------------------------------------------------------------------------
(* Outcomes.  Only AutoSend and Enqueue change how many a message has.     *)

Produces(w) == AutoSend(w) \/ Enqueue(w)

(* The number of outcomes is a number, and positive when there is one.     *)
LEMMA EmittedIsNat ==
  ASSUME TypeOK, NEW m \in MsgIds
  PROVE  /\ Emitted(m) \in Nat
         /\ Emitted(m) > 0 <=> outbox[m] > 0 \/ ApprovalsOf(m) # {}
  <1>1. IsFiniteSet(ApprovalsOf(m))
    BY FS_Subset DEF ApprovalsOf
  <1>2. Cardinality(ApprovalsOf(m)) \in Nat
    BY <1>1, FS_CardinalityType
  <1>3. Cardinality(ApprovalsOf(m)) = 0 <=> ApprovalsOf(m) = {}
    BY <1>1, FS_EmptySet
  <1>4. outbox[m] \in Nat
    BY DEF TypeOK
  <1> QED BY <1>2, <1>3, <1>4 DEF Emitted

(* A step that sends nothing and keeps every approval's message keeps the  *)
(* outcomes.                                                               *)
LEMMA EmittedKept ==
  ASSUME Typing, outbox' = outbox,
         \A a \in ApprovalIds : approvals'[a].msg = approvals[a].msg,
         NEW m \in MsgIds
  PROVE  Emitted(m)' = Emitted(m)
  BY DEF Emitted, ApprovalsOf

(* A step that produces adds one outcome, to the message of its run.       *)
LEMMA EmittedCounts ==
  ASSUME Typing, NEW w \in Workers, Produces(w), NEW m \in MsgIds
  PROVE  Emitted(m)' = IF m = Msg(w) THEN Emitted(m) + 1 ELSE Emitted(m)
  <1>0. TypeOK /\ Emitted(m) \in Nat /\ outbox[m] \in Nat /\ Cardinality(ApprovalsOf(m)) \in Nat
    <2>1. IsFiniteSet(ApprovalsOf(m))
      BY FS_Subset DEF ApprovalsOf
    <2> QED BY <2>1, FS_CardinalityType, EmittedIsNat DEF Typing, TypeOK
  <1>1. CASE AutoSend(w)
    <2>1. ApprovalsOf(m)' = ApprovalsOf(m)
      BY <1>1 DEF AutoSend, ApprovalsOf, database
    <2>2. outbox'[m] = IF m = Msg(w) THEN outbox[m] + 1 ELSE outbox[m]
      BY <1>1, <1>0 DEF AutoSend, TypeOK
    <2> QED BY <2>1, <2>2, <1>0 DEF Emitted
  <1>2. CASE Enqueue(w)
    <2>1. outbox' = outbox
      BY <1>2 DEF Enqueue, server
    <2>2. PICK a \in ApprovalIds :
            /\ ~Queued(a)
            /\ approvals' = [approvals EXCEPT ![a] = [msg |-> Msg(w), status |-> "pending"]]
      BY <1>2 DEF Enqueue
    <2>3. approvals[a].msg = None /\ a \notin ApprovalsOf(m)
      BY <2>2 DEF Typing, Refs, QueuedHasRow, ApprovalsOf
    <2>4. \A b \in ApprovalIds :
            approvals'[b].msg = IF b = a THEN Msg(w) ELSE approvals[b].msg
      BY <2>2, <1>0 DEF TypeOK
    <2>5. CASE m = Msg(w)
      <3>1. ApprovalsOf(m)' = ApprovalsOf(m) \cup {a}
        BY <2>4, <2>5 DEF ApprovalsOf
      <3>2. IsFiniteSet(ApprovalsOf(m))
        BY FS_Subset DEF ApprovalsOf
      <3>3. Cardinality(ApprovalsOf(m) \cup {a}) = Cardinality(ApprovalsOf(m)) + 1
        BY <3>2, <2>3, FS_AddElement
      <3> QED BY <3>1, <3>3, <2>1, <2>5, <1>0 DEF Emitted
    <2>6. CASE m # Msg(w)
      <3>1. ApprovalsOf(m)' = ApprovalsOf(m)
        BY <2>3, <2>4, <2>6 DEF ApprovalsOf
      <3> QED BY <3>1, <2>1, <2>6 DEF Emitted
    <2> QED BY <2>5, <2>6
  <1> QED BY <1>1, <1>2 DEF Produces

(* Every other step keeps all outcomes.                                    *)
LEMMA EmittedElsewhere ==
  ASSUME Typing, [Next]_vars, \A w \in Workers : ~Produces(w), NEW m \in MsgIds
  PROVE  Emitted(m)' = Emitted(m)
  <1> SUFFICES /\ outbox' = outbox
               /\ \A a \in ApprovalIds : approvals'[a].msg = approvals[a].msg
    BY EmittedKept
  <1> USE DEF server, database, worker, command, bounds, LeaveGraph, Exit
  <1>1. CASE \E u \in Uids : Arrive(u)
    BY <1>1 DEF Arrive
  <1>2. ASSUME NEW w \in Workers, Work(w) \/ Fail(w) \/ Crash(w)
        PROVE  outbox' = outbox /\ approvals' = approvals
    BY <1>2 DEF Work, Node, Produces, ReadNew, PipeDeliver, Parse, EndPass, Drop, Enrich,
           DraftAndRoute, AuditOutcome, SetFolder, LogInbound, MoveOut, AuditFinalize,
           Fail, Crash
  <1>3. ASSUME NEW o \in Operators, Decide(o) \/ Abort(o)
        PROVE  /\ outbox' = outbox
               /\ \A a \in ApprovalIds : approvals'[a].msg = approvals[a].msg
    <2>1. CASE Resolve(o)
      BY <2>1 DEF Resolve, Typing, TypeOK
    <2>2. CASE Invoke(o) \/ SendReply(o) \/ MoveSource(o) \/ SetReplied(o)
               \/ LogOutbound(o) \/ AuditDecision(o) \/ Abort(o)
      BY <2>2 DEF Invoke, SendReply, MoveSource, SetReplied, LogOutbound, AuditDecision, Abort
    <2> QED BY <1>3, <2>1, <2>2 DEF Decide
  <1>4. CASE UNCHANGED vars
    BY <1>4 DEF vars
  <1> QED BY <1>1, <1>2, <1>3, <1>4 DEF Next

-----------------------------------------------------------------------------
(* Repeated outcomes.  The runs of m that are past the gate and may still  *)
(* produce an outcome, and those whose outcome no row records yet.         *)
Deciding(m) == {w \in Workers : pc[w] \in {"enrich", "draft", "act"} /\ Msg(w) = m}
Settling(m) == {w \in Workers : pc[w] \in {"audit", "settle"} /\ Msg(w) = m}

(* As long as the gate lets m through, its outcomes are the cuts and those *)
(* still to be recorded.  Once it does not, nobody joins the runs that may *)
(* add one.  RepeatsAreCuts alone says nothing of the runs under way.      *)
Counts(m) ==
  /\ Emitted(m) >= cuts[m] + Cardinality(Settling(m))
  /\ ~AlreadyProcessed(m) => Emitted(m) = cuts[m] + Cardinality(Settling(m))
  /\ AlreadyProcessed(m) =>
       Emitted(m) + Cardinality(Deciding(m)) <= cuts[m] + Cardinality(Workers)

CutsInv == \A m \in MsgIds : Counts(m)

(* A worker is in one of the two sets at most.                             *)
FewRuns(m) ==
  /\ IsFiniteSet(Deciding(m)) /\ Cardinality(Deciding(m)) \in Nat
  /\ IsFiniteSet(Settling(m)) /\ Cardinality(Settling(m)) \in Nat
  /\ Cardinality(Workers) \in Nat
  /\ Cardinality(Deciding(m)) + Cardinality(Settling(m)) <= Cardinality(Workers)

LEMMA RunsAreFew == ASSUME NEW m PROVE FewRuns(m)
  <1>1. IsFiniteSet(Workers) /\ Cardinality(Workers) \in Nat
    BY FS_CardinalityType DEF Workers
  <1>2. Deciding(m) \subseteq Workers /\ Settling(m) \subseteq Workers
    BY DEF Deciding, Settling
  <1>3. Deciding(m) \cap Settling(m) = {}
    BY DEF Deciding, Settling
  <1>4. /\ IsFiniteSet(Deciding(m)) /\ Cardinality(Deciding(m)) \in Nat
        /\ IsFiniteSet(Settling(m)) /\ Cardinality(Settling(m)) \in Nat
    BY <1>1, <1>2, FS_Subset, FS_CardinalityType
  <1>5. Cardinality(Deciding(m) \cup Settling(m)) = Cardinality(Deciding(m)) + Cardinality(Settling(m))
    <2>1. Cardinality(Deciding(m) \cup Settling(m))
            = Cardinality(Deciding(m)) + Cardinality(Settling(m)) - Cardinality(Deciding(m) \cap Settling(m))
      BY <1>4, FS_Union
    <2>2. Cardinality(Deciding(m) \cap Settling(m)) = 0
      BY <1>3, FS_EmptySet
    <2> QED BY <1>4, <2>1, <2>2
  <1>6. Cardinality(Deciding(m) \cup Settling(m)) <= Cardinality(Workers)
    BY <1>1, <1>2, FS_Subset
  <1> QED BY <1>1, <1>4, <1>5, <1>6 DEF FewRuns

(* What the counts need to know of a run that leaves or joins.             *)
LEMMA RunsMove ==
  ASSUME NEW m, NEW w
  PROVE  /\ w \in Deciding(m) => /\ Cardinality(Deciding(m)) >= 1
                                 /\ Cardinality(Deciding(m) \ {w}) = Cardinality(Deciding(m)) - 1
         /\ w \in Settling(m) => /\ Cardinality(Settling(m)) >= 1
                                 /\ Cardinality(Settling(m) \ {w}) = Cardinality(Settling(m)) - 1
         /\ w \notin Settling(m) =>
              Cardinality(Settling(m) \cup {w}) = Cardinality(Settling(m)) + 1
  <1>1. ASSUME NEW S, IsFiniteSet(S), Cardinality(S) \in Nat, w \in S
        PROVE  Cardinality(S) >= 1 /\ Cardinality(S \ {w}) = Cardinality(S) - 1
    <2>1. Cardinality(S) # 0
      BY <1>1, FS_EmptySet
    <2>2. Cardinality(S \ {w}) = Cardinality(S) - 1
      BY <1>1, FS_RemoveElement
    <2> QED BY <1>1, <2>1, <2>2
  <1> QED BY <1>1, RunsAreFew, FS_AddElement DEF FewRuns

LEMMA CutsInit == Init => CutsInv
  <1> SUFFICES ASSUME Init, NEW m \in MsgIds PROVE Counts(m)
    BY DEF CutsInv
  <1>1. ApprovalsOf(m) = {} /\ Settling(m) = {} /\ Deciding(m) = {}
    BY DEF Init, ApprovalsOf, Settling, Deciding
  <1>2. Emitted(m) = 0 /\ cuts[m] = 0 /\ ~AlreadyProcessed(m)
    BY <1>1, FS_EmptySet DEF Init, Emitted, AlreadyProcessed
  <1> QED BY <1>1, <1>2, FS_EmptySet DEF Counts

(* The counts of m survive a step that leaves its outcomes, its cuts and   *)
(* the runs to be recorded alone, and lets no run join once the gate is    *)
(* closed.                                                                 *)
LEMMA CountsSurvive ==
  ASSUME Typing, NEW m \in MsgIds, Counts(m),
         Emitted(m)' = Emitted(m), cuts'[m] = cuts[m], Settling(m)' = Settling(m),
         AlreadyProcessed(m) => AlreadyProcessed(m)' /\ Deciding(m)' \subseteq Deciding(m)
  PROVE  Counts(m)'
  <1>1. /\ Emitted(m) \in Nat /\ cuts[m] \in Nat /\ Emitted(m)' \in Nat /\ cuts'[m] \in Nat
    BY EmittedIsNat DEF Typing, TypeOK
  <1>2. FewRuns(m) /\ FewRuns(m)'
    BY RunsAreFew, PTL
  <1>3. AlreadyProcessed(m) => Cardinality(Deciding(m)') <= Cardinality(Deciding(m))
    BY <1>2, FS_Subset DEF FewRuns
  <1>4. Workers' = Workers
    BY DEF Workers
  <1> QED BY <1>1, <1>2, <1>3, <1>4 DEF Counts, FewRuns

(* A worker's step keeps the counts of every message.                      *)
LEMMA CountsWork ==
  ASSUME Typing, CutsInv, [Next]_vars, NEW w \in Workers, Work(w) \/ Fail(w) \/ Crash(w),
         NEW m \in MsgIds
  PROVE  Counts(m)'
  <1>types. /\ TypeOK /\ Counts(m)
            /\ Emitted(m) \in Nat /\ cuts[m] \in Nat
            /\ FewRuns(m) /\ FewRuns(m)' /\ Workers' = Workers
            /\ pc[w] \notin {"sleep", "loop"} => Msg(w) \in MsgIds
    <2>1. FewRuns(m) /\ FewRuns(m)'
      BY RunsAreFew, PTL
    <2> QED
      BY <2>1, EmittedIsNat DEF Typing, TypeOK, CutsInv, Refs, RunHasRaw, Msg, Workers
  <1> USE DEF server, database, worker, command, bounds
  <1>1. CASE Produces(w)
    <2>1. /\ pc[w] = "act" /\ pc' = [pc EXCEPT ![w] = "audit"]
          /\ UNCHANGED <<cur, folder, cuts>>
      BY <1>1 DEF Produces, AutoSend, Enqueue
    <2>2. Emitted(m)' = IF m = Msg(w) THEN Emitted(m) + 1 ELSE Emitted(m)
      BY <1>1, EmittedCounts
    <2>3. AlreadyProcessed(m)' = AlreadyProcessed(m)
      BY <2>1 DEF AlreadyProcessed
    <2>4. CASE m = Msg(w)
      <3>1. /\ w \in Deciding(m) /\ Deciding(m)' = Deciding(m) \ {w}
            /\ w \notin Settling(m) /\ Settling(m)' = Settling(m) \cup {w}
        BY <2>1, <2>4, <1>types DEF Deciding, Settling, Msg, TypeOK
      <3>2. /\ Cardinality(Deciding(m)') = Cardinality(Deciding(m)) - 1
            /\ Cardinality(Settling(m)') = Cardinality(Settling(m)) + 1
        BY <3>1, RunsMove
      <3> QED BY <2>1, <2>2, <2>3, <2>4, <3>2, <1>types DEF Counts, FewRuns
    <2>5. CASE m # Msg(w)
      <3>1. Deciding(m)' = Deciding(m) /\ Settling(m)' = Settling(m)
        BY <2>1, <2>5, <1>types DEF Deciding, Settling, Msg, TypeOK
      <3> QED BY <2>1, <2>2, <2>3, <2>5, <3>1, <1>types, CountsSurvive
    <2> QED BY <2>4, <2>5
  <1>2. CASE SetFolder(w)
    <2>1. /\ pc[w] = "settle" /\ pc' = [pc EXCEPT ![w] = "log"]
          /\ folder' = [folder EXCEPT ![Msg(w)] = Lane(outcome[w])]
          /\ UNCHANGED <<cur, cuts>> /\ Lane(outcome[w]) \in Lanes
      BY <1>2 DEF SetFolder, Typing, Refs, RunHasOutcome, Lane, Lanes
    <2>2. Emitted(m)' = Emitted(m)
      BY <1>2, EmittedKept, <1>types DEF SetFolder
    <2>3. Deciding(m)' = Deciding(m)
      BY <2>1, <1>types DEF Deciding, Msg, TypeOK
    <2>4. CASE m = Msg(w)
      <3>1. w \in Settling(m) /\ Settling(m)' = Settling(m) \ {w}
        BY <2>1, <2>4, <1>types DEF Settling, Msg, TypeOK
      <3>2. Cardinality(Settling(m)') = Cardinality(Settling(m)) - 1
        BY <3>1, RunsMove
      <3>3. AlreadyProcessed(m)'
        BY <2>1, <2>4, <1>types DEF AlreadyProcessed, Lanes, TypeOK
      <3> QED BY <2>1, <2>2, <2>3, <3>2, <3>3, <1>types DEF Counts, FewRuns
    <2>5. CASE m # Msg(w)
      <3>1. Settling(m)' = Settling(m) /\ AlreadyProcessed(m)' = AlreadyProcessed(m)
        BY <2>1, <2>5, <1>types DEF Settling, AlreadyProcessed, Msg, TypeOK
      <3> QED BY <2>1, <2>2, <2>3, <3>1, <1>types, CountsSurvive
    <2> QED BY <2>4, <2>5
  <1>3. CASE Fail(w) \/ Crash(w)
    <2>1. /\ RecordCut(w) /\ folder' = folder /\ pc[w] # "sleep"
          /\ pc'[w] \in {"sleep", "loop"}
          /\ \A v \in Workers : v # w => pc'[v] = pc[v] /\ cur'[v] = cur[v]
      BY <1>3, <1>types DEF Fail, Crash, LeaveGraph, TypeOK
    <2>2. Emitted(m)' = Emitted(m) /\ AlreadyProcessed(m)' = AlreadyProcessed(m)
      BY <1>3, EmittedKept DEF Fail, Crash, AlreadyProcessed
    <2>3. CASE w \in Settling(m)
      <3>1. Deciding(m)' = Deciding(m) /\ Settling(m)' = Settling(m) \ {w}
        BY <2>1, <2>3 DEF Deciding, Settling, Msg
      <3>2. Cardinality(Settling(m)') = Cardinality(Settling(m)) - 1
        BY <2>3, <3>1, RunsMove
      <3>3. cuts'[m] = cuts[m] + 1
        BY <2>1, <2>3, <1>types DEF RecordCut, Settling, TypeOK
      <3> QED BY <2>2, <3>1, <3>2, <3>3, <1>types DEF Counts, FewRuns
    <2>4. CASE w \notin Settling(m)
      <3>1. Deciding(m)' \subseteq Deciding(m) /\ Settling(m)' = Settling(m)
        BY <2>1, <2>4 DEF Deciding, Settling, Msg
      <3>2. cuts'[m] = cuts[m]
        BY <2>1, <2>4, <1>types DEF RecordCut, Settling, TypeOK
      <3> QED BY <2>2, <3>1, <3>2, <1>types, CountsSurvive
    <2> QED BY <2>3, <2>4
  <1>4. CASE Parse(w)
    <2>1. /\ UNCHANGED <<folder, cuts, outbox, approvals>>
          /\ \A v \in Workers : v # w => pc'[v] = pc[v] /\ cur'[v] = cur[v]
          /\ pc[w] = "loop" /\ pc'[w] \in {"drop", "enrich"}
          /\ pc'[w] = "enrich" => ~AlreadyProcessed(Msg(w)')
      BY <1>4, <1>types DEF Parse, TypeOK, Msg
    <2>2. Emitted(m)' = Emitted(m) /\ AlreadyProcessed(m)' = AlreadyProcessed(m)
      BY <2>1, EmittedKept DEF AlreadyProcessed
    <2>3. Settling(m)' = Settling(m)
      BY <2>1 DEF Settling, Msg
    <2>4. AlreadyProcessed(m) => Deciding(m)' \subseteq Deciding(m)
      BY <2>1 DEF Deciding, Msg
    <2> QED BY <2>1, <2>2, <2>3, <2>4, <1>types, CountsSurvive
  <1>5. CASE /\ ~Produces(w) /\ ~SetFolder(w) /\ ~Fail(w) /\ ~Crash(w) /\ ~Parse(w)
    <2>1. /\ UNCHANGED <<cuts, outbox, approvals>>
          /\ AlreadyProcessed(m) => AlreadyProcessed(m)'
      <3>1. CASE Enrich(w)
        BY <3>1, <1>types DEF Enrich, AlreadyProcessed, TypeOK
      <3>2. CASE ~Enrich(w)
        BY <1>5, <3>2 DEF Work, Node, Produces, ReadNew, PipeDeliver, EndPass, Drop, DraftAndRoute,
             AuditOutcome, LogInbound, MoveOut, AuditFinalize, AlreadyProcessed
      <3> QED BY <3>1, <3>2
    <2>2. Emitted(m)' = Emitted(m)
      BY <2>1, EmittedKept
    <2>3. /\ \A v \in Workers : v # w => pc'[v] = pc[v] /\ cur'[v] = cur[v]
          /\ \/ pc[w] \notin {"enrich", "draft", "act", "audit", "settle"}
                /\ pc'[w] \notin {"enrich", "draft", "act", "audit", "settle"}
             \/ pc[w] \in {"enrich", "draft"} /\ pc'[w] \in {"draft", "act"} /\ cur' = cur
             \/ pc[w] = "audit" /\ pc'[w] = "settle" /\ cur' = cur
      BY <1>5, <1>types DEF Work, Node, Produces, ReadNew, PipeDeliver, EndPass, Drop, Enrich,
           DraftAndRoute, AuditOutcome, LogInbound, MoveOut, AuditFinalize, LeaveGraph, TypeOK
    <2>4. Deciding(m)' = Deciding(m) /\ Settling(m)' = Settling(m)
      BY <2>3 DEF Deciding, Settling, Msg
    <2> QED BY <2>1, <2>2, <2>4, <1>types, CountsSurvive
  <1> QED BY <1>1, <1>2, <1>3, <1>4, <1>5

(* What a command does to the gate and to what the counts are about.       *)
LEMMA CommandKeepsRuns ==
  ASSUME Typing, NEW o \in Operators, Decide(o) \/ Abort(o), NEW m \in MsgIds
  PROVE  /\ UNCHANGED <<pc, cur, cuts>>
         /\ Emitted(m)' = Emitted(m)
         /\ AlreadyProcessed(m) => AlreadyProcessed(m)'
  <1> USE DEF server, database, worker, command, bounds
  <1>1. UNCHANGED <<pc, cur, cuts, outbox>>
    BY DEF Decide, Invoke, SendReply, Resolve, MoveSource, SetReplied, LogOutbound,
           AuditDecision, Abort
  <1>2. \A a \in ApprovalIds : approvals'[a].msg = approvals[a].msg
    <2>1. CASE Resolve(o)
      BY <2>1 DEF Resolve, Typing, TypeOK
    <2>2. CASE ~Resolve(o)
      BY <2>2 DEF Decide, Invoke, SendReply, MoveSource, SetReplied, LogOutbound,
                  AuditDecision, Abort
    <2> QED BY <2>1, <2>2
  <1>3. AlreadyProcessed(m) => AlreadyProcessed(m)'
    <2>1. CASE SetReplied(o)
      BY <2>1 DEF SetReplied, AlreadyProcessed, Typing, TypeOK
    <2>2. CASE ~SetReplied(o)
      BY <2>2 DEF Decide, Invoke, SendReply, Resolve, MoveSource, LogOutbound,
                  AuditDecision, Abort, AlreadyProcessed
    <2> QED BY <2>1, <2>2
  <1> QED BY <1>1, <1>2, <1>3, EmittedKept

(* The counts are inductive, for any number of workers.                    *)
LEMMA CutsNext == Typing /\ CutsInv /\ [Next]_vars => CutsInv'
  <1> SUFFICES ASSUME Typing, CutsInv, [Next]_vars, NEW m \in MsgIds PROVE Counts(m)'
    BY DEF CutsInv
  <1>0. Counts(m)
    BY DEF CutsInv
  <1>1. CASE (\E u \in Uids : Arrive(u)) \/ UNCHANGED vars
    <2>1. UNCHANGED <<pc, cur, cuts, folder, outbox, approvals>>
      BY <1>1 DEF Arrive, vars, server, database, worker, command, bounds
    <2>2. Emitted(m)' = Emitted(m)
      BY <2>1, EmittedKept
    <2> QED BY <1>0, <2>1, <2>2, CountsSurvive DEF Deciding, Settling, Msg, AlreadyProcessed
  <1>2. ASSUME NEW w \in Workers, Work(w) \/ Fail(w) \/ Crash(w) PROVE Counts(m)'
    BY <1>2, CountsWork
  <1>3. ASSUME NEW o \in Operators, Decide(o) \/ Abort(o) PROVE Counts(m)'
    <2>1. /\ UNCHANGED <<pc, cur, cuts>>
          /\ Emitted(m)' = Emitted(m)
          /\ AlreadyProcessed(m) => AlreadyProcessed(m)'
      BY <1>3, CommandKeepsRuns
    <2> QED BY <1>0, <2>1, CountsSurvive DEF Deciding, Settling, Msg
  <1> QED BY <1>1, <1>2, <1>3 DEF Next

(* However many workers there are, whatever mail comes again and whatever  *)
(* fails: a message has one outcome for each cut and at most one more for  *)
(* each worker; with one worker only cuts repeat an outcome.               *)
THEOREM RepeatsOnlyAfterCuts == Spec => []RepeatsAreCuts
  <1>1. Init => Typing /\ CutsInv BY TypingInit, CutsInit
  <1>2. Typing /\ CutsInv /\ [Next]_vars => (Typing /\ CutsInv)' BY TypingNext, CutsNext
  <1>3. Typing /\ CutsInv => RepeatsAreCuts
    <2> SUFFICES ASSUME Typing, CutsInv, NEW m \in MsgIds
                 PROVE  Emitted(m) <= cuts[m] + Cardinality(Workers)
      BY DEF RepeatsAreCuts
    <2>1. Emitted(m) \in Nat /\ cuts[m] \in Nat /\ FewRuns(m) /\ Counts(m)
      BY EmittedIsNat, RunsAreFew DEF Typing, TypeOK, CutsInv
    <2> QED BY <2>1 DEF Counts, FewRuns
  <1> QED BY <1>1, <1>2, <1>3, PTL DEF Spec

(* The deployment of the poller alone: a message of which no run was cut   *)
(* off is answered, queued or escalated at most once.                      *)
AnsweredOnce == \A m \in MsgIds : cuts[m] = 0 => Emitted(m) <= 1

COROLLARY OneWorkerAnswersOnce ==
  ASSUME Cardinality(Workers) = 1 PROVE Spec => []AnsweredOnce
  <1>1. RepeatsAreCuts => AnsweredOnce
    BY DEF RepeatsAreCuts, AnsweredOnce
  <1> QED BY <1>1, RepeatsOnlyAfterCuts, PTL

(* A processed message stays processed, whichever runs and commands are    *)
(* under way and whatever they die of.                                     *)
THEOREM GateNeverReopens == Spec => GateStaysClosed
  <1>1. Typing /\ [Next]_vars => [\A m \in MsgIds : AlreadyProcessed(m) => AlreadyProcessed(m)']_vars
    <2> SUFFICES ASSUME Typing, Next, NEW m \in MsgIds, AlreadyProcessed(m)
                 PROVE  AlreadyProcessed(m)'
      OBVIOUS
    <2> USE DEF server, database, worker, command, bounds
    <2>1. CASE \E u \in Uids : Arrive(u)
      BY <2>1 DEF Arrive, AlreadyProcessed
    <2>2. ASSUME NEW w \in Workers, Work(w) \/ Fail(w) \/ Crash(w) PROVE AlreadyProcessed(m)'
      <3>1. CASE SetFolder(w)
        <4>1. Lane(outcome[w]) \in Lanes
          BY <3>1 DEF SetFolder, Typing, Refs, RunHasOutcome, Lane, Lanes
        <4> QED BY <3>1, <4>1 DEF SetFolder, AlreadyProcessed, Lanes, Typing, TypeOK
      <3>2. CASE Enrich(w)
        BY <3>2 DEF Enrich, AlreadyProcessed, Typing, TypeOK
      <3>3. CASE ~SetFolder(w) /\ ~Enrich(w)
        BY <2>2, <3>3 DEF Work, Node, ReadNew, PipeDeliver, Parse, EndPass, Drop, DraftAndRoute,
             AutoSend, Enqueue, AuditOutcome, LogInbound, MoveOut, AuditFinalize, Fail, Crash,
             AlreadyProcessed
      <3> QED BY <3>1, <3>2, <3>3
    <2>3. ASSUME NEW o \in Operators, Decide(o) \/ Abort(o) PROVE AlreadyProcessed(m)'
      BY <2>3, CommandKeepsRuns
    <2> QED BY <2>1, <2>2, <2>3 DEF Next
  <1> QED BY <1>1, TypingInit, TypingNext, PTL DEF Spec, GateStaysClosed

-----------------------------------------------------------------------------
(* The contract.                                                           *)

Mapped == [m \in MsgIds |-> Emitted(m)]

(* A step that produces is the contract's Produce, a cut is its Cut, and   *)
(* every other step leaves outcomes and cuts alone.                        *)
LEMMA ContractStep ==
  ASSUME Typing, CutsInv, [Next]_vars
  PROVE  [Contract!Next]_(Contract!vars)
  <1>types. /\ TypeOK /\ cuts \in [MsgIds -> Nat]
            /\ \A m \in MsgIds : Emitted(m) \in Nat /\ FewRuns(m) /\ Counts(m)
            /\ \A w \in Workers : pc[w] \notin {"sleep", "loop"} => Msg(w) \in MsgIds
    BY EmittedIsNat, RunsAreFew DEF Typing, TypeOK, CutsInv, Refs, RunHasRaw, Msg
  <1>1. CASE \E w \in Workers : Produces(w)
    <2>1. PICK w \in Workers : Produces(w) BY <1>1
    <2>2. pc[w] = "act" /\ cuts' = cuts
      BY <2>1 DEF Produces, AutoSend, Enqueue
    <2>3. Msg(w) \in MsgIds /\ w \in Deciding(Msg(w))
      BY <2>2, <1>types DEF Deciding
    <2>4. Mapped[Msg(w)] < cuts[Msg(w)] + Cardinality(Workers)
      <3>1. Cardinality(Deciding(Msg(w))) >= 1
        BY <2>3, RunsMove
      <3> QED BY <2>3, <3>1, <1>types DEF Counts, FewRuns, Mapped
    <2>5. Mapped' = [Mapped EXCEPT ![Msg(w)] = @ + 1]
      BY <2>1, <2>3, EmittedCounts DEF Mapped
    <2> QED BY <2>2, <2>3, <2>4, <2>5 DEF Contract!Next, Contract!Produce, Mapped
  <1>2. CASE \A w \in Workers : ~Produces(w)
    <2>1. Mapped' = Mapped
      BY <1>2, EmittedElsewhere DEF Mapped
    <2>2. CASE \E w \in Workers : Fail(w) \/ Crash(w)
      <3>1. PICK w \in Workers : Fail(w) \/ Crash(w) BY <2>2
      <3>2. RecordCut(w) /\ pc[w] # "sleep" BY <3>1 DEF Fail, Crash
      <3>3. CASE pc[w] \in {"audit", "settle"}
        <4>1. Msg(w) \in MsgIds /\ w \in Settling(Msg(w))
          BY <3>3, <1>types DEF Settling
        <4>2. Mapped[Msg(w)] > cuts[Msg(w)]
          <5>1. Cardinality(Settling(Msg(w))) >= 1
            BY <4>1, RunsMove
          <5> QED BY <4>1, <5>1, <1>types DEF Counts, FewRuns, Mapped
        <4>3. cuts' = [cuts EXCEPT ![Msg(w)] = @ + 1]
          BY <3>2, <3>3 DEF RecordCut
        <4> QED BY <4>1, <4>2, <4>3, <2>1 DEF Contract!Next, Contract!Cut, Mapped
      <3>4. CASE pc[w] \notin {"audit", "settle"}
        <4>1. cuts' = cuts
          BY <3>2, <3>4 DEF RecordCut
        <4> QED BY <4>1, <2>1 DEF Contract!vars, Mapped
      <3> QED BY <3>3, <3>4
    <2>3. CASE ~ \E w \in Workers : Fail(w) \/ Crash(w)
      <3>1. cuts' = cuts
        BY <2>3 DEF Next, vars, server, database, worker, command, bounds, Arrive, Work, Node,
             Decide, Abort, ReadNew, PipeDeliver, Parse, EndPass, Drop, Enrich, DraftAndRoute,
             AutoSend, Enqueue, AuditOutcome, SetFolder, LogInbound, MoveOut, AuditFinalize,
             Invoke, SendReply, Resolve, MoveSource, SetReplied, LogOutbound, AuditDecision
      <3> QED BY <3>1, <2>1 DEF Contract!vars, Mapped
    <2> QED BY <2>2, <2>3
  <1> QED BY <1>1, <1>2

LEMMA ContractInit == Init => Contract!Init
  <1> SUFFICES ASSUME Init PROVE Contract!Init OBVIOUS
  <1>1. \A m \in MsgIds : Emitted(m) = 0
    <2> SUFFICES ASSUME NEW m \in MsgIds PROVE Emitted(m) = 0 OBVIOUS
    <2>1. ApprovalsOf(m) = {} BY DEF Init, ApprovalsOf
    <2> QED BY <2>1, FS_EmptySet DEF Init, Emitted
  <1> QED BY <1>1 DEF Init, Contract!Init

(* Whatever happens around them, the workers keep the promise of           *)
(* OutcomeContract: no outcome while as many as there are workers are not  *)
(* cut off, which for one worker means any.                                *)
THEOREM ImplementsContract == Spec => KeepsContract
  <1>1. Init => Typing /\ CutsInv /\ Contract!Init BY TypingInit, CutsInit, ContractInit
  <1>2. Typing /\ CutsInv /\ [Next]_vars => (Typing /\ CutsInv)' BY TypingNext, CutsNext
  <1>3. Typing /\ CutsInv /\ [Next]_vars => [Contract!Next]_(Contract!vars) BY ContractStep
  <1> QED BY <1>1, <1>2, <1>3, PTL DEF Spec, KeepsContract, Contract!Spec

-----------------------------------------------------------------------------
(* The approvals table as others may rely on it.                           *)

QueueStatus == [a \in ApprovalIds |-> Status(a)]
QueueAbout == [a \in ApprovalIds |-> approvals[a].msg]

(* Enqueue and Resolve are the only steps that write the table, and they   *)
(* are those of ApprovalQueue.                                             *)
LEMMA QueueStep == Typing /\ [Next]_vars => [Queue!Next]_(Queue!vars)
  <1> SUFFICES ASSUME Typing, [Next]_vars PROVE [Queue!Next]_(Queue!vars) OBVIOUS
  <1>types. TypeOK /\ QueuedHasRow /\ CommandHasTarget
            /\ \A w \in Workers : pc[w] \notin {"sleep", "loop"} => Msg(w) \in MsgIds
    BY DEF Typing, TypeOK, Refs, RunHasRaw, Msg
  <1>1. ASSUME NEW w \in Workers, Enqueue(w) PROVE Queue!Next
    <2>1. PICK a \in ApprovalIds :
            /\ ~Queued(a)
            /\ approvals' = [approvals EXCEPT ![a] = [msg |-> Msg(w), status |-> "pending"]]
      BY <1>1 DEF Enqueue
    <2>2. Msg(w) \in MsgIds
      BY <1>1, <1>types DEF Enqueue
    <2>3. approvals'[a] = [msg |-> Msg(w), status |-> "pending"]
          /\ \A b \in ApprovalIds : b # a => approvals'[b] = approvals[b]
      BY <2>1, <1>types DEF TypeOK
    <2>4. Status(a) = "none" /\ Status(a)' = "pending"
      BY <2>1, <2>3 DEF Status, Queued, Decisions
    <2>5. QueueStatus' = [QueueStatus EXCEPT ![a] = "pending"]
      <3>1. \A b \in ApprovalIds : b # a => Status(b)' = Status(b)
        BY <2>3 DEF Status, Queued
      <3>2. \A b \in ApprovalIds : Status(b)' = IF b = a THEN "pending" ELSE Status(b)
        BY <2>4, <3>1
      <3>3. QueueStatus' = [b \in ApprovalIds |-> IF b = a THEN "pending" ELSE Status(b)]
        BY <3>2, Zenon DEF QueueStatus
      <3> QED BY <3>3, Zenon DEF QueueStatus
    <2>6. QueueAbout' = [QueueAbout EXCEPT ![a] = Msg(w)]
      <3>1. \A b \in ApprovalIds :
              approvals'[b].msg = IF b = a THEN Msg(w) ELSE approvals[b].msg
        BY <2>3
      <3>2. QueueAbout' = [b \in ApprovalIds |-> IF b = a THEN Msg(w) ELSE approvals[b].msg]
        BY <3>1, Zenon DEF QueueAbout
      <3> QED BY <3>2, Zenon DEF QueueAbout
    <2> QED BY <2>2, <2>4, <2>5, <2>6 DEF Queue!Next, Queue!Enqueue, QueueStatus, QueueAbout
  <1>2. ASSUME NEW o \in Operators, Resolve(o) PROVE Queue!Next
    <2>1. PICK a \in ApprovalIds :
            /\ approvals' = [approvals EXCEPT ![a].status = decision[o]]
            /\ Queued(a) /\ decision[o] \in Decisions
      BY <1>2, <1>types DEF Resolve, CommandHasTarget
    <2>2. \A b \in ApprovalIds :
            /\ approvals'[b].msg = approvals[b].msg
            /\ b # a => approvals'[b].status = approvals[b].status
      BY <2>1, <1>types DEF TypeOK
    <2>3. approvals'[a].status \in Decisions
      BY <2>1, <1>types DEF TypeOK
    <2>4. Status(a) # "none" /\ Status(a)' = "decided"
      BY <2>1, <2>3, <1>types DEF Status, Queued, Decisions, TypeOK
    <2>5. QueueStatus' = [QueueStatus EXCEPT ![a] = "decided"]
      <3>1. \A b \in ApprovalIds : b # a => Status(b)' = Status(b)
        BY <2>2 DEF Status, Queued
      <3>2. \A b \in ApprovalIds : Status(b)' = IF b = a THEN "decided" ELSE Status(b)
        BY <2>4, <3>1
      <3>3. QueueStatus' = [b \in ApprovalIds |-> IF b = a THEN "decided" ELSE Status(b)]
        BY <3>2, Zenon DEF QueueStatus
      <3> QED BY <3>3, Zenon DEF QueueStatus
    <2>6. QueueAbout' = QueueAbout
      BY <2>2 DEF QueueAbout
    <2> QED BY <2>4, <2>5, <2>6 DEF Queue!Next, Queue!Decide, QueueStatus, QueueAbout
  <1>3. ASSUME ~(\E w \in Workers : Enqueue(w)), ~(\E o \in Operators : Resolve(o))
        PROVE  UNCHANGED Queue!vars
    <2>1. approvals' = approvals
      BY <1>3 DEF Next, vars, server, database, worker, command, bounds, Arrive, Work, Node,
           Decide, Abort, ReadNew, PipeDeliver, Parse, EndPass, Drop, Enrich, DraftAndRoute,
           AutoSend, AuditOutcome, SetFolder, LogInbound, MoveOut, AuditFinalize, Fail, Crash,
           Invoke, SendReply, MoveSource, SetReplied, LogOutbound, AuditDecision
    <2> QED BY <2>1 DEF Queue!vars, Status, Queued
  <1> QED BY <1>1, <1>2, <1>3

(* Whoever writes the table, a draft is queued once for one message and is *)
(* never pending again once it was decided.                                *)
THEOREM ImplementsQueue == Spec => KeepsQueue
  <1>1. Init => Typing /\ Queue!Init
    BY TypingInit DEF Init, Queue!Init, Status, Queued, Decisions
  <1>2. Typing /\ [Next]_vars => Typing' /\ [Queue!Next]_(Queue!vars)
    BY TypingNext, QueueStep
  <1> QED BY <1>1, <1>2, PTL DEF Spec, KeepsQueue, Queue!Spec

-----------------------------------------------------------------------------
(* Outcomes come first.  This holds of any number of workers.              *)

(* A run past its outcome, a processed row and a moved delivery all belong *)
(* to a message that has one.                                              *)
RunHasEmitted ==
  \A w \in Workers :
    pc[w] \in {"audit", "settle", "log", "move", "finish"} => Emitted(Msg(w)) > 0

OutcomeInv == RunHasEmitted /\ ProcessedHasOutcome /\ OutcomeBeforeMove

(* No step takes an outcome back.                                          *)
LEMMA EmittedGrows ==
  ASSUME Typing, [Next]_vars, NEW m \in MsgIds, Emitted(m) > 0
  PROVE  Emitted(m)' > 0
  <1>1. Emitted(m) \in Nat BY EmittedIsNat DEF Typing
  <1>2. CASE \E w \in Workers : Produces(w)
    BY <1>1, <1>2, EmittedCounts
  <1>3. CASE \A w \in Workers : ~Produces(w)
    BY <1>3, EmittedElsewhere
  <1> QED BY <1>2, <1>3

LEMMA OutcomeNext == Typing /\ OutcomeInv /\ [Next]_vars => OutcomeInv'
  <1> SUFFICES ASSUME Typing, OutcomeInv, [Next]_vars PROVE OutcomeInv' OBVIOUS
  <1>types. /\ TypeOK /\ MsgOf \in [Uids -> MsgIds]
            /\ \A m \in MsgIds : Emitted(m) \in Nat
            /\ \A w \in Workers : pc[w] \notin {"sleep", "loop"} => cur[w] \in Uids
    BY EmittedIsNat DEF Typing, Refs, RunHasRaw
  <1>grow. \A m \in MsgIds : Emitted(m) > 0 => Emitted(m)' > 0
    BY EmittedGrows
  <1> USE DEF server, database, worker, command, bounds, OutcomeInv, RunHasEmitted,
              ProcessedHasOutcome, OutcomeBeforeMove, AlreadyProcessed, Msg
  <1>1. CASE \E u \in Uids : Arrive(u)
    BY <1>1, <1>grow, <1>types DEF Arrive, TypeOK, Lanes
  <1>2. ASSUME NEW w \in Workers, Work(w) \/ Fail(w) \/ Crash(w) PROVE OutcomeInv'
    <2>1. CASE Produces(w)
      <3>1. Emitted(Msg(w))' > 0 /\ Msg(w) \in MsgIds
        BY <2>1, <1>types, EmittedCounts DEF Produces, AutoSend, Enqueue
      <3>2. /\ pc' = [pc EXCEPT ![w] = "audit"]
            /\ UNCHANGED <<cur, folder, mailbox>>
        BY <2>1 DEF Produces, AutoSend, Enqueue
      <3> QED BY <3>1, <3>2, <1>grow, <1>types DEF TypeOK
    <2>2. CASE MoveOut(w)
      <3>1. PICK place : mailbox' = [mailbox EXCEPT ![cur[w]] = place]
        BY <2>2 DEF MoveOut
      <3>2. Emitted(Msg(w)) > 0 /\ cur[w] \in Uids
        BY <2>2, <1>types DEF MoveOut
      <3>3. \A u \in Uids : u # cur[w] => mailbox'[u] = mailbox[u]
        BY <3>1, <1>types DEF TypeOK
      <3>4. OutcomeBeforeMove'
        BY <3>2, <3>3, <1>grow, <1>types
      <3>5. /\ pc[w] = "move" /\ pc' = [pc EXCEPT ![w] = "finish"]
            /\ UNCHANGED <<cur, folder>>
        BY <2>2 DEF MoveOut
      <3>6. RunHasEmitted' /\ ProcessedHasOutcome'
        BY <3>5, <1>grow, <1>types DEF TypeOK
      <3> QED BY <3>4, <3>6
    <2>3. CASE SetFolder(w)
      BY <2>3, <1>grow, <1>types DEF SetFolder, TypeOK
    <2>4. CASE PipeDeliver(w)
      BY <2>4, <1>grow, <1>types DEF PipeDeliver, TypeOK, Lanes
    <2>5. CASE AuditOutcome(w) \/ LogInbound(w) \/ AuditFinalize(w) \/ Drop(w) \/ DraftAndRoute(w)
      BY <2>5, <1>grow, <1>types DEF AuditOutcome, LogInbound, AuditFinalize, Drop, DraftAndRoute, LeaveGraph, TypeOK
    <2>6. CASE Enrich(w)
      BY <2>6, <1>grow, <1>types DEF Enrich, TypeOK
    <2>7. CASE Parse(w)
      BY <2>7, <1>grow, <1>types DEF Parse, TypeOK
    <2>8. CASE ReadNew(w) \/ EndPass(w)
      <3>1. /\ \E p \in {"sleep", "loop"} : pc' = [pc EXCEPT ![w] = p]
            /\ UNCHANGED <<cur, folder, mailbox>>
        BY <2>8 DEF ReadNew, EndPass
      <3> QED BY <3>1, <1>grow, <1>types DEF TypeOK
    <2>9. CASE Fail(w) \/ Crash(w)
      BY <2>9, <1>grow, <1>types DEF Fail, Crash, LeaveGraph, TypeOK
    <2> QED BY <1>2, <2>1, <2>2, <2>3, <2>4, <2>5, <2>6, <2>7, <2>8, <2>9 DEF Work, Node, Produces
  <1>3. ASSUME NEW o \in Operators, Decide(o) \/ Abort(o) PROVE OutcomeInv'
    <2>0. opc[o] # "off" => /\ About(o) \in MsgIds /\ Emitted(About(o)) > 0
                            /\ rowUid[About(o)] \in Uids /\ MsgOf[rowUid[About(o)]] = About(o)
      <3> SUFFICES ASSUME opc[o] # "off"
                   PROVE  /\ About(o) \in MsgIds /\ Emitted(About(o)) > 0
                          /\ rowUid[About(o)] \in Uids /\ MsgOf[rowUid[About(o)]] = About(o)
        OBVIOUS
      <3>1. target[o] \in ApprovalIds /\ About(o) \in MsgIds /\ folder[About(o)] # None
        BY DEF Typing, Refs, CommandHasTarget, QueuedHasRow, About
      <3>2. target[o] \in ApprovalsOf(About(o))
        BY <3>1 DEF ApprovalsOf, About
      <3> QED BY <3>1, <3>2, <1>types, EmittedIsNat DEF Typing, Refs, RowHasUid
    <2>1. CASE MoveSource(o)
      <3>1. PICK place : mailbox' = [mailbox EXCEPT ![rowUid[About(o)]] = place]
        BY <2>1 DEF MoveSource
      <3>2. \A u \in Uids : u # rowUid[About(o)] => mailbox'[u] = mailbox[u]
        BY <3>1, <1>types DEF TypeOK
      <3>3. OutcomeBeforeMove'
        BY <2>0, <2>1, <3>2, <1>grow, <1>types DEF MoveSource
      <3>4. RunHasEmitted' /\ ProcessedHasOutcome'
        BY <2>1, <1>grow, <1>types DEF MoveSource
      <3> QED BY <3>3, <3>4
    <2>2. CASE SetReplied(o)
      BY <2>2, <2>0, <1>grow, <1>types DEF SetReplied, TypeOK
    <2>3. CASE ~MoveSource(o) /\ ~SetReplied(o)
      <3>1. UNCHANGED <<mailbox, folder, pc, cur>>
        BY <1>3, <2>3 DEF Decide, Invoke, SendReply, Resolve, LogOutbound, AuditDecision, Abort
      <3> QED BY <3>1, <1>grow, <1>types
    <2> QED BY <2>1, <2>2, <2>3
  <1>4. CASE UNCHANGED vars
    BY <1>4, <1>grow, <1>types DEF vars
  <1> QED BY <1>1, <1>2, <1>3, <1>4 DEF Next

(* Mail leaves INBOX, and a row leaves the provisional folder, only after  *)
(* the message has an outcome: no crash, failed move, race of workers or   *)
(* command makes the agent drop mail nobody has dealt with.                *)
THEOREM OutcomesComeFirst == Spec => [](OutcomeBeforeMove /\ ProcessedHasOutcome)
  <1>1. Init => Typing /\ OutcomeInv
    BY TypingInit DEF Init, OutcomeInv, RunHasEmitted, ProcessedHasOutcome, OutcomeBeforeMove,
                      AlreadyProcessed, Lanes
  <1>2. Typing /\ OutcomeInv /\ [Next]_vars => (Typing /\ OutcomeInv)'
    BY TypingNext, OutcomeNext
  <1>3. OutcomeInv => OutcomeBeforeMove /\ ProcessedHasOutcome
    BY DEF OutcomeInv
  <1> QED BY <1>1, <1>2, <1>3, PTL DEF Spec

(* In particular the gate closes on no message that was not answered,      *)
(* queued or escalated.                                                    *)
COROLLARY GateClosesAfterOutcome == Spec => []ProcessedHasOutcome
  BY OutcomesComeFirst, PTL

-----------------------------------------------------------------------------
(* What the tables say of replies.                                         *)

(* A message filed under Replied has been replied to: automatically, or by *)
(* a person through one of its approvals.  It takes _finalize and          *)
(* process_approval writing the same column in any order.                  *)
RepliedWasSent ==
  \A m \in MsgIds : folder[m] = "Replied" =>
    \/ outbox[m] > 0
    \/ \E a \in ApprovalsOf(m) : replies[a] > 0

RunHasSent ==
  \A w \in Workers :
    pc[w] \in {"audit", "settle"} /\ outcome[w] = "auto_send" => outbox[Msg(w)] > 0

CommandHasSent ==
  \A o \in Operators :
    opc[o] \in {"resolve", "move", "settle", "log", "audit"} /\ decision[o] \in Replying
      => replies[target[o]] > 0

CommandSettlesReplies ==
  \A o \in Operators :
    /\ opc[o] \in {"settle", "log"} => decision[o] \in Replying
    /\ opc[o] = "move" => decision[o] # "discard"

RepliesInv ==
  RunHasSent /\ CommandHasSent /\ CommandSettlesReplies /\ RepliedWasSent /\ ResolvedWasSent

LEMMA RepliesNext == Typing /\ RepliesInv /\ [Next]_vars => RepliesInv'
  <1> SUFFICES ASSUME Typing, RepliesInv, [Next]_vars PROVE RepliesInv' OBVIOUS
  <1>types. /\ TypeOK /\ QueuedHasRow /\ CommandHasTarget
            /\ \A w \in Workers : pc[w] \notin {"sleep", "loop"} => Msg(w) \in MsgIds
            /\ \A o \in Operators : opc[o] # "off" => About(o) \in MsgIds
    BY DEF Typing, TypeOK, Refs, RunHasRaw, Msg, About, CommandHasTarget, QueuedHasRow
  <1> USE DEF server, database, worker, command, bounds, RepliesInv, RunHasSent, CommandHasSent,
              CommandSettlesReplies, RepliedWasSent, ResolvedWasSent, ApprovalsOf
  <1>1. CASE \E u \in Uids : Arrive(u)
    BY <1>1, <1>types DEF Arrive, Msg
  <1>2. ASSUME NEW w \in Workers, Work(w) \/ Fail(w) \/ Crash(w) PROVE RepliesInv'
    <2>1. CASE AutoSend(w)
      <3>1. /\ outbox' = [outbox EXCEPT ![Msg(w)] = @ + 1] /\ Msg(w) \in MsgIds
            /\ pc' = [pc EXCEPT ![w] = "audit"]
            /\ UNCHANGED <<cur, outcome, folder, approvals, replies, opc, target, decision>>
        BY <2>1, <1>types DEF AutoSend
      <3>2. \A m \in MsgIds : outbox'[m] >= outbox[m] /\ outbox[m] \in Nat
        BY <3>1, <1>types DEF TypeOK
      <3>3. outbox'[Msg(w)] > 0
        BY <3>1, <1>types DEF TypeOK
      <3>4. RunHasSent'
        BY <3>1, <3>2, <3>3, <1>types DEF TypeOK, Msg
      <3>5. RepliedWasSent'
        <4> SUFFICES ASSUME NEW m \in MsgIds, folder[m] = "Replied", ~(outbox[m] > 0)
                     PROVE  \E a \in ApprovalIds : approvals[a].msg = m /\ replies[a] > 0
          BY <3>1, <3>2
        <4> QED BY DEF RepliesInv
      <3> QED BY <3>1, <3>4, <3>5
    <2>2. CASE Enqueue(w)
      <3>1. PICK a \in ApprovalIds :
              /\ ~Queued(a)
              /\ approvals' = [approvals EXCEPT ![a] = [msg |-> Msg(w), status |-> "pending"]]
        BY <2>2 DEF Enqueue
      <3>2. /\ pc' = [pc EXCEPT ![w] = "audit"] /\ outcome[w] # "auto_send"
            /\ UNCHANGED <<cur, outcome, folder, outbox, replies, opc, target, decision>>
        BY <2>2 DEF Enqueue
      <3>3. approvals[a].msg = None
        BY <3>1, <1>types DEF QueuedHasRow
      <3>4. \A b \in ApprovalIds : b # a => approvals'[b] = approvals[b]
        BY <3>1, <1>types DEF TypeOK
      <3>5. RepliedWasSent'
        BY <3>2, <3>3, <3>4
      <3>6. ResolvedWasSent'
        BY <3>1, <3>2, <3>4, <1>types DEF TypeOK, Replying
      <3>7. RunHasSent' /\ CommandHasSent' /\ CommandSettlesReplies'
        BY <3>2, <1>types DEF TypeOK, Msg
      <3> QED BY <3>5, <3>6, <3>7
    <2>3. CASE SetFolder(w)
      <3>1. /\ folder' = [folder EXCEPT ![Msg(w)] = Lane(outcome[w])]
            /\ pc' = [pc EXCEPT ![w] = "log"] /\ pc[w] = "settle" /\ Msg(w) \in MsgIds
            /\ UNCHANGED <<cur, outcome, outbox, approvals, replies, opc, target, decision>>
        BY <2>3, <1>types DEF SetFolder
      <3>2. Lane(outcome[w]) = "Replied" => outbox[Msg(w)] > 0
        <4>1. outcome[w] \in {"auto_send", "approve", "escalate"}
          BY <3>1 DEF Typing, Refs, RunHasOutcome
        <4> QED BY <4>1, <3>1 DEF Lane
      <3>3. RepliedWasSent'
        BY <3>1, <3>2, <1>types DEF TypeOK
      <3>4. RunHasSent' /\ CommandHasSent' /\ CommandSettlesReplies' /\ ResolvedWasSent'
        BY <3>1, <1>types DEF TypeOK, Msg
      <3> QED BY <3>3, <3>4
    <2>4. CASE DraftAndRoute(w)
      BY <2>4, <1>types DEF DraftAndRoute, TypeOK, Msg
    <2>5. CASE Enrich(w)
      BY <2>5, <1>types DEF Enrich, TypeOK, Msg
    <2>6. CASE ~AutoSend(w) /\ ~Enqueue(w) /\ ~SetFolder(w) /\ ~DraftAndRoute(w) /\ ~Enrich(w)
      <3>1. UNCHANGED <<folder, outbox, replies, approvals, opc, target, decision>>
        BY <1>2, <2>6 DEF Work, Node, ReadNew, PipeDeliver, Parse, EndPass, Drop, AuditOutcome,
             LogInbound, MoveOut, AuditFinalize, Fail, Crash
      <3>2. /\ \A v \in Workers : v # w => pc'[v] = pc[v] /\ cur'[v] = cur[v] /\ outcome'[v] = outcome[v]
            /\ \/ pc'[w] \notin {"audit", "settle"}
               \/ pc[w] = "audit" /\ cur'[w] = cur[w] /\ outcome'[w] = outcome[w]
        BY <1>2, <2>6, <1>types DEF Work, Node, ReadNew, PipeDeliver, Parse, EndPass, Drop, AuditOutcome,
             LogInbound, MoveOut, AuditFinalize, Fail, Crash, LeaveGraph, TypeOK
      <3> QED BY <3>1, <3>2 DEF Msg
    <2> QED BY <2>1, <2>2, <2>3, <2>4, <2>5, <2>6
  <1>3. ASSUME NEW o \in Operators, Decide(o) \/ Abort(o) PROVE RepliesInv'
    <2>0. /\ UNCHANGED <<pc, cur, outcome, outbox>>
          /\ RunHasSent'
      <3>1. UNCHANGED <<pc, cur, outcome, outbox>>
        BY <1>3 DEF Decide, Invoke, SendReply, Resolve, MoveSource, SetReplied, LogOutbound,
             AuditDecision, Abort
      <3> QED BY <3>1 DEF Msg
    <2>1. CASE Invoke(o)
      BY <2>0, <2>1, <1>types DEF Invoke, TypeOK
    <2>2. CASE SendReply(o)
      <3>1. /\ replies' = [replies EXCEPT ![target[o]] = @ + 1] /\ target[o] \in ApprovalIds
            /\ opc' = [opc EXCEPT ![o] = "resolve"]
            /\ UNCHANGED <<folder, approvals, target, decision>>
        BY <2>2, <1>types DEF SendReply, CommandHasTarget
      <3>2. /\ \A a \in ApprovalIds : replies'[a] >= replies[a] /\ replies[a] \in Nat /\ replies'[a] \in Nat
            /\ replies'[target[o]] > 0
        BY <3>1, <1>types DEF TypeOK
      <3>3. CommandHasSent' /\ CommandSettlesReplies'
        <4>1. \A p \in Operators : opc'[p] # "off" => target[p] \in ApprovalIds
          BY <3>1, <2>2, <1>types DEF SendReply, CommandHasTarget, TypeOK
        <4> QED BY <3>1, <3>2, <4>1, <1>types DEF TypeOK
      <3>4. RepliedWasSent' /\ ResolvedWasSent'
        BY <3>1, <3>2, <2>0
      <3> QED BY <2>0, <3>3, <3>4
    <2>3. CASE Resolve(o)
      <3>1. /\ approvals' = [approvals EXCEPT ![target[o]].status = decision[o]]
            /\ opc' = [opc EXCEPT ![o] = IF decision[o] = "discard" THEN "audit" ELSE "move"]
            /\ opc[o] = "resolve" /\ target[o] \in ApprovalIds
            /\ UNCHANGED <<folder, replies, target, decision>>
        BY <2>3, <1>types DEF Resolve, CommandHasTarget
      <3>2. \A a \in ApprovalIds :
              /\ approvals'[a].msg = approvals[a].msg
              /\ approvals'[a].status = IF a = target[o] THEN decision[o] ELSE approvals[a].status
        BY <3>1, <1>types DEF TypeOK
      <3>3. CommandHasSent' /\ CommandSettlesReplies'
        BY <3>1, <1>types DEF TypeOK
      <3>4. RepliedWasSent'
        BY <3>1, <3>2, <2>0
      <3>5. ResolvedWasSent'
        BY <3>1, <3>2
      <3> QED BY <2>0, <3>3, <3>4, <3>5
    <2>4. CASE MoveSource(o)
      <3>1. /\ opc' = [opc EXCEPT ![o] = IF decision[o] = "escalate" THEN "audit" ELSE "settle"]
            /\ opc[o] = "move"
            /\ UNCHANGED <<folder, replies, approvals, target, decision>>
        BY <2>4 DEF MoveSource
      <3>2. decision[o] \in Decisions
        BY <3>1, <1>types DEF CommandHasTarget
      <3>3. CommandHasSent'
        BY <3>1, <1>types DEF TypeOK
      <3>4. decision[o] # "discard"
        BY <3>1
      <3> QED BY <2>0, <3>1, <3>2, <3>3, <3>4, <1>types DEF TypeOK, Decisions, Replying
    <2>5. CASE SetReplied(o)
      <3>1. /\ folder' = [folder EXCEPT ![About(o)] = "Replied"]
            /\ opc' = [opc EXCEPT ![o] = "log"] /\ opc[o] = "settle"
            /\ UNCHANGED <<replies, approvals, target, decision>>
        BY <2>5 DEF SetReplied
      <3>2. target[o] \in ApprovalIds /\ replies[target[o]] > 0 /\ approvals[target[o]].msg = About(o)
        BY <3>1, <1>types DEF CommandHasTarget, About
      <3>3. RepliedWasSent'
        BY <3>1, <3>2, <2>0, <1>types DEF TypeOK
      <3>4. CommandHasSent' /\ CommandSettlesReplies' /\ ResolvedWasSent'
        BY <3>1, <1>types DEF TypeOK
      <3> QED BY <2>0, <3>3, <3>4
    <2>6. CASE LogOutbound(o) \/ AuditDecision(o) \/ Abort(o)
      <3>1. /\ \/ opc'[o] = "off"
               \/ opc[o] = "log" /\ opc'[o] = "audit" /\ decision' = decision /\ target' = target
            /\ \A p \in Operators : p # o =>
                 opc'[p] = opc[p] /\ decision'[p] = decision[p] /\ target'[p] = target[p]
            /\ UNCHANGED <<folder, replies, approvals>>
        BY <2>6, <1>types DEF LogOutbound, AuditDecision, Abort, Exit, TypeOK
      <3>2. CommandHasSent' /\ CommandSettlesReplies'
        BY <3>1
      <3>3. RepliedWasSent' /\ ResolvedWasSent'
        BY <3>1, <2>0
      <3> QED BY <2>0, <3>2, <3>3
    <2> QED BY <1>3, <2>1, <2>2, <2>3, <2>4, <2>5, <2>6 DEF Decide
  <1>4. CASE UNCHANGED vars
    BY <1>4 DEF vars, Msg
  <1> QED BY <1>1, <1>2, <1>3, <1>4 DEF Next

(* Filed under Replied, or resolved as send or edit, means the SMTP server *)
(* accepted a reply, whichever of finalize and the commands wrote it last  *)
(* and however often a command is repeated or dies.                        *)
THEOREM RecordedRepliesWereSent == Spec => [](RepliedWasSent /\ ResolvedWasSent)
  <1>1. Init => Typing /\ RepliesInv
    BY TypingInit DEF Init, RepliesInv, RunHasSent, CommandHasSent, CommandSettlesReplies,
                      RepliedWasSent, ResolvedWasSent, Replying
  <1>2. Typing /\ RepliesInv /\ [Next]_vars => (Typing /\ RepliesInv)'
    BY TypingNext, RepliesNext
  <1>3. RepliesInv => RepliedWasSent /\ ResolvedWasSent
    BY DEF RepliesInv
  <1> QED BY <1>1, <1>2, <1>3, PTL DEF Spec

-----------------------------------------------------------------------------
(* The lanes, in the mailbox and in the table.                             *)

(* What a run with an outcome is about to write is true already.           *)
RunLaneIsTrue ==
  \A w \in Workers :
    pc[w] \in {"audit", "settle", "log", "move", "finish"} => LaneIsTrue(Msg(w), Lane(outcome[w]))

(* And what a command that escalates by hand is about to do.               *)
CommandLaneIsTrue ==
  \A o \in Operators :
    opc[o] = "move" /\ decision[o] = "escalate" => LaneIsTrue(About(o), "Escalated")

LaneInv == RunLaneIsTrue /\ CommandLaneIsTrue /\ LanesAreTrue

(* A message whose draft was queued always has someone to wait for, or is  *)
(* filed as answered: a decision to reply is followed by set_folder, or is *)
(* recorded in misfiled.  Waits alone does not survive set_folder.         *)
Settled(m) == Waits(m) \/ folder[m] = "Replied"

(* Steps of a worker keep it so.                                           *)
LEMMA SettledWork ==
  ASSUME Typing, NEW w \in Workers, Work(w) \/ Fail(w) \/ Crash(w),
         NEW m \in MsgIds, Settled(m)
  PROVE  Settled(m)'
  <1>types. TypeOK
    BY DEF Typing
  <1> USE DEF server, database, command, bounds
  <1>1. CASE Enqueue(w)
    <2>1. PICK a \in ApprovalIds :
            /\ ~Queued(a)
            /\ approvals' = [approvals EXCEPT ![a] = [msg |-> Msg(w), status |-> "pending"]]
      BY <1>1 DEF Enqueue
    <2>2. \A b \in ApprovalIds : Queued(b) => approvals'[b] = approvals[b]
      BY <2>1, <1>types DEF TypeOK
    <2>3. UNCHANGED <<opc, target, decision, misfiled, folder>>
      BY <1>1 DEF Enqueue
    <2>4. ASSUME NEW b \in ApprovalsOf(m),
                 approvals[b].status \in {"pending", "discard", "escalate"}
          PROVE  Waits(m)'
      <3>1. b \in ApprovalIds /\ Queued(b) /\ approvals[b].msg = m
        BY <2>4 DEF Queued, ApprovalsOf
      <3> QED BY <2>2, <2>4, <3>1 DEF Waits, ApprovalsOf
    <2>5. ASSUME NEW o \in Operators, Filing(o), About(o) = m
          PROVE  Waits(m)'
      <3>1. target[o] \in ApprovalIds /\ Queued(target[o])
        BY <2>5 DEF Filing, Typing, Refs, CommandHasTarget
      <3>2. About(o)' = About(o) /\ Filing(o)'
        BY <2>2, <2>3, <2>5, <3>1 DEF About, Filing
      <3> QED BY <2>5, <3>2 DEF Waits
    <2> QED BY <2>3, <2>4, <2>5 DEF Settled, Waits
  <1>2. CASE SetFolder(w)
    <2>1. /\ folder' = [folder EXCEPT ![Msg(w)] = Lane(outcome[w])]
          /\ RecordFiling(Msg(w), Lane(outcome[w]))
          /\ UNCHANGED <<approvals, opc, target, decision>>
      BY <1>2 DEF SetFolder
    <2>2. Waits(m) /\ m \notin misfiled => Waits(m)'
      BY <2>1 DEF Waits, ApprovalsOf, Filing, About
    <2>3. CASE m # Msg(w)
      <3>1. folder'[m] = folder[m] /\ (m \in misfiled => m \in misfiled')
        BY <2>1, <2>3, <1>types DEF TypeOK, RecordFiling
      <3> QED BY <2>2, <3>1 DEF Settled, Waits
    <2>4. CASE m = Msg(w) /\ Lane(outcome[w]) = "Replied"
      BY <2>1, <2>4, <1>types DEF TypeOK, Settled
    <2>5. CASE m = Msg(w) /\ Lane(outcome[w]) # "Replied"
      <3>1. m \in misfiled \/ folder[m] = "Replied" => m \in misfiled'
        BY <2>1, <2>5 DEF RecordFiling
      <3> QED BY <2>2, <3>1 DEF Settled, Waits
    <2> QED BY <2>3, <2>4, <2>5
  <1>3. CASE Enrich(w)
    <2>1. /\ UNCHANGED <<approvals, opc, target, decision, misfiled>>
          /\ folder[m] = "Replied" => folder'[m] = "Replied"
      BY <1>3, <1>types DEF Enrich, TypeOK
    <2> QED BY <2>1 DEF Settled, Waits, ApprovalsOf, Filing, About
  <1>4. CASE ~Enqueue(w) /\ ~SetFolder(w) /\ ~Enrich(w)
    <2>1. UNCHANGED <<approvals, opc, target, decision, misfiled, folder>>
      BY <1>4 DEF Work, Node, ReadNew, PipeDeliver, Parse, EndPass, Drop, DraftAndRoute, AutoSend,
         AuditOutcome, LogInbound, MoveOut, AuditFinalize, Fail, Crash
    <2> QED BY <2>1 DEF Settled, Waits, ApprovalsOf, Filing, About
  <1> QED BY <1>1, <1>2, <1>3, <1>4

(* Steps of a command keep it so.                                          *)
LEMMA SettledCommand ==
  ASSUME Typing, NEW o \in Operators, Decide(o) \/ Abort(o),
         NEW m \in MsgIds, Settled(m)
  PROVE  Settled(m)'
  <1>types. TypeOK
    BY DEF Typing
  <1> USE DEF server, database, worker, bounds
  <1>1. CASE Resolve(o)
    <2>1. /\ opc[o] = "resolve"
          /\ approvals' = [approvals EXCEPT ![target[o]].status = decision[o]]
          /\ opc' = [opc EXCEPT ![o] = IF decision[o] = "discard" THEN "audit" ELSE "move"]
          /\ UNCHANGED <<target, decision, misfiled, folder>>
      BY <1>1 DEF Resolve
    <2>2. target[o] \in ApprovalIds /\ decision[o] \in Decisions
      BY <2>1 DEF Typing, Refs, CommandHasTarget
    <2>3. /\ \A b \in ApprovalIds : approvals'[b].msg = approvals[b].msg
          /\ \A b \in ApprovalIds : b # target[o] => approvals'[b] = approvals[b]
          /\ approvals'[target[o]].status = decision[o]
      BY <2>1, <2>2, <1>types DEF TypeOK
    <2>4. \A p \in Operators : Filing(p) => Filing(p)'
      BY <2>1, <1>types DEF Filing, TypeOK
    <2>5. \A p \in Operators : Filing(p) => About(p)' = About(p)
      BY <2>1, <2>3 DEF Filing, About, Typing, Refs, CommandHasTarget
    <2>6. ApprovalsOf(m)' = ApprovalsOf(m)
      BY <2>3 DEF ApprovalsOf
    <2>7. ASSUME NEW b \in ApprovalsOf(m),
                 approvals[b].status \in {"pending", "discard", "escalate"}
          PROVE  Waits(m)'
      <3>1. b \in ApprovalIds /\ approvals[b].msg = m
        BY DEF ApprovalsOf
      <3>2. CASE b # target[o]
        BY <2>3, <2>6, <2>7, <3>1, <3>2 DEF Waits
      <3>3. CASE b = target[o] /\ decision[o] \in {"discard", "escalate"}
        BY <2>3, <2>6, <2>7, <3>3 DEF Waits
      <3>4. CASE b = target[o] /\ decision[o] \in Replying
        <4>1. Filing(o)' /\ About(o)' = m
          BY <2>1, <2>2, <2>3, <3>1, <3>4, <1>types DEF Filing, About, Replying, TypeOK
        <4> QED BY <4>1 DEF Waits
      <3> QED BY <2>2, <3>2, <3>3, <3>4 DEF Decisions, Replying
    <2> QED BY <2>1, <2>4, <2>5, <2>7 DEF Settled, Waits
  <1>2. CASE SetReplied(o)
    <2>1. /\ opc[o] = "settle" /\ opc' = [opc EXCEPT ![o] = "log"]
          /\ folder' = [folder EXCEPT ![About(o)] = "Replied"]
          /\ misfiled' = misfiled \ {About(o)}
          /\ UNCHANGED <<approvals, target, decision>>
      BY <1>2 DEF SetReplied, RecordFiling
    <2>2. CASE m = About(o)
      BY <2>1, <2>2, <1>types DEF TypeOK, Settled
    <2>3. CASE m # About(o)
      <3>1. folder'[m] = folder[m] /\ (m \in misfiled => m \in misfiled')
        BY <2>1, <2>3, <1>types DEF TypeOK
      <3>2. \A p \in Operators : Filing(p) /\ About(p) = m => Filing(p)' /\ About(p)' = m
        BY <2>1, <2>3, <1>types DEF TypeOK, Filing, About
      <3> QED BY <2>1, <3>1, <3>2 DEF Settled, Waits, ApprovalsOf
    <2> QED BY <2>2, <2>3
  <1>3. CASE Abort(o)
    <2>1. /\ misfiled' = IF Filing(o) /\ folder[About(o)] # "Replied"
                         THEN misfiled \cup {About(o)} ELSE misfiled
          /\ opc' = [opc EXCEPT ![o] = "off"] /\ target' = [target EXCEPT ![o] = None]
          /\ decision' = [decision EXCEPT ![o] = None]
          /\ UNCHANGED <<approvals, folder>>
      BY <1>3 DEF Abort, Exit
    <2>2. \A p \in Operators : p # o /\ Filing(p) /\ About(p) = m => Filing(p)' /\ About(p)' = m
      BY <2>1, <1>types DEF TypeOK, Filing, About
    <2>3. Filing(o) /\ About(o) = m => m \in misfiled' \/ folder'[m] = "Replied"
      BY <2>1
    <2>4. m \in misfiled => m \in misfiled'
      BY <2>1
    <2> QED BY <2>1, <2>2, <2>3, <2>4 DEF Settled, Waits, ApprovalsOf
  <1>4. CASE Invoke(o) \/ SendReply(o) \/ MoveSource(o) \/ LogOutbound(o) \/ AuditDecision(o)
    <2>1. UNCHANGED <<approvals, misfiled, folder>>
      BY <1>4 DEF Invoke, SendReply, MoveSource, LogOutbound, AuditDecision
    <2>2. ASSUME NEW p \in Operators, Filing(p), About(p) = m PROVE Filing(p)' /\ About(p)' = m
      <3>1. CASE p # o
        BY <1>4, <2>1, <2>2, <3>1, <1>types DEF Invoke, SendReply, MoveSource, LogOutbound,
           AuditDecision, Exit, TypeOK, Filing, About
      <3>2. CASE p = o
        <4>1. MoveSource(o)
          BY <1>4, <2>2, <3>2 DEF Filing, Invoke, SendReply, LogOutbound, AuditDecision
        <4> QED BY <2>1, <2>2, <3>2, <4>1, <1>types DEF MoveSource, TypeOK, Filing, About, Replying
      <3> QED BY <3>1, <3>2
    <2> QED BY <2>1, <2>2 DEF Settled, Waits, ApprovalsOf
  <1> QED BY <1>1, <1>2, <1>3, <1>4 DEF Decide

LEMMA StaysSettled ==
  ASSUME Typing, [Next]_vars, NEW m \in MsgIds, Settled(m)
  PROVE  Settled(m)'
  <1>1. CASE \E u \in Uids : Arrive(u)
    BY <1>1 DEF Arrive, database, command, Settled, Waits, ApprovalsOf, Filing, About
  <1>2. CASE UNCHANGED vars
    BY <1>2 DEF vars, database, command, Settled, Waits, ApprovalsOf, Filing, About
  <1> QED BY <1>1, <1>2, SettledWork, SettledCommand DEF Next

(* An approval stays with its message.                                     *)
LEMMA DraftsStay ==
  ASSUME Typing, [Next]_vars, NEW m \in MsgIds
  PROVE  ApprovalsOf(m) \subseteq ApprovalsOf(m)'
  <1>types. TypeOK
    BY DEF Typing
  <1>1. CASE \E w \in Workers : Enqueue(w)
    <2>1. PICK w \in Workers, a \in ApprovalIds :
            /\ ~Queued(a)
            /\ approvals' = [approvals EXCEPT ![a] = [msg |-> Msg(w), status |-> "pending"]]
      BY <1>1 DEF Enqueue
    <2>2. approvals[a].msg = None
      BY <2>1 DEF Typing, Refs, QueuedHasRow
    <2> QED BY <2>1, <2>2, <1>types DEF ApprovalsOf, TypeOK
  <1>2. CASE ~ \E w \in Workers : Enqueue(w)
    <2>1. \A a \in ApprovalIds : approvals'[a].msg = approvals[a].msg
      <3>1. CASE \E o \in Operators : Resolve(o)
        BY <3>1, <1>types DEF Resolve, TypeOK
      <3>2. CASE ~ \E o \in Operators : Resolve(o)
        <4>1. approvals' = approvals
          BY <1>2, <3>2 DEF Next, vars, server, database, worker, command, bounds, Arrive, Work,
             Node, Decide, Abort, ReadNew, PipeDeliver, Parse, EndPass, Drop, Enrich,
             DraftAndRoute, AutoSend, AuditOutcome, SetFolder, LogInbound, MoveOut,
             AuditFinalize, Fail, Crash, Invoke, SendReply, MoveSource, SetReplied,
             LogOutbound, AuditDecision
        <4> QED BY <4>1
      <3> QED BY <3>1, <3>2
    <2> QED BY <2>1 DEF ApprovalsOf
  <1> QED BY <1>1, <1>2

(* What is true of a lane stays so: no reply is undone, and see above.     *)
LEMMA LanesStayTrue ==
  ASSUME Typing, [Next]_vars, NEW m \in MsgIds, NEW lane, LaneIsTrue(m, lane)
  PROVE  LaneIsTrue(m, lane)'
  <1>types. TypeOK
    BY DEF Typing
  <1>1. outbox[m] > 0 => outbox'[m] > 0
    <2>1. CASE \E w \in Workers : AutoSend(w)
      BY <2>1, <1>types DEF AutoSend, TypeOK
    <2>2. CASE ~ \E w \in Workers : AutoSend(w)
      <3>1. outbox' = outbox
        BY <2>2 DEF Next, vars, server, database, worker, command, bounds, Arrive, Work, Node,
           Decide, Abort, ReadNew, PipeDeliver, Parse, EndPass, Drop, Enrich, DraftAndRoute,
           Enqueue, AuditOutcome, SetFolder, LogInbound, MoveOut, AuditFinalize, Fail, Crash,
           Invoke, SendReply, Resolve, MoveSource, SetReplied, LogOutbound, AuditDecision
      <3> QED BY <3>1
    <2> QED BY <2>1, <2>2
  <1>2. \A a \in ApprovalIds : replies[a] > 0 => replies'[a] > 0
    <2>1. CASE \E o \in Operators : SendReply(o)
      BY <2>1, <1>types DEF SendReply, TypeOK
    <2>2. CASE ~ \E o \in Operators : SendReply(o)
      <3>1. replies' = replies
        BY <2>2 DEF Next, vars, server, database, worker, command, bounds, Arrive, Work, Node,
           Decide, Abort, ReadNew, PipeDeliver, Parse, EndPass, Drop, Enrich, DraftAndRoute,
           AutoSend, Enqueue, AuditOutcome, SetFolder, LogInbound, MoveOut, AuditFinalize, Fail,
           Crash, Invoke, Resolve, MoveSource, SetReplied, LogOutbound, AuditDecision
      <3> QED BY <3>1
    <2> QED BY <2>1, <2>2
  <1>3. ApprovalsOf(m) \subseteq ApprovalsOf(m)'
    BY DraftsStay
  <1>4. Settled(m) => Settled(m)'
    BY StaysSettled
  <1> QED BY <1>1, <1>2, <1>3, <1>4 DEF LaneIsTrue, SentReply, ApprovalsOf, Settled

(* A command escalates by hand only what its own decision made wait.       *)
LEMMA CommandLaneNext == Typing /\ CommandLaneIsTrue /\ [Next]_vars => CommandLaneIsTrue'
  <1> SUFFICES ASSUME Typing, CommandLaneIsTrue, [Next]_vars, NEW o \in Operators,
                      opc'[o] = "move", decision'[o] = "escalate"
               PROVE  LaneIsTrue(About(o), "Escalated")'
    BY DEF CommandLaneIsTrue
  <1>types. TypeOK
    BY DEF Typing
  <1>1. CASE Resolve(o)
    <2>1. /\ opc[o] = "resolve"
          /\ approvals' = [approvals EXCEPT ![target[o]].status = decision[o]]
          /\ UNCHANGED <<target, decision>>
      BY <1>1 DEF Resolve
    <2>2. target[o] \in ApprovalIds
      BY <2>1 DEF Typing, Refs, CommandHasTarget
    <2>3. target[o] \in ApprovalsOf(About(o))' /\ approvals'[target[o]].status = "escalate"
      BY <2>1, <2>2, <1>types DEF TypeOK, About, ApprovalsOf
    <2> QED BY <2>3 DEF LaneIsTrue, Waits
  <1>2. CASE ~Resolve(o)
    <2>1. opc[o] = "move" /\ decision[o] = "escalate" /\ target'[o] = target[o]
      <3>1. CASE Decide(o) \/ Abort(o)
        BY <1>2, <3>1, <1>types DEF Decide, Abort, Exit, Invoke, SendReply, MoveSource, SetReplied,
           LogOutbound, AuditDecision, TypeOK
      <3>2. ASSUME NEW p \in Operators, p # o, Decide(p) \/ Abort(p)
            PROVE  opc'[o] = opc[o] /\ decision'[o] = decision[o] /\ target'[o] = target[o]
        BY <3>2, <1>types DEF Decide, Abort, Exit, Invoke, SendReply, Resolve, MoveSource,
           SetReplied, LogOutbound, AuditDecision, TypeOK
      <3>3. CASE ~ \E p \in Operators : Decide(p) \/ Abort(p)
        <4>1. UNCHANGED command
          BY <3>3 DEF Next, vars, Arrive, Work, Node, ReadNew, PipeDeliver, Parse, EndPass, Drop,
             Enrich, DraftAndRoute, AutoSend, Enqueue, AuditOutcome, SetFolder, LogInbound,
             MoveOut, AuditFinalize, Fail, Crash
        <4> QED BY <4>1 DEF command
      <3> QED BY <3>1, <3>2, <3>3
    <2>2. target[o] \in ApprovalsOf(About(o)) /\ About(o) \in MsgIds
      BY <2>1 DEF Typing, Refs, CommandHasTarget, QueuedHasRow, About, ApprovalsOf
    <2>3. About(o)' = About(o)
      <3>1. \A m \in MsgIds : ApprovalsOf(m) \subseteq ApprovalsOf(m)'
        BY DraftsStay
      <3> QED BY <2>1, <2>2, <3>1 DEF About, ApprovalsOf
    <2>4. LaneIsTrue(About(o), "Escalated")
      BY <2>1 DEF CommandLaneIsTrue
    <2>5. \A m \in MsgIds : LaneIsTrue(m, "Escalated") => LaneIsTrue(m, "Escalated")'
      BY LanesStayTrue
    <2> QED BY <2>2, <2>3, <2>4, <2>5
  <1> QED BY <1>1, <1>2

LEMMA LaneNext == Typing /\ RepliesInv /\ LaneInv /\ [Next]_vars => LaneInv'
  <1> SUFFICES ASSUME Typing, RepliesInv, LaneInv, [Next]_vars PROVE LaneInv' OBVIOUS
  <1>types. /\ TypeOK /\ MsgOf \in [Uids -> MsgIds]
            /\ \A w \in Workers : pc[w] \notin {"sleep", "loop"} => Msg(w) \in MsgIds /\ cur[w] \in Uids
    BY DEF Typing, TypeOK, Refs, RunHasRaw, Msg
  <1>stay. \A m \in MsgIds : \A lane : LaneIsTrue(m, lane) => LaneIsTrue(m, lane)'
    BY LanesStayTrue
  <1>commands. CommandLaneIsTrue'
    BY CommandLaneNext DEF LaneInv
  <1> USE DEF server, database, worker, command, bounds
  (* It is enough to look at what is newly written.                        *)
  <1>enough. ASSUME \A u \in Uids : mailbox'[u] = mailbox[u] \/ LaneIsTrue(MsgOf[u], mailbox[u])',
                    \A m \in MsgIds : folder'[m] = folder[m] \/ LaneIsTrue(m, folder[m])'
             PROVE  LanesAreTrue'
    <2>1. \A u \in Uids : LaneIsTrue(MsgOf[u], mailbox[u])'
      BY <1>enough, <1>stay, <1>types DEF LaneInv, LanesAreTrue
    <2>2. \A m \in MsgIds : LaneIsTrue(m, folder[m])'
      BY <1>enough, <1>stay DEF LaneInv, LanesAreTrue
    <2> QED BY <2>1, <2>2 DEF LanesAreTrue
  <1>runs. ASSUME \A w \in Workers :
                    \/ pc'[w] \notin {"audit", "settle", "log", "move", "finish"}
                    \/ /\ pc[w] \in {"audit", "settle", "log", "move", "finish"}
                       /\ cur'[w] = cur[w] /\ outcome'[w] = outcome[w]
           PROVE  RunLaneIsTrue'
    <2> SUFFICES ASSUME NEW w \in Workers, pc'[w] \in {"audit", "settle", "log", "move", "finish"}
                 PROVE  LaneIsTrue(Msg(w), Lane(outcome[w]))'
      BY DEF RunLaneIsTrue
    <2>1. /\ pc[w] \in {"audit", "settle", "log", "move", "finish"}
          /\ Msg(w)' = Msg(w) /\ Lane(outcome[w])' = Lane(outcome[w])
      BY <1>runs DEF Msg
    <2>2. Msg(w) \in MsgIds /\ LaneIsTrue(Msg(w), Lane(outcome[w]))
      BY <2>1, <1>types DEF LaneInv, RunLaneIsTrue
    <2>3. LaneIsTrue(Msg(w)', Lane(outcome[w])') = LaneIsTrue(Msg(w), Lane(outcome[w]))
      BY <2>1
    <2> QED BY <2>1, <2>2, <1>stay
  <1>1. CASE \E u \in Uids : Arrive(u)
    <2>1. /\ UNCHANGED <<pc, cur, outcome, folder>>
          /\ \A u \in Uids : mailbox'[u] = mailbox[u] \/ mailbox'[u] = "INBOX"
      BY <1>1, <1>types DEF Arrive, TypeOK
    <2> QED BY <2>1, <1>enough, <1>runs, <1>commands DEF LaneInv, LaneIsTrue
  <1>2. ASSUME NEW w \in Workers, Work(w) \/ Fail(w) \/ Crash(w) PROVE LaneInv'
    <2>1. CASE Produces(w)
      <3>1. /\ pc' = [pc EXCEPT ![w] = "audit"] /\ UNCHANGED <<cur, outcome, mailbox, folder>>
            /\ Msg(w) \in MsgIds /\ Msg(w)' = Msg(w)
        BY <2>1, <1>types DEF Produces, AutoSend, Enqueue, Msg
      <3>2. LaneIsTrue(Msg(w), Lane(outcome[w]))'
        <4>1. CASE AutoSend(w)
          <5>1. outcome'[w] = "auto_send" /\ outbox'[Msg(w)] > 0
            BY <4>1, <3>1, <1>types DEF AutoSend, TypeOK
          <5> QED BY <5>1, <3>1 DEF LaneIsTrue, SentReply, Lane
        <4>2. CASE Enqueue(w)
          <5>1. PICK a \in ApprovalIds :
                  approvals' = [approvals EXCEPT ![a] = [msg |-> Msg(w), status |-> "pending"]]
            BY <4>2 DEF Enqueue
          <5>2. approvals'[a].msg = Msg(w)
            BY <5>1, <1>types DEF TypeOK
          <5>3. outcome'[w] \in {"approve", "escalate"}
            BY <4>2, <3>1 DEF Enqueue
          <5>4. Lane(outcome[w])' \in {"Awaiting-Approval", "Escalated"}
            BY <5>3 DEF Lane
          <5>5. Waits(Msg(w))'
            BY <5>1, <5>2, <3>1, <1>types DEF TypeOK, Waits, ApprovalsOf
          <5> QED BY <5>4, <5>5, <3>1 DEF LaneIsTrue
        <4> QED BY <2>1, <4>1, <4>2 DEF Produces
      <3>3. RunLaneIsTrue'
        <4> SUFFICES ASSUME NEW v \in Workers, v # w,
                            pc'[v] \in {"audit", "settle", "log", "move", "finish"}
                     PROVE  LaneIsTrue(Msg(v), Lane(outcome[v]))'
          BY <3>2 DEF RunLaneIsTrue
        <4>1. /\ pc[v] \in {"audit", "settle", "log", "move", "finish"}
              /\ Msg(v)' = Msg(v) /\ Lane(outcome[v])' = Lane(outcome[v])
          BY <3>1, <1>types DEF TypeOK, Msg
        <4>2. Msg(v) \in MsgIds /\ LaneIsTrue(Msg(v), Lane(outcome[v]))
          BY <4>1, <1>types DEF LaneInv, RunLaneIsTrue
        <4> QED BY <4>1, <4>2, <1>stay
      <3> QED BY <3>1, <3>3, <1>enough, <1>commands DEF LaneInv
    <2>2. CASE MoveOut(w)
      <3>1. PICK place \in MoveResults(cur[w], Lane(outcome[w])) :
              mailbox' = [mailbox EXCEPT ![cur[w]] = place]
        BY <2>2 DEF MoveOut
      <3>2. /\ pc[w] = "move" /\ pc' = [pc EXCEPT ![w] = "finish"] /\ UNCHANGED <<cur, outcome, folder>>
        BY <2>2 DEF MoveOut
      <3>3. Msg(w) \in MsgIds /\ LaneIsTrue(Msg(w), Lane(outcome[w]))'
        BY <3>2, <1>types, <1>stay DEF LaneInv, RunLaneIsTrue, Msg
      <3>4. place \in {mailbox[cur[w]], Lane(outcome[w]), "INBOX", "lost"}
        BY <3>1 DEF MoveResults
      <3>5. \A u \in Uids : mailbox'[u] = mailbox[u] \/ LaneIsTrue(MsgOf[u], mailbox[u])'
        BY <3>1, <3>2, <3>3, <3>4, <1>types DEF TypeOK, LaneIsTrue, Msg
      <3>6. RunLaneIsTrue'
        BY <3>2, <1>runs, <1>types DEF TypeOK
      <3> QED BY <3>2, <3>5, <3>6, <1>enough, <1>commands DEF LaneInv
    <2>3. CASE SetFolder(w)
      <3>1. /\ folder' = [folder EXCEPT ![Msg(w)] = Lane(outcome[w])] /\ pc[w] = "settle"
            /\ pc' = [pc EXCEPT ![w] = "log"] /\ UNCHANGED <<cur, outcome, mailbox>>
        BY <2>3 DEF SetFolder
      <3>2. Msg(w) \in MsgIds /\ LaneIsTrue(Msg(w), Lane(outcome[w]))'
        BY <3>1, <1>types, <1>stay DEF LaneInv, RunLaneIsTrue, Msg
      <3>3. \A m \in MsgIds : folder'[m] = folder[m] \/ LaneIsTrue(m, folder[m])'
        BY <3>1, <3>2, <1>types DEF TypeOK, Msg
      <3>4. RunLaneIsTrue'
        BY <3>1, <1>runs, <1>types DEF TypeOK
      <3> QED BY <3>1, <3>3, <3>4, <1>enough, <1>commands DEF LaneInv
    <2>4. CASE PipeDeliver(w)
      <3>1. /\ \A u \in Uids : mailbox'[u] = mailbox[u] \/ mailbox'[u] = "piped"
            /\ pc' = [pc EXCEPT ![w] = "loop"] /\ UNCHANGED <<cur, outcome, folder>>
        BY <2>4, <1>types DEF PipeDeliver, TypeOK
      <3>2. RunLaneIsTrue'
        BY <3>1, <1>runs, <1>types DEF TypeOK
      <3> QED BY <3>1, <3>2, <1>enough, <1>commands DEF LaneInv, LaneIsTrue
    <2>5. CASE Enrich(w)
      <3>1. /\ \A m \in MsgIds : folder'[m] = folder[m] \/ folder'[m] = "INBOX"
            /\ pc' = [pc EXCEPT ![w] = "draft"] /\ UNCHANGED <<cur, outcome, mailbox>>
        BY <2>5, <1>types DEF Enrich, TypeOK
      <3>2. RunLaneIsTrue'
        BY <3>1, <1>runs, <1>types DEF TypeOK
      <3> QED BY <3>1, <3>2, <1>enough, <1>commands DEF LaneInv, LaneIsTrue
    <2>6. CASE ~Produces(w) /\ ~MoveOut(w) /\ ~SetFolder(w) /\ ~PipeDeliver(w) /\ ~Enrich(w)
      <3>1. UNCHANGED <<mailbox, folder>>
        BY <1>2, <2>6 DEF Work, Node, Produces, ReadNew, Parse, EndPass, Drop, DraftAndRoute,
           AuditOutcome, LogInbound, AuditFinalize, Fail, Crash
      <3>2. \A v \in Workers :
              \/ pc'[v] \notin {"audit", "settle", "log", "move", "finish"}
              \/ /\ pc[v] \in {"audit", "settle", "log", "move", "finish"}
                 /\ cur'[v] = cur[v] /\ outcome'[v] = outcome[v]
        BY <1>2, <2>6, <1>types DEF Work, Node, Produces, ReadNew, Parse, EndPass, Drop,
           DraftAndRoute, AuditOutcome, LogInbound, AuditFinalize, Fail, Crash, LeaveGraph, TypeOK
      <3> QED BY <3>1, <3>2, <1>enough, <1>runs, <1>commands DEF LaneInv
    <2> QED BY <2>1, <2>2, <2>3, <2>4, <2>5, <2>6
  <1>3. ASSUME NEW o \in Operators, Decide(o) \/ Abort(o) PROVE LaneInv'
    <2>0. UNCHANGED <<pc, cur, outcome>>
      BY <1>3 DEF Decide, Invoke, SendReply, Resolve, MoveSource, SetReplied, LogOutbound,
           AuditDecision, Abort
    <2>1. RunLaneIsTrue'
      BY <2>0, <1>runs
    <2>2. opc[o] # "off" =>
            /\ target[o] \in ApprovalIds /\ About(o) \in MsgIds /\ target[o] \in ApprovalsOf(About(o))
            /\ rowUid[About(o)] \in Uids /\ MsgOf[rowUid[About(o)]] = About(o)
            /\ decision[o] \in Decisions
      BY DEF Typing, Refs, CommandHasTarget, QueuedHasRow, RowHasUid, About, ApprovalsOf
    <2>3. CASE MoveSource(o)
      <3> DEFINE dest == IF decision[o] = "escalate" THEN "Escalated" ELSE "Replied"
      <3>1. PICK place \in MoveResults(rowUid[About(o)], dest) :
              mailbox' = [mailbox EXCEPT ![rowUid[About(o)]] = place]
        BY <2>3 DEF MoveSource
      <3>2. folder' = folder /\ opc[o] = "move"
        BY <2>3 DEF MoveSource
      <3>3. LaneIsTrue(About(o), dest)
        <4>1. decision[o] # "escalate" => replies[target[o]] > 0
          BY <2>2, <3>2 DEF RepliesInv, CommandHasSent, CommandSettlesReplies, Decisions, Replying
        <4> QED BY <2>2, <3>2, <4>1 DEF LaneIsTrue, SentReply, LaneInv, CommandLaneIsTrue
      <3>4. place \in {mailbox[rowUid[About(o)]], dest, "INBOX", "lost"}
        BY <3>1 DEF MoveResults
      <3>5. LaneIsTrue(About(o), dest)'
        <4>1. About(o) \in MsgIds
          BY <2>2, <3>2
        <4>2. \A lane : LaneIsTrue(About(o), lane) => LaneIsTrue(About(o), lane)'
          <5>1. About(o)' = About(o) /\ dest' = dest
            BY <2>3 DEF MoveSource, About
          <5> QED BY <4>1, <5>1, <1>stay
        <4>3. dest' = dest
          BY <2>3 DEF MoveSource
        <4> QED BY <3>3, <4>2, <4>3
      <3>6. About(o)' = About(o) /\ dest' = dest
        BY <2>3 DEF MoveSource, About
      <3> HIDE DEF dest
      <3>7. \A u \in Uids : mailbox'[u] = mailbox[u] \/ LaneIsTrue(MsgOf[u], mailbox[u])'
        <4> SUFFICES ASSUME NEW u \in Uids, mailbox'[u] # mailbox[u]
                     PROVE  LaneIsTrue(MsgOf[u], mailbox[u])'
          OBVIOUS
        <4>1. u = rowUid[About(o)] /\ MsgOf[u] = About(o) /\ mailbox'[u] \in {dest, "INBOX", "lost"}
          BY <2>2, <3>1, <3>2, <3>4, <1>types DEF TypeOK
        <4>2. CASE mailbox'[u] = dest
          BY <4>1, <4>2, <3>5, <3>6
        <4>3. CASE mailbox'[u] \in {"INBOX", "lost"}
          BY <4>3 DEF LaneIsTrue
        <4> QED BY <4>1, <4>2, <4>3
      <3> QED BY <2>1, <3>2, <3>7, <1>enough, <1>commands DEF LaneInv
    <2>4. CASE SetReplied(o)
      <3>1. /\ folder' = [folder EXCEPT ![About(o)] = "Replied"] /\ opc[o] = "settle"
            /\ UNCHANGED <<mailbox, outbox, replies, approvals>>
        BY <2>4 DEF SetReplied
      <3>2. About(o) \in MsgIds /\ replies[target[o]] > 0 /\ target[o] \in ApprovalsOf(About(o))
        BY <2>2, <3>1 DEF RepliesInv, CommandHasSent, CommandSettlesReplies
      <3>3. \A m \in MsgIds : folder'[m] = folder[m] \/ LaneIsTrue(m, folder[m])'
        BY <3>1, <3>2, <1>types DEF TypeOK, LaneIsTrue, SentReply, ApprovalsOf
      <3> QED BY <2>1, <3>1, <3>3, <1>enough, <1>commands DEF LaneInv
    <2>5. CASE ~MoveSource(o) /\ ~SetReplied(o)
      <3>1. UNCHANGED <<mailbox, folder>>
        BY <1>3, <2>5 DEF Decide, Invoke, SendReply, Resolve, LogOutbound, AuditDecision, Abort
      <3> QED BY <2>1, <3>1, <1>enough, <1>commands DEF LaneInv
    <2> QED BY <2>3, <2>4, <2>5
  <1>4. CASE UNCHANGED vars
    BY <1>4, <1>enough, <1>runs, <1>commands DEF vars, LaneInv
  <1> QED BY <1>1, <1>2, <1>3, <1>4 DEF Next

(* For any number of workers, commands and failures, in the mailbox and in *)
(* the messages table: what lies in Replied/ was replied to.  What lies in *)
(* Awaiting-Approval/ or Escalated/ has a draft that is pending or that a  *)
(* person discarded or escalated, or was answered and its row says so or   *)
(* is about to, or is one of the messages the history calls misfiled.      *)
THEOREM LanesCanBeBelieved == Spec => []LanesAreTrue
  <1>1. Init => Typing /\ RepliesInv /\ LaneInv
    <2> SUFFICES ASSUME Init PROVE Typing /\ RepliesInv /\ LaneInv OBVIOUS
    <2>1. RepliesInv
      BY DEF Init, RepliesInv, RunHasSent, CommandHasSent, CommandSettlesReplies,
             RepliedWasSent, ResolvedWasSent, Replying
    <2>2. LaneInv
      BY DEF Init, LaneInv, RunLaneIsTrue, CommandLaneIsTrue, LanesAreTrue, LaneIsTrue
    <2> QED BY <2>1, <2>2, TypingInit
  <1>2. Typing /\ RepliesInv /\ LaneInv /\ [Next]_vars => (Typing /\ RepliesInv /\ LaneInv)'
    BY TypingNext, RepliesNext, LaneNext
  <1>3. LaneInv => LanesAreTrue
    BY DEF LaneInv
  <1> QED BY <1>1, <1>2, <1>3, PTL DEF Spec

-----------------------------------------------------------------------------
(* The audit trail of outcomes.                                            *)

Audited(m) == \E r \in Outcomes : <<AuditOutcomeAs(r), m>> \in audit
BeingAudited(m) == \E w \in Workers : pc[w] = "audit" /\ Msg(w) = m
Accounted(m) == Audited(m) \/ cuts[m] > 0 \/ BeingAudited(m)

AuditInv == \A m \in MsgIds : Emitted(m) > 0 => Accounted(m)

LEMMA AuditNext == Typing /\ AuditInv /\ [Next]_vars => AuditInv'
  <1> SUFFICES ASSUME Typing, AuditInv, [Next]_vars, NEW m \in MsgIds, Emitted(m)' > 0
               PROVE  Accounted(m)'
    BY DEF AuditInv
  <1>types. /\ TypeOK /\ cuts[m] \in Nat /\ Emitted(m) \in Nat
    BY EmittedIsNat DEF Typing, TypeOK
  <1> USE DEF server, database, worker, command, bounds
  <1>1. ASSUME NEW w \in Workers, Produces(w) PROVE Accounted(m)'
    <2>1. /\ pc[w] = "act" /\ pc' = [pc EXCEPT ![w] = "audit"]
          /\ UNCHANGED <<cur, cuts, audit>>
      BY <1>1 DEF Produces, AutoSend, Enqueue
    <2>2. CASE m = Msg(w)
      BY <2>1, <2>2, <1>types DEF Accounted, BeingAudited, Msg, TypeOK
    <2>3. CASE m # Msg(w)
      <3>1. Accounted(m)
        BY <2>3, <1>1, EmittedCounts DEF AuditInv
      <3>2. BeingAudited(m) => BeingAudited(m)'
        BY <2>1, <1>types DEF BeingAudited, Msg, TypeOK
      <3> QED BY <3>1, <3>2, <2>1 DEF Accounted, Audited
    <2> QED BY <2>2, <2>3
  <1>2. ASSUME \A w \in Workers : ~Produces(w) PROVE Accounted(m)'
    <2>0. Accounted(m)
      BY <1>2, EmittedElsewhere DEF AuditInv
    <2>1. CASE \E u \in Uids : Arrive(u)
      BY <2>0, <2>1 DEF Arrive, Accounted, Audited, BeingAudited, Msg
    <2>2. ASSUME NEW w \in Workers, Work(w) \/ Fail(w) \/ Crash(w) PROVE Accounted(m)'
      <3>0. /\ audit \subseteq audit'
            /\ \A v \in Workers : v # w => pc'[v] = pc[v] /\ cur'[v] = cur[v]
        BY <1>2, <2>2, <1>types DEF Work, Node, Produces, ReadNew, PipeDeliver, Parse, EndPass, Drop,
             Enrich, DraftAndRoute, AuditOutcome, SetFolder, LogInbound, MoveOut, AuditFinalize,
             Fail, Crash, LeaveGraph, TypeOK
      <3>1. CASE AuditOutcome(w)
        <4>1. /\ cuts' = cuts
              /\ audit' = audit \cup {<<AuditOutcomeAs(outcome[w]), Msg(w)>>}
              /\ outcome[w] \in Outcomes
          BY <3>1 DEF AuditOutcome, Typing, Refs, RunHasOutcome
        <4>2. CASE m = Msg(w)
          <5>1. <<AuditOutcomeAs(outcome[w]), m>> \in audit'
            BY <4>1, <4>2
          <5> QED BY <4>1, <5>1 DEF Accounted, Audited
        <4>3. CASE m # Msg(w)
          <5>1. BeingAudited(m) => BeingAudited(m)'
            BY <3>0, <4>3 DEF BeingAudited, Msg
          <5> QED BY <2>0, <4>1, <5>1 DEF Accounted, Audited
        <4> QED BY <4>2, <4>3
      <3>2. CASE Fail(w) \/ Crash(w)
        <4>1. /\ pc[w] # "sleep" /\ RecordCut(w)
          BY <3>2 DEF Fail, Crash
        <4>2. cuts[m] > 0 => cuts'[m] > 0
          BY <4>1, <1>types DEF RecordCut, TypeOK
        <4>3. pc[w] = "audit" /\ Msg(w) = m => cuts'[m] > 0
          BY <4>1, <1>types DEF RecordCut, TypeOK
        <4>4. BeingAudited(m) => BeingAudited(m)' \/ cuts'[m] > 0
          BY <3>0, <4>3 DEF BeingAudited, Msg
        <4> QED BY <2>0, <3>0, <4>2, <4>4 DEF Accounted, Audited
      <3>3. CASE ~AuditOutcome(w) /\ ~Fail(w) /\ ~Crash(w)
        <4>1. pc[w] # "audit" /\ cuts' = cuts
          BY <1>2, <2>2, <3>3 DEF Work, Node, Produces, ReadNew, PipeDeliver, Parse, EndPass, Drop,
             Enrich, DraftAndRoute, SetFolder, LogInbound, MoveOut, AuditFinalize
        <4>2. BeingAudited(m) => BeingAudited(m)'
          BY <3>0, <4>1 DEF BeingAudited, Msg
        <4> QED BY <2>0, <3>0, <4>1, <4>2 DEF Accounted, Audited
      <3> QED BY <3>1, <3>2, <3>3
    <2>3. ASSUME NEW o \in Operators, Decide(o) \/ Abort(o) PROVE Accounted(m)'
      <3>1. audit \subseteq audit' /\ UNCHANGED <<pc, cur, cuts>>
        BY <2>3 DEF Decide, Invoke, SendReply, Resolve, MoveSource, SetReplied, LogOutbound,
             AuditDecision, Abort
      <3> QED BY <2>0, <3>1 DEF Accounted, Audited, BeingAudited, Msg
    <2>4. CASE UNCHANGED vars
      BY <2>0, <2>4 DEF vars, Accounted, Audited, BeingAudited, Msg
    <2> QED BY <2>1, <2>2, <2>3, <2>4 DEF Next
  <1> QED BY <1>1, <1>2

(* A processed message lacks the audit row of an outcome only while a run  *)
(* is about to write it or because a run was cut off.                      *)
THEOREM AuditGapsAreCuts == Spec => []AuditGapIsCut
  <1>1. Init => Typing /\ OutcomeInv /\ AuditInv
    <2> SUFFICES ASSUME Init PROVE Typing /\ OutcomeInv /\ AuditInv OBVIOUS
    <2>1. Typing BY TypingInit
    <2>2. OutcomeInv
      BY DEF Init, OutcomeInv, RunHasEmitted, ProcessedHasOutcome, OutcomeBeforeMove,
             AlreadyProcessed, Lanes
    <2>3. \A m \in MsgIds : outbox[m] = 0 /\ ApprovalsOf(m) = {}
      BY DEF Init, ApprovalsOf
    <2>4. AuditInv
      BY <2>1, <2>3, EmittedIsNat DEF AuditInv, Typing
    <2> QED BY <2>1, <2>2, <2>4
  <1>2. Typing /\ OutcomeInv /\ AuditInv /\ [Next]_vars => (Typing /\ OutcomeInv /\ AuditInv)'
    BY TypingNext, OutcomeNext, AuditNext
  <1>3. OutcomeInv /\ AuditInv => AuditGapIsCut
    BY DEF OutcomeInv, ProcessedHasOutcome, AuditInv, Accounted, Audited, BeingAudited, AuditGapIsCut
  <1> QED BY <1>1, <1>2, <1>3, PTL DEF Spec
=============================================================================
