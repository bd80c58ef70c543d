----------------------------- MODULE SlaProofs -----------------------------
(***************************************************************************)
(* Proofs about SlaSweep, for any number of sweepers, drafts and failures. *)
(***************************************************************************)
EXTENDS SlaSweep, FiniteSetTheorems, TLAPS

USE SlaAssumption

(* Every variable of SlaSweep keeps its type, and a sweeper about to flag  *)
(* or to record a nudge has a draft in hand.                               *)
THEOREM SlaTypeCorrect == Spec => []TypeOK
  <1>1. Init => TypeOK
    BY DEF Init, TypeOK
  <1>2. TypeOK /\ [Next]_vars => TypeOK'
    <2> SUFFICES ASSUME TypeOK, [Next]_vars PROVE TypeOK'
      OBVIOUS
    <2> USE DEF TypeOK, queue
    <2>1. CASE \E a \in Approvals : Enqueue(a) \/ Decide(a)
      BY <2>1 DEF Enqueue, Decide, Queue!Enqueue, Queue!Decide
    <2>2. CASE Age
      BY <2>2 DEF Age
    <2>3. ASSUME NEW s \in Sweepers, Sweep(s) \/ Fail(s)
          PROVE  TypeOK'
      <3>1. CASE List(s)
        BY <3>1 DEF List, OverduePending
      <3>2. CASE Check(s)
        BY <3>2 DEF Check, Oldest
      <3>3. CASE Flag(s)
        BY <3>3 DEF Flag
      <3>4. CASE Audit(s)
        BY <3>4 DEF Audit
      <3>5. CASE EndSweep(s)
        BY <3>5 DEF EndSweep
      <3>6. CASE Fail(s)
        BY <3>6 DEF Fail
      <3> QED BY <2>3, <3>1, <3>2, <3>3, <3>4, <3>5, <3>6 DEF Sweep
    <2>4. CASE UNCHANGED vars
      BY <2>4 DEF vars
    <2> QED BY <2>1, <2>2, <2>3, <2>4 DEF Next
  <1> QED BY <1>1, <1>2, PTL DEF Spec

-----------------------------------------------------------------------------
(* The sweepers that found no row of m and have not written theirs.        *)
Nudging(m) == {s \in Sweepers : pc[s] \in {"flag", "audit"} /\ MsgOf[cur[s]] = m}

(* Once m has a row nobody joins them, and each of them adds one at most.  *)
NudgeBound ==
  \A m \in Messages :
    nudges[m] > 0 => nudges[m] + Cardinality(Nudging(m)) <= Cardinality(Sweepers)

LEMMA NudgingIsFinite ==
  \A m : /\ IsFiniteSet(Nudging(m)) /\ Cardinality(Nudging(m)) \in Nat
         /\ Cardinality(Sweepers) \in Nat
         /\ Cardinality(Nudging(m)) <= Cardinality(Sweepers)
  <1>1. \A m : Nudging(m) \subseteq Sweepers
    BY DEF Nudging
  <1> QED BY <1>1, FS_Subset, FS_CardinalityType

(* A step under which m gets no row and nobody joins keeps its bound.      *)
LEMMA BoundSurvives ==
  ASSUME NEW m \in Messages, TypeOK, NudgeBound,
         nudges'[m] = nudges[m],
         nudges[m] > 0 => Nudging(m)' \subseteq Nudging(m)
  PROVE  nudges'[m] > 0 => nudges'[m] + Cardinality(Nudging(m)') <= Cardinality(Sweepers)
  <1> SUFFICES ASSUME nudges[m] > 0
               PROVE  nudges[m] + Cardinality(Nudging(m)') <= Cardinality(Sweepers)
    OBVIOUS
  <1>1. /\ Cardinality(Nudging(m)') <= Cardinality(Nudging(m))
        /\ Cardinality(Nudging(m)') \in Nat
    BY NudgingIsFinite, FS_Subset, FS_CardinalityType
  <1>2. nudges[m] \in Nat /\ nudges[m] + Cardinality(Nudging(m)) <= Cardinality(Sweepers)
    BY DEF TypeOK, NudgeBound
  <1> QED BY <1>1, <1>2, NudgingIsFinite

LEMMA BoundNext == TypeOK /\ NudgeBound /\ [Next]_vars => NudgeBound'
  <1> SUFFICES ASSUME TypeOK, NudgeBound, [Next]_vars, NEW m \in Messages
               PROVE  nudges'[m] > 0 =>
                        nudges'[m] + Cardinality(Nudging(m)') <= Cardinality(Sweepers)
    BY DEF NudgeBound
  <1> USE DEF queue
  <1>1. CASE (\E a \in Approvals : Enqueue(a) \/ Decide(a)) \/ Age \/ UNCHANGED vars
    <2>1. nudges' = nudges /\ Nudging(m)' = Nudging(m)
      BY <1>1 DEF Enqueue, Decide, Queue!Enqueue, Queue!Decide, Age, vars, Nudging
    <2> QED BY <2>1, BoundSurvives
  <1>2. ASSUME NEW s \in Sweepers, List(s) \/ Flag(s) \/ EndSweep(s) \/ Fail(s)
        PROVE  nudges'[m] = nudges[m] /\ Nudging(m)' \subseteq Nudging(m)
    BY <1>2 DEF List, Flag, EndSweep, Fail, Nudging, TypeOK
  <1>3. ASSUME NEW s \in Sweepers, Check(s), nudges[m] > 0
        PROVE  Nudging(m)' \subseteq Nudging(m)
    BY <1>3 DEF Check, Nudging, TypeOK
  <1>4. ASSUME NEW s \in Sweepers, Audit(s)
        PROVE  nudges'[m] > 0 =>
                 nudges'[m] + Cardinality(Nudging(m)') <= Cardinality(Sweepers)
    <2>1. CASE MsgOf[cur[s]] = m
      <3>1. s \in Nudging(m) /\ Nudging(m)' = Nudging(m) \ {s}
        BY <1>4, <2>1 DEF Audit, Nudging, TypeOK
      <3>2. Cardinality(Nudging(m)') = Cardinality(Nudging(m)) - 1
        BY <3>1, NudgingIsFinite, FS_RemoveElement
      <3>3. nudges'[m] = nudges[m] + 1 /\ nudges[m] \in Nat
        BY <1>4, <2>1 DEF Audit, TypeOK
      <3>4. nudges[m] + Cardinality(Nudging(m)) <= Cardinality(Sweepers)
        <4>1. CASE nudges[m] = 0
          BY <4>1, NudgingIsFinite
        <4>2. CASE nudges[m] > 0
          BY <4>2 DEF NudgeBound
        <4> QED BY <3>3, <4>1, <4>2
      <3> QED BY <3>2, <3>3, <3>4, NudgingIsFinite
    <2>2. CASE MsgOf[cur[s]] # m
      <3>1. nudges'[m] = nudges[m] /\ Nudging(m)' \subseteq Nudging(m)
        BY <1>4, <2>2 DEF Audit, Nudging, TypeOK
      <3> QED BY <3>1, BoundSurvives
    <2> QED BY <2>1, <2>2
  <1>5. \A s \in Sweepers : Check(s) => nudges' = nudges
    BY DEF Check
  <1> QED BY <1>1, <1>2, <1>3, <1>4, <1>5, BoundSurvives DEF Next, Sweep

-----------------------------------------------------------------------------
(* What a sweep holds in memory was past its deadline when it was listed,  *)
(* and time does not run backwards.                                        *)
SweepIsDue ==
  \A s \in Sweepers :
    /\ \A a \in todo[s] : PastDeadline(a)
    /\ pc[s] \in {"flag", "audit"} => PastDeadline(cur[s])

FlagIsDue == \A t \in Threads : overdue[t] # None => PastDeadline(overdue[t])

FlagIsFirst ==
  \A s \in Sweepers :
    pc[s] = "audit" /\ Thread(cur[s]) # None => overdue[Thread(cur[s])] # None

Record == SweepIsDue /\ FlagIsDue /\ FlagIsFirst /\ NudgeIsOnRecord

LEMMA RecordNext == TypeOK /\ Record /\ [Next]_vars => Record'
  <1> SUFFICES ASSUME TypeOK, Record, [Next]_vars PROVE Record'
    OBVIOUS
  <1> USE DEF TypeOK, Record, queue
  <1>1. CASE (\E a \in Approvals : Enqueue(a) \/ Decide(a)) \/ Age \/ UNCHANGED vars
    <2>1. \A a \in Approvals : PastDeadline(a) => PastDeadline(a)'
      <3>1. CASE \E b \in Approvals : Enqueue(b)
        BY <3>1 DEF Enqueue, Queue!Enqueue, PastDeadline
      <3>2. CASE (\E b \in Approvals : Decide(b)) \/ Age \/ UNCHANGED vars
        BY <3>2 DEF Decide, Age, vars, PastDeadline
      <3> QED BY <1>1, <3>1, <3>2
    <2>2. UNCHANGED <<overdue, nudges, pc, todo, cur>>
      BY <1>1 DEF Enqueue, Decide, Queue!Enqueue, Queue!Decide, Age, vars
    <2>3. SweepIsDue'
      BY <2>1, <2>2 DEF SweepIsDue
    <2>4. FlagIsDue'
      BY <2>1, <2>2 DEF FlagIsDue
    <2>5. FlagIsFirst'
      BY <2>2 DEF FlagIsFirst, Thread
    <2>6. NudgeIsOnRecord'
      BY <2>1, <2>2 DEF NudgeIsOnRecord
    <2> QED BY <2>3, <2>4, <2>5, <2>6
  <1>2. ASSUME NEW s \in Sweepers, Sweep(s) \/ Fail(s)
        PROVE  Record'
    <2>1. \A a \in Approvals : PastDeadline(a)' <=> PastDeadline(a)
      BY <1>2 DEF Sweep, List, Check, Flag, Audit, EndSweep, Fail, PastDeadline
    <2>2. CASE List(s) \/ Check(s) \/ EndSweep(s) \/ Fail(s)
      <3>1. UNCHANGED <<overdue, nudges>>
        BY <2>2 DEF List, Check, EndSweep, Fail
      <3>2. SweepIsDue'
        BY <2>1, <2>2 DEF List, Check, EndSweep, Fail, SweepIsDue, OverduePending, Oldest
      <3>3. FlagIsDue' /\ NudgeIsOnRecord'
        BY <2>1, <3>1 DEF FlagIsDue, NudgeIsOnRecord
      <3>4. FlagIsFirst'
        BY <2>2, <3>1 DEF List, Check, EndSweep, Fail, FlagIsFirst, Thread
      <3> QED BY <3>2, <3>3, <3>4
    <2>3. CASE Flag(s)
      <3>1. \A t \in Threads : overdue'[t] = IF t = Thread(cur[s]) THEN cur[s] ELSE overdue[t]
        BY <2>3 DEF Flag
      <3>2. cur[s] \in Approvals /\ PastDeadline(cur[s])
        BY <2>3 DEF Flag, SweepIsDue
      <3>3. UNCHANGED <<nudges, todo, cur>> /\ pc' = [pc EXCEPT ![s] = "audit"]
        BY <2>3 DEF Flag
      <3>4. SweepIsDue'
        BY <2>1, <2>3, <3>3 DEF SweepIsDue, Flag
      <3>5. FlagIsDue'
        BY <2>1, <3>1, <3>2 DEF FlagIsDue
      <3>6. \A t \in Threads : overdue[t] # None => overdue'[t] # None
        BY <3>1, <3>2
      <3>7. FlagIsFirst'
        BY <3>1, <3>2, <3>3, <3>6 DEF FlagIsFirst, Thread
      <3>8. NudgeIsOnRecord'
        BY <2>1, <3>3, <3>5, <3>6 DEF NudgeIsOnRecord, FlagIsDue
      <3> QED BY <3>4, <3>5, <3>7, <3>8
    <2>4. CASE Audit(s)
      <3>1. cur[s] \in Approvals /\ PastDeadline(cur[s])
        BY <2>4 DEF Audit, SweepIsDue
      <3>2. Thread(cur[s]) # None => overdue[Thread(cur[s])] # None
        BY <2>4 DEF Audit, FlagIsFirst
      <3>3. UNCHANGED <<overdue, todo>>
        BY <2>4 DEF Audit
      <3>4. SweepIsDue' /\ FlagIsDue'
        BY <2>1, <2>4, <3>3 DEF Audit, SweepIsDue, FlagIsDue
      <3>5. FlagIsFirst'
        BY <2>4, <3>3 DEF Audit, FlagIsFirst, Thread
      <3>6. NudgeIsOnRecord'
        <4> SUFFICES ASSUME NEW m \in Messages, nudges'[m] > 0
                     PROVE  /\ \E a \in Approvals : MsgOf[a] = m /\ PastDeadline(a)
                            /\ ThreadOf[m] # None =>
                                 /\ overdue[ThreadOf[m]] # None
                                 /\ PastDeadline(overdue[ThreadOf[m]])
          BY <2>1, <3>3 DEF NudgeIsOnRecord
        <4>1. CASE m = MsgOf[cur[s]]
          BY <3>1, <3>2, <4>1 DEF FlagIsDue, Thread
        <4>2. CASE m # MsgOf[cur[s]]
          <5>1. nudges[m] > 0
            BY <2>4, <4>2 DEF Audit
          <5> QED BY <5>1 DEF NudgeIsOnRecord
        <4> QED BY <4>1, <4>2
      <3> QED BY <3>4, <3>5, <3>6
    <2> QED BY <1>2, <2>2, <2>3, <2>4 DEF Sweep
  <1> QED BY <1>1, <1>2 DEF Next

-----------------------------------------------------------------------------
(* Every message gets at most one nudge from each sweeper, so exactly one  *)
(* with the poll loop alone, for any number of drafts and failed sweeps.   *)
THEOREM NudgesAreBounded == Spec => []NudgedOncePerSweeper
  <1>1. Init => NudgeBound
    BY DEF Init, NudgeBound
  <1>2. TypeOK /\ NudgeBound /\ [Next]_vars => NudgeBound'
    BY BoundNext
  <1>3. TypeOK /\ NudgeBound => NudgedOncePerSweeper
    <2> SUFFICES ASSUME TypeOK, NudgeBound, NEW m \in Messages
                 PROVE  nudges[m] <= Cardinality(Sweepers)
      BY DEF NudgedOncePerSweeper
    <2>1. nudges[m] \in Nat
      BY DEF TypeOK
    <2> QED BY <2>1, NudgingIsFinite DEF NudgeBound
  <1> QED BY <1>1, <1>2, <1>3, SlaTypeCorrect, PTL DEF Spec

(* A nudge is about a draft past its deadline and its thread is flagged.   *)
THEOREM NudgesAreOnRecord == Spec => []NudgeIsOnRecord
  <1>1. Init => Record
    BY DEF Init, Record, SweepIsDue, FlagIsDue, FlagIsFirst, NudgeIsOnRecord
  <1>2. TypeOK /\ Record /\ [Next]_vars => Record'
    BY RecordNext
  <1>3. Record => NudgeIsOnRecord
    BY DEF Record
  <1> QED BY <1>1, <1>2, <1>3, SlaTypeCorrect, PTL DEF Spec

-----------------------------------------------------------------------------
(* What was overdue when a sweep asked, and is still pending, has a nudge, *)
(* is still on the list, or is at hand: nothing that comes later is dated  *)
(* before the cutoff.                                                      *)
Covered(s, a) ==
  \/ nudges[MsgOf[a]] > 0
  \/ a \in todo[s]
  \/ pc[s] \in {"flag", "audit"} /\ cur[s] = a

Asked(s, a) == status[a] = "pending" /\ created[a] \in 1..asOf[s]

Coverage ==
  /\ cutoff <= clock
  /\ \A s \in Sweepers : asOf[s] <= cutoff
  /\ \A s \in Sweepers : pc[s] # "idle" => \A a \in Approvals : Asked(s, a) => Covered(s, a)

LEMMA CoverageNext == TypeOK /\ Coverage /\ [Next]_vars => Coverage'
  <1> SUFFICES ASSUME TypeOK, Coverage, [Next]_vars PROVE Coverage'
    OBVIOUS
  <1> USE DEF TypeOK, queue
  <1>1. cutoff' <= clock' /\ \A s \in Sweepers : asOf'[s] <= cutoff'
    <2>1. CASE (\E a \in Approvals : Enqueue(a) \/ Decide(a)) \/ Age \/ UNCHANGED vars
      <3>1. asOf' = asOf /\ cutoff <= cutoff' /\ cutoff' <= clock' /\ cutoff' \in Nat
        BY <2>1 DEF Coverage, Enqueue, Decide, Age, vars
      <3> QED BY <3>1 DEF Coverage
    <2>2. ASSUME NEW s \in Sweepers, Sweep(s) \/ Fail(s)
          PROVE  cutoff' <= clock' /\ \A w \in Sweepers : asOf'[w] <= cutoff'
      BY <2>2 DEF Coverage, Sweep, List, Check, Flag, Audit, EndSweep, Fail
    <2> QED BY <2>1, <2>2 DEF Next
  <1> SUFFICES ASSUME NEW s \in Sweepers, pc'[s] # "idle", NEW a \in Approvals, Asked(s, a)'
               PROVE  Covered(s, a)'
    BY <1>1 DEF Coverage
  <1>2. CASE (\E b \in Approvals : Enqueue(b) \/ Decide(b)) \/ Age \/ UNCHANGED vars
    <2>1. UNCHANGED <<nudges, pc, todo, cur, asOf>>
      BY <1>2 DEF Enqueue, Decide, Queue!Enqueue, Queue!Decide, Age, vars
    <2>2. Asked(s, a)
      <3>1. CASE Age \/ UNCHANGED vars
        BY <3>1 DEF Asked, Age, vars
      <3>2. CASE \E b \in Approvals : Decide(b)
        BY <3>2 DEF Asked, Decide, Queue!Decide
      <3>3. ASSUME NEW b \in Approvals, Enqueue(b) PROVE Asked(s, a)
        <4>1. asOf[s] < clock + 1 /\ asOf'[s] = asOf[s]
          BY <3>3 DEF Coverage, Enqueue, Queue!Enqueue
        <4>2. a # b
          BY <3>3, <4>1 DEF Asked, Enqueue, Queue!Enqueue
        <4> QED BY <3>3, <4>2 DEF Asked, Enqueue, Queue!Enqueue
      <3> QED BY <1>2, <3>1, <3>2, <3>3
    <2>3. Covered(s, a)
      BY <2>1, <2>2 DEF Coverage
    <2> QED BY <2>1, <2>3 DEF Covered
  <1>3. ASSUME NEW w \in Sweepers, Sweep(w) \/ Fail(w) PROVE Covered(s, a)'
    <2>1. /\ UNCHANGED <<status, created, cutoff>>
          /\ \A m \in Messages : nudges[m] > 0 => nudges'[m] > 0
      BY <1>3 DEF Sweep, List, Check, Flag, Audit, EndSweep, Fail
    <2>2. MsgOf[a] \in Messages
      OBVIOUS
    <2>3. CASE List(s)
      <3>1. asOf'[s] = cutoff /\ todo'[s] = OverduePending
        BY <2>3 DEF List
      <3> QED BY <2>1, <3>1 DEF Asked, Covered, OverduePending, PastDeadline
    <2>4. CASE ~List(s)
      <3>1. pc[s] # "idle" /\ asOf'[s] = asOf[s]
        BY <1>3, <2>4 DEF Sweep, List, Check, Flag, Audit, EndSweep, Fail
      <3>2. Covered(s, a)
        BY <2>1, <3>1 DEF Coverage, Asked
      <3>3. CASE w # s
        <4>1. pc'[s] = pc[s] /\ todo'[s] = todo[s] /\ cur'[s] = cur[s]
          BY <1>3, <3>3 DEF Sweep, List, Check, Flag, Audit, EndSweep, Fail
        <4> QED BY <2>1, <2>2, <3>2, <4>1 DEF Covered
      <3>4. CASE Check(s)
        BY <2>2, <3>2, <3>4 DEF Covered, Check, Oldest
      <3>5. CASE Flag(s) \/ EndSweep(s) \/ Fail(s)
        BY <2>2, <3>2, <3>5 DEF Covered, Flag, EndSweep, Fail
      <3>6. CASE Audit(s)
        BY <2>1, <2>2, <3>2, <3>6 DEF Covered, Audit
      <3> QED BY <1>3, <2>4, <3>3, <3>4, <3>5, <3>6 DEF Sweep
    <2> QED BY <2>3, <2>4
  <1> QED BY <1>2, <1>3 DEF Next

(* For any number of sweepers, drafts, decisions and failed sweeps: no     *)
(* sweep gets to the end of its list with an overdue draft un-nudged.      *)
THEOREM SweepsMissNobody == Spec => []SweepMissesNobody
  <1>1. Init => Coverage
    BY DEF Init, Coverage
  <1>2. TypeOK /\ Coverage /\ [Next]_vars => Coverage'
    BY CoverageNext
  <1>3. Coverage => SweepMissesNobody
    BY DEF Coverage, Covered, Asked, SweepMissesNobody
  <1> QED BY <1>1, <1>2, <1>3, SlaTypeCorrect, PTL DEF Spec
=============================================================================
