---------------------------- MODULE RecordsProofs ----------------------------
(***************************************************************************)
(* Proofs about Records, for any number of messages, workers and failures. *)
(***************************************************************************)
EXTENDS Records, FiniteSetTheorems, TLAPS

USE RecordsAssumption

Early == {"find", "contact", "seek", "open"}
Late  == {"offload", "clear", "insert", "settle", "log"}

(* A worker in the graph has a message; from the thread on its sender is a *)
(* contact, and what it holds in memory belongs to its message.            *)
Memory ==
  \A w \in Workers :
    /\ pc[w] = "off" => cur[w] = None /\ thread[w] = None
    /\ pc[w] # "off" => cur[w] \in Messages
    /\ pc[w] \in Early => thread[w] = None
    /\ pc[w] \in {"record"} \cup Late => thread[w] \in Threads /\ opener[thread[w]] # None
    /\ pc[w] \in {"seek", "open"} => Sender(w) \in contacts
    /\ pc[w] \in Late => rowThread[cur[w]] # None
    /\ pc[w] = "insert" => todo[w] \subseteq AttachmentsOf(cur[w])
    /\ pc[w] = "log" => cur[w] \in settled

Typed == TypeOK /\ Memory

LEMMA TypedNext == Typed /\ [Next]_vars => Typed'
  <1> SUFFICES ASSUME Typed, [Next]_vars PROVE Typed'
    OBVIOUS
  <1> USE DEF Typed, TypeOK, Memory, Early, Late, tables, worker, history, Sender, Goto, End
  <1>1. ASSUME NEW w \in Workers, Work(w) \/ Fail(w) PROVE Typed'
    <2>1. CASE Start(w)
      BY <2>1, RecordsAssumption DEF Start, Source, RecordsAssumption
    <2>2. CASE FindContact(w)
      BY <2>2 DEF FindContact
    <2>3. CASE InsertContact(w)
      BY <2>3 DEF InsertContact
    <2>4. CASE SeekThread(w)
      BY <2>4 DEF SeekThread, OnTopic
    <2>5. CASE OpenThread(w)
      BY <2>5 DEF OpenThread
    <2>6. CASE RecordMessage(w)
      BY <2>6 DEF RecordMessage
    <2>7. CASE Offload(w)
      BY <2>7 DEF Offload, AttachmentsOf, Paths, PathOf
    <2>8. CASE ClearRows(w)
      BY <2>8 DEF ClearRows, AttachmentsOf
    <2>9. CASE InsertRow(w)
      BY <2>9 DEF InsertRow, AttachmentsOf
    <2>10. CASE Settle(w)
      BY <2>10 DEF Settle
    <2>11. CASE LogInteraction(w)
      BY <2>11 DEF LogInteraction
    <2>12. CASE Fail(w)
      BY <2>12 DEF Fail
    <2> QED BY <1>1, <2>1, <2>2, <2>3, <2>4, <2>5, <2>6, <2>7, <2>8, <2>9, <2>10, <2>11,
               <2>12 DEF Work
  <1>2. CASE UNCHANGED vars
    BY <1>2 DEF vars
  <1> QED BY <1>1, <1>2 DEF Next

LEMMA TypedInit == Init => Typed
  BY DEF Init, Typed, TypeOK, Memory, Early, Late

LEMMA Typing == Spec => []Typed
  BY TypedInit, TypedNext, PTL DEF Spec

(* Rows refer to rows that exist, in every state of every instance.        *)
THEOREM RecordsTypeCorrect == Spec => []TypeOK
  BY Typing, PTL DEF Typed

-----------------------------------------------------------------------------
(* An attachment whose file nobody else has written over.                  *)
Found(a) ==
  \/ blobs[PathOf(a)] = a
  \/ \E b \in Attachments \ {a} : NameOf[b] = NameOf[a] /\ DirOf[OwnerOf[b]] = DirOf[OwnerOf[a]]

(* It is so for what is in the table and for what a worker will insert.    *)
BlobsHold ==
  /\ \A a \in stored : Found(a)
  /\ \A w \in Workers : \A a \in kept[w] : Found(a)

(* Offload leaves every attachment in its own file that was there.         *)
LEMMA OffloadKeepsFiles ==
  ASSUME Typed, NEW w \in Workers, Offload(w), NEW a \in Attachments, Found(a) \/ a \in kept'[w]
  PROVE  Found(a)'
  <1>1. PICK done \in SUBSET AttachmentsOf(cur[w]) :
          /\ kept' = [kept EXCEPT ![w] = done]
          /\ blobs' = [p \in Paths |-> IF \E b \in done : PathOf(b) = p
                                       THEN CHOOSE b \in done : PathOf(b) = p
                                       ELSE blobs[p]]
    BY DEF Offload
  <1>2. PathOf(a) \in Paths /\ kept'[w] = done
    BY <1>1 DEF Paths, PathOf, Typed, TypeOK
  <1>3. CASE \E b \in done : PathOf(b) = PathOf(a)
    <2>1. PICK b \in done : blobs'[PathOf(a)] = b /\ PathOf(b) = PathOf(a)
      BY <1>1, <1>2, <1>3
    <2>2. b \in Attachments /\ (b # a => NameOf[b] = NameOf[a] /\ DirOf[OwnerOf[b]] = DirOf[OwnerOf[a]])
      BY <2>1 DEF PathOf, AttachmentsOf
    <2> QED BY <2>1, <2>2 DEF Found
  <1>4. CASE ~\E b \in done : PathOf(b) = PathOf(a)
    <2>1. blobs'[PathOf(a)] = blobs[PathOf(a)] /\ Found(a)
      BY <1>1, <1>2, <1>4
    <2> QED BY <2>1 DEF Found
  <1> QED BY <1>3, <1>4

LEMMA BlobsNext == Typed /\ BlobsHold /\ [Next]_vars => BlobsHold'
  <1> SUFFICES ASSUME Typed, BlobsHold, [Next]_vars PROVE BlobsHold'
    OBVIOUS
  <1> USE DEF tables, worker, history
  <1>1. ASSUME UNCHANGED blobs, stored' \subseteq stored,
               \A w \in Workers : kept'[w] \subseteq kept[w]
        PROVE  BlobsHold'
    BY <1>1 DEF BlobsHold, Found
  <1>2. ASSUME NEW w \in Workers, Start(w) \/ FindContact(w) \/ InsertContact(w) \/ SeekThread(w)
                 \/ OpenThread(w) \/ RecordMessage(w) \/ ClearRows(w) \/ Settle(w)
                 \/ LogInteraction(w) \/ Fail(w)
        PROVE  BlobsHold'
    <2>1. UNCHANGED blobs /\ stored' \subseteq stored
      BY <1>2 DEF Start, FindContact, InsertContact, SeekThread, OpenThread, RecordMessage,
                  ClearRows, Settle, LogInteraction, Fail
    <2>2. \A v \in Workers : kept'[v] \subseteq kept[v]
      BY <1>2 DEF Start, FindContact, InsertContact, SeekThread, OpenThread, RecordMessage,
                  ClearRows, Settle, LogInteraction, Fail, End, Typed, TypeOK
    <2> QED BY <1>1, <2>1, <2>2
  <1>3. ASSUME NEW w \in Workers, InsertRow(w) PROVE BlobsHold'
    <2>1. UNCHANGED <<blobs, kept>> /\ stored' \subseteq stored \cup kept[w]
      BY <1>3 DEF InsertRow
    <2> QED BY <2>1 DEF BlobsHold, Found
  <1>4. ASSUME NEW w \in Workers, Offload(w) PROVE BlobsHold'
    <2>1. \A a \in Attachments : Found(a) \/ a \in kept'[w] => Found(a)'
      BY <1>4, OffloadKeepsFiles
    <2>2. stored' = stored /\ stored \subseteq Attachments
      BY <1>4 DEF Offload, Typed, TypeOK
    <2>3. /\ \A v \in Workers : v # w => kept'[v] = kept[v] /\ kept[v] \subseteq Attachments
          /\ kept'[w] \subseteq Attachments
      BY <1>4 DEF Offload, AttachmentsOf, Typed, TypeOK
    <2> QED BY <2>1, <2>2, <2>3 DEF BlobsHold
  <1>5. CASE UNCHANGED vars
    BY <1>1, <1>5 DEF vars
  <1> QED BY <1>2, <1>3, <1>4, <1>5 DEF Next, Work

(* A storage_ref leads to the bytes of its attachment unless another one   *)
(* has the same path.                                                      *)
THEOREM RefsLeadToBlobs == Spec => []RefsFindTheirBlob
  <1>1. Init => BlobsHold
    BY DEF Init, BlobsHold
  <1>2. BlobsHold => RefsFindTheirBlob
    BY DEF BlobsHold, Found, RefsFindTheirBlob
  <1> QED BY <1>1, <1>2, BlobsNext, Typing, PTL DEF Spec

-----------------------------------------------------------------------------
(* A message that is run by one worker at a time.                          *)
Alone(m) == \A v, w \in Workers : cur[v] = m /\ cur[w] = m => v = w

(* Its attachments have the rows that worker has inserted so far; when it  *)
(* is settled they all have one, and its worker is done with them.         *)
Rows(m) ==
  m \notin shared =>
    /\ Alone(m)
    /\ \A w \in Workers : cur[w] = m /\ pc[w] = "insert" =>
         \A a \in AttachmentsOf(m) : attached[a] = IF a \in todo[w] THEN 0 ELSE 1
    /\ \A w \in Workers : cur[w] = m /\ pc[w] = "settle" =>
         \A a \in AttachmentsOf(m) : attached[a] = 1
    /\ m \in settled =>
         /\ \A a \in AttachmentsOf(m) : attached[a] = 1
         /\ \A w \in Workers : cur[w] = m => pc[w] = "log"

LEMMA RowsNext ==
  ASSUME Typed, [Next]_vars, NEW m \in Messages, Rows(m) PROVE Rows(m)'
  <1> SUFFICES ASSUME m \notin shared' PROVE Rows(m)'
    BY DEF Rows
  <1> USE DEF tables, worker, history, Goto, End
  <1>1. ASSUME NEW w \in Workers, Work(w) \/ Fail(w) PROVE Rows(m)'
    <2>1. m \notin shared /\ \A v \in Workers : v # w => pc'[v] = pc[v] /\ cur'[v] = cur[v]
                                                       /\ todo'[v] = todo[v]
      BY <1>1 DEF Work, Start, FindContact, InsertContact, SeekThread, OpenThread, RecordMessage,
                  Offload, ClearRows, InsertRow, Settle, LogInteraction, Fail, Typed, TypeOK
    <2>2. CASE Start(w)
      <3>1. PICK x \in Messages \ settled :
              /\ cur' = [cur EXCEPT ![w] = x]
              /\ shared' = shared \cup {y \in {x} : \E v \in Workers : cur[v] = x}
        BY <2>2, RecordsAssumption DEF Start, Source, RecordsAssumption
      <3>2. x = m => \A v \in Workers : cur[v] # m
        BY <3>1
      <3>3. UNCHANGED <<attached, settled, todo>> /\ pc'[w] = "find" /\ cur'[w] = x
        BY <2>2, <3>1 DEF Start, Typed, TypeOK
      <3> QED BY <2>1, <3>1, <3>2, <3>3 DEF Rows, Alone
    <2>3. CASE FindContact(w) \/ InsertContact(w) \/ SeekThread(w) \/ OpenThread(w) \/ Offload(w)
               \/ LogInteraction(w) \/ Fail(w)
      <3>1. UNCHANGED <<attached, settled>>
        BY <2>3 DEF FindContact, InsertContact, SeekThread, OpenThread, Offload, LogInteraction, Fail
      <3>2. cur'[w] = cur[w] \/ cur'[w] = None
        BY <2>3 DEF FindContact, InsertContact, SeekThread, OpenThread, Offload, LogInteraction, Fail,
                    Typed, TypeOK
      <3>3. cur'[w] = m => pc'[w] \notin {"insert", "settle"} /\ pc[w] # "log"
        BY <2>3 DEF FindContact, InsertContact, SeekThread, OpenThread, Offload, LogInteraction, Fail,
                    Typed, TypeOK
      <3> QED BY <2>1, <3>1, <3>2, <3>3 DEF Rows, Alone
    <2>4. CASE RecordMessage(w)
      <3>1. UNCHANGED <<attached, settled, cur>> /\ pc[w] = "record"
            /\ pc'[w] = IF AttachmentsOf(cur[w]) = {} THEN "settle" ELSE "offload"
        BY <2>4 DEF RecordMessage, Typed, TypeOK
      <3> QED BY <2>1, <3>1 DEF Rows, Alone
    <2>5. CASE ClearRows(w)
      <3>1. /\ UNCHANGED <<settled, cur>> /\ pc[w] = "clear" /\ pc'[w] = "insert"
            /\ attached' = [a \in Attachments |-> IF OwnerOf[a] = cur[w] THEN 0 ELSE attached[a]]
            /\ todo'[w] = AttachmentsOf(cur[w])
        BY <2>5 DEF ClearRows, Typed, TypeOK
      <3>2. \A a \in AttachmentsOf(m) : /\ cur[w] = m => attached'[a] = 0
                                       /\ cur[w] # m => attached'[a] = attached[a]
        BY <3>1 DEF AttachmentsOf
      <3>3. CASE cur[w] # m
        BY <2>1, <3>1, <3>2, <3>3 DEF Rows, Alone
      <3>4. CASE cur[w] = m
        <4>1. m \notin settled /\ Alone(m)
          BY <2>1, <3>1, <3>4 DEF Rows
        <4>2. todo'[w] = AttachmentsOf(m) /\ \A a \in AttachmentsOf(m) : attached'[a] = 0
          BY <3>1, <3>2, <3>4 DEF AttachmentsOf
        <4>3. \A a \in AttachmentsOf(m) : attached'[a] = IF a \in todo'[w] THEN 0 ELSE 1
          BY <4>2
        <4> QED BY <2>1, <3>1, <3>4, <4>1, <4>3 DEF Rows, Alone
      <3> QED BY <3>3, <3>4
    <2>6. CASE InsertRow(w)
      <3>1. PICK b \in todo[w] :
              /\ attached' = [attached EXCEPT ![b] = @ + 1]
              /\ todo' = [todo EXCEPT ![w] = @ \ {b}]
              /\ pc' = [pc EXCEPT ![w] = IF todo[w] = {b} THEN "settle" ELSE "insert"]
        BY <2>6 DEF InsertRow
      <3>2. UNCHANGED <<settled, cur>> /\ pc[w] = "insert" /\ b \in AttachmentsOf(cur[w])
            /\ b \in Attachments
        BY <2>6 DEF InsertRow, Typed, Memory, AttachmentsOf
      <3>3. /\ todo'[w] = todo[w] \ {b}
            /\ pc'[w] = IF todo[w] = {b} THEN "settle" ELSE "insert"
            /\ \A a \in Attachments : attached'[a] = IF a = b THEN attached[a] + 1 ELSE attached[a]
        BY <3>1, <3>2 DEF Typed, TypeOK
      <3>4. CASE cur[w] # m
        <4>1. \A a \in AttachmentsOf(m) : attached'[a] = attached[a]
          BY <3>2, <3>3, <3>4 DEF AttachmentsOf
        <4> QED BY <2>1, <3>2, <3>4, <4>1 DEF Rows, Alone
      <3>5. CASE cur[w] = m
        <4>1. m \notin settled /\ Alone(m)
          BY <2>1, <3>2, <3>5 DEF Rows
        <4>2. \A a \in AttachmentsOf(m) : attached[a] = IF a \in todo[w] THEN 0 ELSE 1
          BY <2>1, <3>2, <3>5 DEF Rows
        <4>3. \A a \in AttachmentsOf(m) : attached'[a] = IF a \in todo'[w] THEN 0 ELSE 1
          BY <3>3, <4>2 DEF AttachmentsOf
        <4>4. pc'[w] = "settle" => \A a \in AttachmentsOf(m) : attached'[a] = 1
          BY <3>3, <4>3
        <4> QED BY <2>1, <3>2, <3>5, <4>1, <4>3, <4>4 DEF Rows, Alone
      <3> QED BY <3>4, <3>5
    <2>7. CASE Settle(w)
      <3>1. /\ UNCHANGED <<attached, cur, todo>> /\ pc[w] = "settle" /\ pc'[w] = "log"
            /\ settled' = settled \cup {cur[w]}
        BY <2>7 DEF Settle, Typed, TypeOK
      <3> QED BY <2>1, <3>1 DEF Rows, Alone
    <2> QED BY <1>1, <2>2, <2>3, <2>4, <2>5, <2>6, <2>7 DEF Work
  <1>2. CASE UNCHANGED vars
    BY <1>2 DEF vars, Rows, Alone
  <1> QED BY <1>1, <1>2 DEF Next

LEMMA RowsAlways == Spec => [](\A m \in Messages : Rows(m))
  <1>1. Init => \A m \in Messages : Rows(m)
    BY DEF Init, Rows, Alone
  <1>2. Typed /\ (\A m \in Messages : Rows(m)) /\ [Next]_vars => (\A m \in Messages : Rows(m))'
    BY RowsNext
  <1> QED BY <1>1, <1>2, Typing, PTL DEF Spec

(* A settled message has one row for each attachment, unless two workers   *)
(* ran it side by side.                                                    *)
THEOREM AttachmentsRecorded == Spec => []AttachmentsAreOnRecord
  <1>1. Typed /\ (\A m \in Messages : Rows(m)) => AttachmentsAreOnRecord
    BY DEF Rows, AttachmentsAreOnRecord, AttachmentsOf
  <1> QED BY <1>1, RowsAlways, Typing, PTL

-----------------------------------------------------------------------------
(* A message none of whose runs was cut off in its thread has the thread   *)
(* of its one run, and no row before that run has written it.              *)
Follows(m) ==
  m \notin retried \cup shared =>
    /\ Alone(m)
    /\ \A w \in Workers : cur[w] = m /\ pc[w] \in Late => rowThread[m] = thread[w]
    /\ rowThread[m] # None =>
         m \in settled \/ \E w \in Workers : cur[w] = m /\ pc[w] \in Late
    /\ m \in settled => \A w \in Workers : cur[w] = m => pc[w] = "log"
    /\ \A x \in interactions : x[1] = m => x[2] = rowThread[m] /\ m \in settled

LEMMA FollowsNext ==
  ASSUME Typed, [Next]_vars, NEW m \in Messages, Follows(m) PROVE Follows(m)'
  <1> SUFFICES ASSUME m \notin retried' \cup shared' PROVE Follows(m)'
    BY DEF Follows
  <1> USE DEF tables, worker, history, Goto, End
  <1>1. ASSUME NEW w \in Workers, Work(w) \/ Fail(w) PROVE Follows(m)'
    <2>1. /\ m \notin retried \cup shared
          /\ \A v \in Workers : v # w => pc'[v] = pc[v] /\ cur'[v] = cur[v] /\ thread'[v] = thread[v]
      BY <1>1 DEF Work, Start, FindContact, InsertContact, SeekThread, OpenThread, RecordMessage,
                  Offload, ClearRows, InsertRow, Settle, LogInteraction, Fail, Typed, TypeOK
    <2>2. CASE Start(w)
      <3>1. PICK x \in Messages \ settled :
              /\ cur' = [cur EXCEPT ![w] = x]
              /\ shared' = shared \cup {y \in {x} : \E v \in Workers : cur[v] = x}
        BY <2>2, RecordsAssumption DEF Start, Source, RecordsAssumption
      <3>2. x = m => \A v \in Workers : cur[v] # m
        BY <3>1
      <3>3. UNCHANGED <<rowThread, settled, interactions>> /\ pc[w] = "off" /\ pc'[w] = "find"
            /\ cur'[w] = x
        BY <2>2, <3>1 DEF Start, Typed, TypeOK
      <3> QED BY <2>1, <3>1, <3>2, <3>3 DEF Follows, Alone, Late
    <2>3. CASE FindContact(w) \/ InsertContact(w) \/ SeekThread(w) \/ OpenThread(w) \/ Fail(w)
      <3>1. UNCHANGED <<rowThread, settled, interactions>>
        BY <2>3 DEF FindContact, InsertContact, SeekThread, OpenThread, Fail
      <3>2. /\ cur'[w] = cur[w] \/ cur'[w] = None
            /\ cur[w] = m => pc[w] \in Early \cup {"record"} \/ (Fail(w) /\ thread[w] = None)
            /\ pc'[w] \notin Late
        BY <2>3 DEF FindContact, InsertContact, SeekThread, OpenThread, Fail, Early, Late,
                    Typed, TypeOK
      <3>3. cur[w] = m => pc[w] \notin Late
        BY <3>2 DEF Typed, Memory, Early, Late
      <3> QED BY <2>1, <3>1, <3>2, <3>3 DEF Follows, Alone, Late
    <2>4. CASE RecordMessage(w)
      <3>1. /\ UNCHANGED <<settled, interactions, cur, thread>> /\ pc[w] = "record"
            /\ pc'[w] \in {"settle", "offload"}
            /\ rowThread' = [rowThread EXCEPT ![cur[w]] = IF @ = None THEN thread[w] ELSE @]
        BY <2>4 DEF RecordMessage, Typed, TypeOK
      <3>2. CASE cur[w] = m
        <4>1. m \notin settled /\ Alone(m) /\ rowThread[m] = None
          BY <2>1, <3>1, <3>2 DEF Follows, Alone, Late
        <4>2. rowThread'[m] = thread[w]
          BY <3>1, <3>2, <4>1 DEF Typed, TypeOK
        <4>3. \A x \in interactions : x[1] # m
          BY <2>1, <4>1 DEF Follows
        <4> QED BY <2>1, <3>1, <3>2, <4>1, <4>2, <4>3 DEF Follows, Alone, Late
      <3>3. CASE cur[w] # m
        <4>1. rowThread'[m] = rowThread[m]
          BY <3>1, <3>3 DEF Typed, TypeOK
        <4> QED BY <2>1, <3>1, <3>3, <4>1 DEF Follows, Alone, Late
      <3> QED BY <3>2, <3>3
    <2>5. CASE Offload(w) \/ ClearRows(w) \/ InsertRow(w)
      <3>1. UNCHANGED <<rowThread, settled, interactions, cur, thread>>
            /\ pc[w] \in Late \ {"log"} /\ pc'[w] \in Late
        BY <2>5 DEF Offload, ClearRows, InsertRow, Late, Typed, TypeOK
      <3> QED BY <2>1, <3>1 DEF Follows, Alone
    <2>6. CASE Settle(w)
      <3>1. /\ UNCHANGED <<rowThread, interactions, cur, thread>> /\ pc[w] = "settle"
            /\ pc'[w] = "log" /\ settled' = settled \cup {cur[w]}
        BY <2>6 DEF Settle, Typed, TypeOK
      <3> QED BY <2>1, <3>1 DEF Follows, Alone, Late
    <2>7. CASE LogInteraction(w)
      <3>1. /\ UNCHANGED <<rowThread, settled>> /\ pc[w] = "log" /\ pc'[w] = "off" /\ cur'[w] = None
            /\ interactions' = interactions \cup {<<cur[w], thread[w]>>}
        BY <2>7 DEF LogInteraction, Typed, TypeOK
      <3>2. cur[w] = m => rowThread[m] = thread[w]
        BY <2>1, <3>1 DEF Follows, Late
      <3>3. cur[w] = m => m \in settled
        BY <3>1 DEF Typed, Memory
      <3> QED BY <2>1, <3>1, <3>2, <3>3 DEF Follows, Alone, Late
    <2> QED BY <1>1, <2>2, <2>3, <2>4, <2>5, <2>6, <2>7 DEF Work
  <1>2. CASE UNCHANGED vars
    BY <1>2 DEF vars, Follows, Alone
  <1> QED BY <1>1, <1>2 DEF Next

(* An inbound interaction is in the thread of its message's row, unless a  *)
(* run of the message was cut off and repeated, or two ran side by side.   *)
THEOREM InteractionsInRowThread == Spec => []InteractionsFollowRows
  <1>1. Init => \A m \in Messages : Follows(m)
    BY DEF Init, Follows, Alone
  <1>2. Typed /\ (\A m \in Messages : Follows(m)) /\ [Next]_vars
          => (\A m \in Messages : Follows(m))'
    BY FollowsNext
  <1>3. Typed /\ (\A m \in Messages : Follows(m)) => InteractionsFollowRows
    BY DEF Typed, TypeOK, Follows, InteractionsFollowRows
  <1> QED BY <1>1, <1>2, <1>3, Typing, PTL DEF Spec

-----------------------------------------------------------------------------
(* The workers about to open a thread on k for a reply.                    *)
Opening(k) == {w \in Workers : pc[w] = "open" /\ cur[w] \in Replies /\ TopicOf[cur[w]] = k}

(* Once a reply has opened one nobody joins them, and each opens one more  *)
(* at most.                                                                *)
SplitBound(k) ==
  OpenedOn(k) # {} =>
    Cardinality(OpenedOn(k)) + Cardinality(Opening(k)) <= Cardinality(Workers)

LEMMA Finite ==
  \A k : /\ IsFiniteSet(OpenedOn(k)) /\ Cardinality(OpenedOn(k)) \in Nat
         /\ IsFiniteSet(Opening(k)) /\ Cardinality(Opening(k)) \in Nat
         /\ Cardinality(Workers) \in Nat
         /\ Cardinality(Opening(k)) <= Cardinality(Workers)
  <1>1. \A k : Opening(k) \subseteq Workers /\ OpenedOn(k) \subseteq Threads
    BY DEF Opening, OpenedOn
  <1> QED BY <1>1, FS_Subset, FS_CardinalityType

LEMMA FiniteNext ==
  \A k : IsFiniteSet(Opening(k)') /\ Cardinality(Opening(k)') \in Nat
  <1>1. \A k : Opening(k)' \subseteq Workers
    BY DEF Opening
  <1> QED BY <1>1, FS_Subset, FS_CardinalityType

(* A step that opens no thread, and that none joins once there is one.     *)
LEMMA SplitSurvives ==
  ASSUME NEW k, SplitBound(k), OpenedOn(k)' = OpenedOn(k),
         OpenedOn(k) # {} => Opening(k)' \subseteq Opening(k)
  PROVE  SplitBound(k)'
  <1> SUFFICES ASSUME OpenedOn(k) # {}
               PROVE  Cardinality(OpenedOn(k)) + Cardinality(Opening(k)') <= Cardinality(Workers)
    BY DEF SplitBound
  <1>1. Cardinality(Opening(k)') <= Cardinality(Opening(k))
    BY Finite, FS_Subset
  <1>2. Cardinality(OpenedOn(k)) + Cardinality(Opening(k)) <= Cardinality(Workers)
    BY DEF SplitBound
  <1> QED BY <1>1, <1>2, Finite, FiniteNext

LEMMA SplitNext ==
  ASSUME Typed, [Next]_vars, NEW k, SplitBound(k) PROVE SplitBound(k)'
  <1> USE DEF tables, worker, history, Goto, End
  <1>1. ASSUME NEW w \in Workers, Work(w) \/ Fail(w), ~SeekThread(w), ~OpenThread(w)
        PROVE  SplitBound(k)'
    <2>1. opener' = opener
      BY <1>1 DEF Work, Start, FindContact, InsertContact, RecordMessage, Offload, ClearRows,
                  InsertRow, Settle, LogInteraction, Fail
    <2>2. /\ pc'[w] # "open" /\ \A v \in Workers : v # w => pc'[v] = pc[v] /\ cur'[v] = cur[v]
      BY <1>1 DEF Work, Start, FindContact, InsertContact, RecordMessage, Offload, ClearRows,
                  InsertRow, Settle, LogInteraction, Fail, Typed, TypeOK
    <2>3. OpenedOn(k)' = OpenedOn(k) /\ Opening(k)' \subseteq Opening(k)
      BY <2>1, <2>2 DEF OpenedOn, Opening
    <2> QED BY <2>3, SplitSurvives
  <1>2. ASSUME NEW w \in Workers, SeekThread(w) PROVE SplitBound(k)'
    <2>1. /\ UNCHANGED <<opener, cur>> /\ \A v \in Workers : v # w => pc'[v] = pc[v]
          /\ pc'[w] = "open" /\ cur[w] \in Replies => OnTopic(cur[w]) = {}
      BY <1>2 DEF SeekThread, Typed, TypeOK
    <2>2. OpenedOn(k)' = OpenedOn(k)
      BY <2>1 DEF OpenedOn
    <2>3. OpenedOn(k) \subseteq {t \in Threads : opener[t] # None /\ TopicOf[opener[t]] = k}
      BY DEF OpenedOn
    <2>4. OpenedOn(k) # {} => w \notin Opening(k)'
      BY <2>1, <2>3 DEF Opening, OnTopic
    <2>5. OpenedOn(k) # {} => Opening(k)' \subseteq Opening(k)
      BY <2>1, <2>4 DEF Opening
    <2> QED BY <2>2, <2>5, SplitSurvives
  <1>3. ASSUME NEW w \in Workers, OpenThread(w) PROVE SplitBound(k)'
    <2>1. PICK new \in Threads : opener[new] = None /\ opener' = [opener EXCEPT ![new] = cur[w]]
      BY <1>3 DEF OpenThread
    <2>2. /\ UNCHANGED cur /\ pc[w] = "open" /\ pc' = [pc EXCEPT ![w] = "record"]
          /\ cur[w] \in Messages
      BY <1>3 DEF OpenThread, Typed, TypeOK, Memory
    <2>3. Opening(k)' = Opening(k) \ {w}
      BY <2>2 DEF Opening, Typed, TypeOK
    <2>4. CASE cur[w] \notin Replies \/ TopicOf[cur[w]] # k
      <3>1. OpenedOn(k)' = OpenedOn(k)
        BY <2>1, <2>4 DEF OpenedOn, Typed, TypeOK
      <3> QED BY <2>3, <3>1, SplitSurvives
    <2>5. CASE cur[w] \in Replies /\ TopicOf[cur[w]] = k
      <3>1. w \in Opening(k)
        BY <2>2, <2>5 DEF Opening
      <3>2. OpenedOn(k)' = OpenedOn(k) \cup {new} /\ new \notin OpenedOn(k)
        BY <2>1, <2>2, <2>5 DEF OpenedOn, Typed, TypeOK
      <3>3. Cardinality(Opening(k)') = Cardinality(Opening(k)) - 1
        BY <2>3, <3>1, Finite, FS_RemoveElement
      <3>4. Cardinality(OpenedOn(k)') = Cardinality(OpenedOn(k)) + 1
        BY <3>2, Finite, FS_AddElement
      <3>5. OpenedOn(k) = {} => Cardinality(OpenedOn(k)) = 0
        BY FS_EmptySet
      <3> QED BY <3>3, <3>4, <3>5, Finite, FiniteNext DEF SplitBound
    <2> QED BY <2>4, <2>5
  <1>4. CASE UNCHANGED vars
    BY <1>4, SplitSurvives DEF vars, OpenedOn, Opening
  <1> QED BY <1>1, <1>2, <1>3, <1>4 DEF Next

(* Replies open at most one thread on a topic for each worker.             *)
THEOREM RepliesStayTogether == Spec => []RepliesSplitNoThread
  <1>1. Init => \A m \in Replies : SplitBound(TopicOf[m])
    BY DEF Init, SplitBound, OpenedOn
  <1>2. Typed /\ (\A m \in Replies : SplitBound(TopicOf[m])) /\ [Next]_vars
          => (\A m \in Replies : SplitBound(TopicOf[m]))'
    BY SplitNext
  <1>3. (\A m \in Replies : SplitBound(TopicOf[m])) => RepliesSplitNoThread
    <2> SUFFICES ASSUME NEW m \in Replies, SplitBound(TopicOf[m])
                 PROVE  Cardinality(OpenedOn(TopicOf[m])) <= Cardinality(Workers)
      BY DEF RepliesSplitNoThread
    <2>1. CASE OpenedOn(TopicOf[m]) = {}
      BY <2>1, Finite, FS_EmptySet
    <2>2. CASE OpenedOn(TopicOf[m]) # {}
      BY <2>2, Finite DEF SplitBound
    <2> QED BY <2>1, <2>2
  <1> QED BY <1>1, <1>2, <1>3, Typing, PTL DEF Spec
=============================================================================
