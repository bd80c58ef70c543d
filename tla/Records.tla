------------------------------- MODULE Records -------------------------------
(***************************************************************************)
(* What a run of the graph writes about a message besides its outcome: the *)
(* sender's contact, the thread, the row, the attachments and the inbound  *)
(* interaction (enrich, _enrich and _finalize over repos.py, internal_db.py *)
(* and offload_attachment).                                                *)
(*                                                                         *)
(* The poller and the Exim pipe have a connection each, and every query    *)
(* and every statement is a step.  A run that raises leaves behind what it *)
(* has written; the message is run again until its row is settled.         *)
(***************************************************************************)
EXTENDS Naturals, FiniteSets

CONSTANTS
  Messages, Senders, Threads, Attachments, Names,
  SenderOf,    \* SenderOf[m]: the true sender of m
  TopicOf,     \* TopicOf[m]: the brand of m and its subject without Re: and Fwd:
  Replies,     \* the messages with References or In-Reply-To
  OwnerOf,     \* OwnerOf[a]: the message a is attached to
  DirOf,       \* DirOf[m]: the Message-ID as _safe spells it
  NameOf,      \* NameOf[a]: the file name as _safe spells it
  Mailed,      \* the messages the server delivers to INBOX
  Piped,       \* the messages Exim hands to the pipe; they may be in both
  Pollers,     \* processes that come back to a message in INBOX until it is settled
  Pipes,       \* processes that do not come back
  MaxFaults,   \* bound on calls that raise and attachments that cannot be stored
  None

Workers == Pollers \cup Pipes

ASSUME RecordsAssumption ==
  /\ SenderOf \in [Messages -> Senders]
  /\ Replies \subseteq Messages
  /\ Mailed \subseteq Messages /\ Piped \subseteq Messages
  /\ OwnerOf \in [Attachments -> Messages]
  /\ NameOf \in [Attachments -> Names]
  /\ IsFiniteSet(Workers) /\ IsFiniteSet(Threads)
  /\ MaxFaults \in Nat
  /\ None \notin Messages \cup Threads \cup Attachments

AttachmentsOf(m) == {a \in Attachments : OwnerOf[a] = m}

VARIABLES
  contacts,      \* the addresses in the contacts table, which is UNIQUE on them
  opener,        \* opener[t]: the message whose run inserted thread t, or None
  rowThread,     \* rowThread[m]: messages.thread_id, None when there is no row
  settled,       \* messages whose row has left the provisional folder
  attached,      \* attached[a]: the rows of the attachments table for a
  stored,        \* attachments with a row that has a storage_ref
  blobs,         \* blobs[p]: the attachment whose bytes the file p holds, or None
  interactions,  \* the inbound <<message, thread>> pairs of the interactions table
  pc,            \* pc[w]: the statement worker w is about to execute
  cur,           \* cur[w]: the message it is running
  thread,        \* thread[w]: thread_id in the state of the graph
  kept,          \* kept[w]: the attachments that got a storage_ref in memory
  todo,          \* todo[w]: the attachments record_attachments has yet to insert
  faults,
  retried,       \* history: messages with a run that ended early in its thread
  shared         \* history: messages that two workers ran at the same time

tables  == <<contacts, opener, rowThread, settled, attached, stored, interactions>>
worker  == <<pc, cur, thread, kept, todo>>
history == <<retried, shared>>
vars    == <<tables, blobs, worker, faults, history>>

Paths == {<<DirOf[m], n>> : m \in Messages, n \in Names}

(* Rows refer to rows that exist: foreign_keys is on.                      *)
TypeOK ==
  /\ contacts \subseteq Senders
  /\ opener \in [Threads -> Messages \cup {None}]
  /\ \A t \in Threads : opener[t] # None => SenderOf[opener[t]] \in contacts
  /\ rowThread \in [Messages -> Threads \cup {None}]
  /\ \A m \in Messages : rowThread[m] # None => opener[rowThread[m]] # None
  /\ settled \subseteq {m \in Messages : rowThread[m] # None}
  /\ attached \in [Attachments -> Nat]
  /\ \A a \in Attachments : attached[a] > 0 => rowThread[OwnerOf[a]] # None
  /\ stored \subseteq Attachments
  /\ blobs \in [Paths -> Attachments \cup {None}]
  /\ interactions \subseteq {x \in Messages \X Threads : opener[x[2]] # None}
  /\ pc \in [Workers -> {"off", "find", "contact", "seek", "open", "record", "offload",
                         "clear", "insert", "settle", "log"}]
  /\ cur \in [Workers -> Messages \cup {None}]
  /\ thread \in [Workers -> Threads \cup {None}]
  /\ kept \in [Workers -> SUBSET Attachments] /\ todo \in [Workers -> SUBSET Attachments]
  /\ faults \in Nat
  /\ retried \subseteq Messages /\ shared \subseteq Messages

Init ==
  /\ contacts = {} /\ opener = [t \in Threads |-> None]
  /\ rowThread = [m \in Messages |-> None] /\ settled = {}
  /\ attached = [a \in Attachments |-> 0] /\ stored = {}
  /\ blobs = [p \in Paths |-> None] /\ interactions = {}
  /\ pc = [w \in Workers |-> "off"] /\ cur = [w \in Workers |-> None]
  /\ thread = [w \in Workers |-> None]
  /\ kept = [w \in Workers |-> {}] /\ todo = [w \in Workers |-> {}]
  /\ faults = 0 /\ retried = {} /\ shared = {}

-----------------------------------------------------------------------------
Sender(w) == SenderOf[cur[w]]
Goto(w, next) == pc' = [pc EXCEPT ![w] = next]

(* The open threads on the topic of m: ensure_thread compares the subject  *)
(* and the brand, not the reference that made it look.                     *)
OnTopic(m) == {t \in Threads : opener[t] # None /\ TopicOf[opener[t]] = TopicOf[m]}

(* Where an attachment is written: attachments_path, message, file name.   *)
PathByName(a) == <<CHOOSE d \in {DirOf[m] : m \in Messages} : TRUE, NameOf[a]>>
PathOf(a) == <<DirOf[OwnerOf[a]], NameOf[a]>>

(* The poller finds its mail in INBOX and the pipe is handed its own.      *)
Source(w) == IF w \in Pollers THEN Mailed ELSE Piped

(* The gate of _parse lets m through.                                      *)
Start(w) ==
  /\ pc[w] = "off"
  /\ \E m \in Source(w) \ settled :
       /\ cur' = [cur EXCEPT ![w] = m]
       /\ shared' = shared \cup {x \in {m} : \E v \in Workers : cur[v] = m}
  /\ Goto(w, "find")
  /\ UNCHANGED <<tables, blobs, thread, kept, todo, faults, retried>>

FindContactByHeader(w) ==
  /\ pc[w] = "find"
  /\ Goto(w, "contact")
  /\ UNCHANGED <<tables, blobs, cur, thread, kept, todo, faults, history>>

FindContactLater(w) ==
  /\ pc[w] = "find"
  /\ Goto(w, "seek")
  /\ UNCHANGED <<tables, blobs, cur, thread, kept, todo, faults, history>>

(* find_contact, and the SELECT with which upsert_contact begins: a sender *)
(* found by either is there to stay.                                       *)
FindContact(w) ==
  /\ pc[w] = "find"
  /\ Goto(w, IF Sender(w) \in contacts THEN "seek" ELSE "contact")
  /\ UNCHANGED <<tables, blobs, cur, thread, kept, todo, faults, history>>

End(w) ==
  /\ pc' = [pc EXCEPT ![w] = "off"] /\ cur' = [cur EXCEPT ![w] = None]
  /\ thread' = [thread EXCEPT ![w] = None]
  /\ kept' = [kept EXCEPT ![w] = {}] /\ todo' = [todo EXCEPT ![w] = {}]

(* The INSERT of upsert_contact raises when another worker was faster.     *)
InsertContact(w) ==
  /\ pc[w] = "contact"
  /\ IF Sender(w) \in contacts
     THEN End(w) /\ UNCHANGED contacts
     ELSE /\ contacts' = contacts \cup {Sender(w)}
          /\ Goto(w, "seek") /\ UNCHANGED <<cur, thread, kept, todo>>
  /\ UNCHANGED <<opener, rowThread, settled, attached, stored, interactions, blobs,
                 faults, history>>

SeekNothing(w) ==
  /\ pc[w] = "seek"
  /\ Goto(w, "open")
  /\ UNCHANGED <<tables, blobs, cur, thread, kept, todo, faults, history>>

(* ensure_thread looks for a thread for replies only.                      *)
SeekThread(w) ==
  /\ pc[w] = "seek"
  /\ \/ /\ cur[w] \in Replies
        /\ \E t \in OnTopic(cur[w]) : thread' = [thread EXCEPT ![w] = t]
        /\ Goto(w, "record")
     \/ /\ cur[w] \in Replies => OnTopic(cur[w]) = {}
        /\ Goto(w, "open") /\ UNCHANGED thread
  /\ UNCHANGED <<tables, blobs, cur, kept, todo, faults, history>>

(* new_id() draws an id that is not in use; it does not matter which.      *)
OpenThread(w) ==
  /\ pc[w] = "open"
  /\ \E t \in Threads : opener[t] = None
  /\ LET new == CHOOSE t \in Threads : opener[t] = None
     IN /\ opener' = [opener EXCEPT ![new] = cur[w]]
        /\ thread' = [thread EXCEPT ![w] = new]
  /\ Goto(w, "record")
  /\ UNCHANGED <<contacts, rowThread, settled, attached, stored, interactions, blobs,
                 cur, kept, todo, faults, history>>

(* record_message: INSERT OR IGNORE.                                       *)
RecordMessage(w) ==
  /\ pc[w] = "record"
  /\ rowThread' = [rowThread EXCEPT ![cur[w]] = IF @ = None THEN thread[w] ELSE @]
  /\ Goto(w, IF AttachmentsOf(cur[w]) = {} THEN "settle" ELSE "offload")
  /\ UNCHANGED <<contacts, opener, settled, attached, stored, interactions, blobs,
                 cur, thread, kept, todo, faults, history>>

(* offload_attachments writes one file after the other, so of attachments  *)
(* with one path one remains, no matter which; a file that cannot be       *)
(* written is skipped.                                                     *)
Offload(w) ==
  /\ pc[w] = "offload"
  /\ LET all == AttachmentsOf(cur[w])
     IN \E done \in SUBSET all :
          /\ IF done = all THEN UNCHANGED faults
             ELSE faults < MaxFaults /\ faults' = faults + 1
          /\ kept' = [kept EXCEPT ![w] = done]
          /\ blobs' = [p \in Paths |-> IF \E a \in done : PathOf(a) = p
                                       THEN CHOOSE a \in done : PathOf(a) = p
                                       ELSE blobs[p]]
  /\ Goto(w, "clear")
  /\ UNCHANGED <<tables, cur, thread, todo, history>>

KeepOldRows(w) ==
  /\ pc[w] = "clear"
  /\ todo' = [todo EXCEPT ![w] = AttachmentsOf(cur[w])]
  /\ Goto(w, "insert")
  /\ UNCHANGED <<tables, blobs, cur, thread, kept, faults, history>>

(* record_attachments: one DELETE, then one INSERT for each attachment.    *)
ClearRows(w) ==
  /\ pc[w] = "clear"
  /\ attached' = [a \in Attachments |-> IF OwnerOf[a] = cur[w] THEN 0 ELSE attached[a]]
  /\ stored' = stored \ AttachmentsOf(cur[w])
  /\ todo' = [todo EXCEPT ![w] = AttachmentsOf(cur[w])]
  /\ Goto(w, "insert")
  /\ UNCHANGED <<contacts, opener, rowThread, settled, interactions, blobs,
                 cur, thread, kept, faults, history>>

InsertRow(w) ==
  /\ pc[w] = "insert"
  /\ \E a \in todo[w] :
       /\ attached' = [attached EXCEPT ![a] = @ + 1]
       /\ stored' = stored \cup ({a} \cap kept[w])
       /\ todo' = [todo EXCEPT ![w] = @ \ {a}]
       /\ Goto(w, IF todo[w] = {a} THEN "settle" ELSE "insert")
  /\ UNCHANGED <<contacts, opener, rowThread, settled, interactions, blobs,
                 cur, thread, kept, faults, history>>

(* The outcome, which Pipeline describes, and _finalize's set_folder.      *)
Settle(w) ==
  /\ pc[w] = "settle"
  /\ settled' = settled \cup {cur[w]}
  /\ Goto(w, "log")
  /\ UNCHANGED <<contacts, opener, rowThread, attached, stored, interactions, blobs,
                 cur, thread, kept, todo, faults, history>>

LogInteractionByTopic(w) ==
  /\ pc[w] = "log"
  /\ \E t \in OnTopic(cur[w]) : interactions' = interactions \cup {<<cur[w], t>>}
  /\ End(w)
  /\ UNCHANGED <<contacts, opener, rowThread, settled, attached, stored, blobs,
                 faults, history>>

(* log_interaction, with the thread_id of the state.                       *)
LogInteraction(w) ==
  /\ pc[w] = "log"
  /\ interactions' = interactions \cup {<<cur[w], thread[w]>>}
  /\ End(w)
  /\ UNCHANGED <<contacts, opener, rowThread, settled, attached, stored, blobs,
                 faults, history>>

(* A call raises or the process dies.                                      *)
Fail(w) ==
  /\ pc[w] # "off"
  /\ faults < MaxFaults /\ faults' = faults + 1
  /\ retried' = retried \cup {cur[x] : x \in {w} \cap {v \in Workers : thread[v] # None}}
  /\ End(w)
  /\ UNCHANGED <<tables, blobs, shared>>

Work(w) ==
  \/ Start(w) \/ FindContact(w) \/ InsertContact(w) \/ SeekThread(w) \/ OpenThread(w)
  \/ RecordMessage(w) \/ Offload(w) \/ ClearRows(w) \/ InsertRow(w) \/ Settle(w)
  \/ LogInteraction(w)

Next == \E w \in Workers : Work(w) \/ Fail(w)

Spec == Init /\ [][Next]_vars

(* The poll loop goes on for ever; the Exim pipe is not started again.     *)
FairSpec == Spec /\ \A w \in Pollers : WF_vars(Work(w))

-----------------------------------------------------------------------------
(* Safety.                                                                 *)

OpenedOn(k) == {t \in Threads : opener[t] # None /\ opener[t] \in Replies
                                  /\ TopicOf[opener[t]] = k}

(* A conversation is not split by its replies: they open a thread only     *)
(* when none is there, so at most one for each worker that looked at the   *)
(* same moment, whatever fails and however often they are run again.       *)
RepliesSplitNoThread ==
  \A m \in Replies : Cardinality(OpenedOn(TopicOf[m])) <= Cardinality(Workers)

(* Every inbound interaction is in the thread of its message's row, unless *)
(* a run of the message was cut off and repeated, or two ran side by side: *)
(* each of them may have found or opened a thread of its own, and the row  *)
(* keeps the first.                                                        *)
InteractionsFollowRows ==
  \A x \in interactions : x[2] = rowThread[x[1]] \/ x[1] \in retried \cup shared

(* A settled message has exactly one row for each of its attachments,      *)
(* however often it was run, unless two workers deleted and inserted side  *)
(* by side.                                                                *)
AttachmentsAreOnRecord ==
  \A a \in Attachments :
    OwnerOf[a] \in settled => attached[a] = 1 \/ OwnerOf[a] \in shared

(* A storage_ref leads to the bytes of its attachment, unless _safe spells *)
(* another attachment the same: runs of other messages do not overwrite it. *)
RefsFindTheirBlob ==
  \A a \in stored :
    \/ blobs[PathOf(a)] = a
    \/ \E b \in Attachments \ {a} : /\ NameOf[b] = NameOf[a]
                                    /\ DirOf[OwnerOf[b]] = DirOf[OwnerOf[a]]

-----------------------------------------------------------------------------
(* Liveness.                                                               *)

(* Every message that is in INBOX is settled in the end, whatever fails on *)
(* the way and whoever wins the race for a sender's contact.  Mail that    *)
(* reached the pipe alone is run once: nothing comes back to it.           *)
AllSettle == \A m \in Mailed : <>(m \in settled)
=============================================================================
