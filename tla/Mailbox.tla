------------------------------- MODULE Mailbox -------------------------------
(***************************************************************************)
(* The folders on the mail server, command by command: what Pipeline takes *)
(* as the single step MoveResults.  ImapSmtpTransport reads INBOX, moves   *)
(* mail to a lane by MOVE or, when that fails, by COPY, STORE and EXPUNGE, *)
(* flags \Seen, and expunges aged mail from Trash/.                        *)
(*                                                                         *)
(* The poller and each command of a person has a connection of its own,    *)
(* and people use the same mailbox with their own mail clients, so other   *)
(* commands may run between any two of a client.                           *)
(***************************************************************************)
EXTENDS Integers

CONSTANTS
  Mails,       \* deliveries to INBOX, each with the UID it got there
  Lanes,       \* the status folders
  Pollers,     \* processes running "run_agent run"
  Operators,   \* processes running "run_agent approve | edit | escalate | maintenance"
  Grace,       \* retention.trash_grace_days
  MaxDay,      \* bound on the days that pass
  MaxFaults,   \* bound on commands refused, runs that fail and processes killed
  MaxCommands, \* bound on the commands operators give
  MaxActs,     \* bound on what people do with their own mail clients
  None

ASSUME MailboxAssumption ==
  /\ Lanes \cap {"INBOX", "Trash"} = {}
  /\ Pollers \cap Operators = {}
  /\ Grace \in Nat /\ MaxDay \in Nat /\ None \notin Nat
  /\ MaxFaults \in Nat /\ MaxCommands \in Nat /\ MaxActs \in Nat
  /\ None \notin Mails \cup Lanes \cup Pollers \cup Operators

Clients == Pollers \cup Operators
Folders == Lanes \cup {"INBOX", "Trash"}

VARIABLES
  place,     \* place[m]: the folders that hold a copy of m
  deleted,   \* the <<mail, folder>> pairs whose copy is flagged \Deleted
  seen,      \* the mails whose copy in INBOX is flagged \Seen
  day,       \* today
  arrived,   \* arrived[m]: the day of m's INTERNALDATE, None before it arrives
  handled,   \* the mails whose message has an outcome and a settled row
  pc,        \* pc[c]: the command client c is about to give
  batch,     \* batch[c]: the mails read_new returned and c has not run
  uid,       \* uid[c]: the mail that c moves
  lane,      \* lane[c]: the folder it moves it to
  aged,      \* aged[c]: the answer to SEARCH BEFORE in Trash/
  opened,    \* history: mails people opened in INBOX
  forfeit,   \* history: mails flagged by people, refused by COPY, or purged
  torn,      \* history: mails whose COPY and EXPUNGE something came between
  faults, asked, acts

folders == <<place, deleted, seen>>
dates   == <<day, arrived>>
client  == <<pc, batch, uid, lane, aged>>
history == <<opened, forfeit, torn>>
bounds  == <<faults, asked, acts>>
vars    == <<folders, dates, handled, client, history, bounds>>

TypeOK ==
  /\ place \in [Mails -> SUBSET Folders]
  /\ deleted \subseteq Mails \X Folders
  /\ \A m \in Mails, f \in Folders : <<m, f>> \in deleted => f \in place[m]
  /\ seen \subseteq Mails
  /\ day \in Nat
  /\ arrived \in [Mails -> Nat \cup {None}]
  /\ handled \subseteq Mails
  /\ pc \in [Clients -> {"idle", "run", "move", "copy", "store", "expunge", "mark",
                         "search", "flag", "purge"}]
  /\ batch \in [Clients -> SUBSET Mails]
  /\ uid \in [Clients -> Mails \cup {None}]
  /\ lane \in [Clients -> Lanes \cup {None}]
  /\ aged \in [Clients -> SUBSET Mails]
  /\ opened \subseteq Mails /\ forfeit \subseteq Mails /\ torn \subseteq Mails
  /\ faults \in Nat /\ asked \in Nat /\ acts \in Nat

Init ==
  /\ place = [m \in Mails |-> {}] /\ deleted = {} /\ seen = {}
  /\ day = 0
  /\ arrived = [m \in Mails |-> None]
  /\ handled = {}
  /\ pc = [c \in Clients |-> "idle"] /\ batch = [c \in Clients |-> {}]
  /\ uid = [c \in Clients |-> None] /\ lane = [c \in Clients |-> None]
  /\ aged = [c \in Clients |-> {}]
  /\ opened = {} /\ forfeit = {} /\ torn = {}
  /\ faults = 0 /\ asked = 0 /\ acts = 0

-----------------------------------------------------------------------------
(* What the server holds.                                                  *)

In(f) == {m \in Mails : f \in place[m]}

Old(m) == arrived[m] # None /\ arrived[m] < day - Grace

(* The flags once a copy of m in f has been copied to g: copies of m in one *)
(* folder count as flagged when all of them are.                           *)
FlagsCopied(m, f, g) ==
  IF <<m, f>> \in deleted /\ (g \in place[m] => <<m, g>> \in deleted)
  THEN deleted \cup {<<m, g>>} ELSE deleted \ {<<m, g>>}

Relocate(m, f, g) ==
  /\ place' = [place EXCEPT ![m] = (@ \ {f}) \cup {g}]
  /\ deleted' = FlagsCopied(m, f, g) \ {<<m, f>>}

(* EXPUNGE in f removes every copy there that is flagged, whoever did it.  *)
Expunged(f) == {m \in In(f) : <<m, f>> \in deleted}
Expunge(f) ==
  /\ place' = [m \in Mails |-> IF m \in Expunged(f) THEN place[m] \ {f} ELSE place[m]]
  /\ deleted' = deleted \ (Mails \X {f})

(* The clients that have copied m and not yet expunged it.                 *)
Copying(m) == {c \in Clients : uid[c] = m /\ pc[c] \in {"store", "expunge"}}
Interrupt(c, m) == torn' = torn \cup {n \in {m} : Copying(n) \ {c} # {}}

Fault == faults < MaxFaults /\ faults' = faults + 1

-----------------------------------------------------------------------------
(* The mail server and people with mail clients of their own.              *)

Arrive(m) ==
  /\ arrived[m] = None
  /\ arrived' = [arrived EXCEPT ![m] = day]
  /\ place' = [place EXCEPT ![m] = {"INBOX"}]
  /\ UNCHANGED <<deleted, seen, day, handled, client, history, bounds>>

NextDay ==
  /\ day < MaxDay /\ day' = day + 1
  /\ UNCHANGED <<folders, arrived, handled, client, history, bounds>>

Act == acts < MaxActs /\ acts' = acts + 1

Open(m) ==
  /\ Act /\ m \in In("INBOX") \ seen
  /\ seen' = seen \cup {m} /\ opened' = opened \cup {m}
  /\ UNCHANGED <<place, deleted, dates, handled, client, forfeit, torn, faults, asked>>

(* Many clients delete by flagging alone.                                  *)
FlagDeleted(m) ==
  /\ Act /\ m \in In("INBOX") \ Expunged("INBOX")
  /\ deleted' = deleted \cup {<<m, "INBOX">>} /\ forfeit' = forfeit \cup {m}
  /\ UNCHANGED <<place, seen, dates, handled, client, opened, torn, faults, asked>>

ThrowAway(m, f) ==
  /\ Act /\ f \in place[m] \ {"Trash"}
  /\ Relocate(m, f, "Trash")
  /\ Interrupt(None, m)
  /\ UNCHANGED <<seen, dates, handled, client, opened, forfeit, faults, asked>>

Restore(m, f) ==
  /\ Act /\ m \in In("Trash")
  /\ Relocate(m, "Trash", f)
  /\ Interrupt(None, m)
  /\ UNCHANGED <<seen, dates, handled, client, opened, forfeit, faults, asked>>

-----------------------------------------------------------------------------
(* A pass of the poller.                                                   *)

ReadNewOpening(c) ==
  /\ c \in Pollers /\ pc[c] = "idle"
  /\ batch' = [batch EXCEPT ![c] = In("INBOX") \ seen]
  /\ seen' = seen \cup In("INBOX")
  /\ pc' = [pc EXCEPT ![c] = "run"]
  /\ UNCHANGED <<place, deleted, dates, handled, uid, lane, aged, history, bounds>>

(* read_new: SEARCH UNSEEN, then a FETCH of each that leaves \Seen alone.  *)
(* A FETCH that fails skips its mail.                                      *)
ReadNew(c) ==
  /\ c \in Pollers /\ pc[c] = "idle"
  /\ LET unseen == In("INBOX") \ seen
     IN \/ batch' = [batch EXCEPT ![c] = unseen] /\ UNCHANGED faults
        \/ \E m \in unseen : batch' = [batch EXCEPT ![c] = unseen \ {m}] /\ Fault
  /\ pc' = [pc EXCEPT ![c] = "run"]
  /\ UNCHANGED <<folders, dates, handled, uid, lane, aged, history, asked, acts>>

(* A run of the graph up to finalize's set_folder.  The gate drops handled *)
(* mail and the prefilter what it takes for junk, here any mail; both leave *)
(* it in INBOX.  A run that raises leaves its mail to a later pass.        *)
Run(c) ==
  /\ pc[c] = "run"
  /\ \E m \in batch[c] :
       /\ batch' = [batch EXCEPT ![c] = @ \ {m}]
       /\ \/ UNCHANGED <<handled, pc, uid, lane, faults>>
          \/ m \notin handled /\ Fault /\ UNCHANGED <<handled, pc, uid, lane>>
          \/ /\ m \notin handled /\ handled' = handled \cup {m}
             /\ uid' = [uid EXCEPT ![c] = m]
             /\ \E f \in Lanes : lane' = [lane EXCEPT ![c] = f]
             /\ pc' = [pc EXCEPT ![c] = "move"]
             /\ UNCHANGED faults
  /\ UNCHANGED <<folders, dates, aged, history, asked, acts>>

(* The housekeeping follows the pass once a day.                           *)
EndPass(c) ==
  /\ pc[c] = "run" /\ batch[c] = {}
  /\ \E next \in {"idle", "search"} : pc' = [pc EXCEPT ![c] = next]
  /\ UNCHANGED <<folders, dates, handled, batch, uid, lane, aged, history, bounds>>

-----------------------------------------------------------------------------
(* The command line: process_approval's move of a message that has an      *)
(* approval, and the maintenance command.                                  *)

Ask(c) ==
  /\ c \in Operators /\ pc[c] = "idle"
  /\ asked < MaxCommands /\ asked' = asked + 1
  /\ \E m \in handled, f \in Lanes :
       uid' = [uid EXCEPT ![c] = m] /\ lane' = [lane EXCEPT ![c] = f]
  /\ pc' = [pc EXCEPT ![c] = "move"]
  /\ UNCHANGED <<folders, dates, handled, batch, aged, history, faults, acts>>

Maintain(c) ==
  /\ c \in Operators /\ pc[c] = "idle"
  /\ asked < MaxCommands /\ asked' = asked + 1
  /\ pc' = [pc EXCEPT ![c] = "search"]
  /\ UNCHANGED <<folders, dates, handled, batch, uid, lane, aged, history, faults, acts>>

-----------------------------------------------------------------------------
(* move and mark_processed.  Each command is by UID: for a mail that is no *)
(* longer in INBOX it does nothing and is not an error.                    *)

Goto(c, next) == pc' = [pc EXCEPT ![c] = next]

(* Where a client goes on when move and mark_processed are over.           *)
Leave(c) ==
  /\ pc' = [pc EXCEPT ![c] = IF c \in Pollers THEN "run" ELSE "idle"]
  /\ uid' = [uid EXCEPT ![c] = None] /\ lane' = [lane EXCEPT ![c] = None]

(* MOVE is done, or is refused or raises and the fallback begins.          *)
Move(c) ==
  /\ pc[c] = "move"
  /\ \/ /\ IF uid[c] \in In("INBOX")
           THEN Relocate(uid[c], "INBOX", lane[c]) /\ Interrupt(c, uid[c])
           ELSE UNCHANGED <<place, deleted, torn>>
        /\ Goto(c, "mark")
     \/ Goto(c, "copy") /\ UNCHANGED <<place, deleted, torn>>
  /\ UNCHANGED <<seen, dates, handled, batch, uid, lane, aged, opened, forfeit, bounds>>

(* Nobody looks at the answers to COPY, STORE and EXPUNGE.                 *)
Copy(c) ==
  /\ pc[c] = "copy"
  /\ \/ /\ IF uid[c] \in In("INBOX")
           THEN /\ place' = [place EXCEPT ![uid[c]] = @ \cup {lane[c]}]
                /\ deleted' = FlagsCopied(uid[c], "INBOX", lane[c])
                /\ Interrupt(c, uid[c])
           ELSE UNCHANGED <<place, deleted, torn>>
        /\ UNCHANGED <<forfeit, faults>>
     \/ /\ Fault /\ forfeit' = forfeit \cup ({uid[c]} \cap In("INBOX"))
        /\ UNCHANGED <<place, deleted, torn>>
  /\ Goto(c, "store")
  /\ UNCHANGED <<seen, dates, handled, batch, uid, lane, aged, opened, asked, acts>>

StoreUnchecked(c) ==
  /\ pc[c] = "store"
  /\ deleted' = deleted \cup {<<uid[c], "INBOX">>}
  /\ Goto(c, "expunge")
  /\ UNCHANGED <<place, seen, dates, handled, batch, uid, lane, aged, history, bounds>>

Store(c) ==
  /\ pc[c] = "store"
  /\ \/ deleted' = deleted \cup ({uid[c]} \cap In("INBOX")) \X {"INBOX"} /\ UNCHANGED <<torn, faults>>
     \/ Fault /\ torn' = torn \cup {uid[c]} /\ UNCHANGED deleted
  /\ Goto(c, "expunge")
  /\ UNCHANGED <<place, seen, dates, handled, batch, uid, lane, aged, opened, forfeit, asked, acts>>

ExpungeNothing(c) ==
  /\ pc[c] = "expunge"
  /\ Goto(c, "mark")
  /\ UNCHANGED <<folders, dates, handled, batch, uid, lane, aged, history, bounds>>

ExpungeInbox(c) ==
  /\ pc[c] = "expunge"
  /\ \/ Expunge("INBOX") /\ UNCHANGED <<torn, faults>>
     \/ Fault /\ torn' = torn \cup {uid[c]} /\ UNCHANGED <<place, deleted>>
  /\ Goto(c, "mark")
  /\ UNCHANGED <<seen, dates, handled, batch, uid, lane, aged, opened, forfeit, asked, acts>>

MarkProcessed(c) ==
  /\ pc[c] = "mark"
  /\ seen' = seen \cup ({uid[c]} \cap In("INBOX"))
  /\ Leave(c)
  /\ UNCHANGED <<place, deleted, dates, handled, batch, aged, history, bounds>>

-----------------------------------------------------------------------------
(* run_housekeeping: expunge_older_than.                                   *)

SearchEverything(c) ==
  /\ pc[c] = "search"
  /\ aged' = [aged EXCEPT ![c] = In("Trash")]
  /\ Goto(c, IF In("Trash") = {} THEN "idle" ELSE "flag")
  /\ UNCHANGED <<folders, dates, handled, batch, uid, lane, history, bounds>>

(* SEARCH BEFORE compares the INTERNALDATE, the day the mail arrived,      *)
(* which a move to Trash/ keeps.                                           *)
Search(c) ==
  /\ pc[c] = "search"
  /\ LET found == {m \in In("Trash") : Old(m)}
     IN /\ aged' = [aged EXCEPT ![c] = found]
        /\ Goto(c, IF found = {} THEN "idle" ELSE "flag")
  /\ UNCHANGED <<folders, dates, handled, batch, uid, lane, history, bounds>>

(* One STORE for each, which may be refused.                               *)
FlagAged(c) ==
  /\ pc[c] = "flag"
  /\ \E m \in aged[c] :
       /\ aged' = [aged EXCEPT ![c] = @ \ {m}]
       /\ \/ deleted' = deleted \cup ({m} \cap In("Trash")) \X {"Trash"} /\ UNCHANGED faults
          \/ Fault /\ UNCHANGED deleted
       /\ Goto(c, IF aged[c] = {m} THEN "purge" ELSE "flag")
  /\ UNCHANGED <<place, seen, dates, handled, batch, uid, lane, history, asked, acts>>

Purge(c) ==
  /\ pc[c] = "purge"
  /\ \/ Expunge("Trash") /\ forfeit' = forfeit \cup Expunged("Trash") /\ UNCHANGED faults
     \/ Fault /\ UNCHANGED <<place, deleted, forfeit>>
  /\ Goto(c, "idle")
  /\ UNCHANGED <<seen, dates, handled, batch, uid, lane, aged, opened, torn, asked, acts>>

-----------------------------------------------------------------------------
(* A command raises (the connection is gone): finalize, _safe_move and     *)
(* run_housekeeping swallow it and go on, after part of their commands.    *)
Break(c) ==
  /\ pc[c] \in {"move", "copy", "store", "expunge", "mark"} /\ Fault
  /\ torn' = torn \cup {m \in Mails : c \in Copying(m)}
  /\ Leave(c)
  /\ UNCHANGED <<folders, dates, handled, batch, aged, opened, forfeit, asked, acts>>

(* The process dies; so does housekeeping that raises.                     *)
Crash(c) ==
  /\ pc[c] # "idle" /\ Fault
  /\ torn' = torn \cup {m \in Mails : c \in Copying(m)}
  /\ pc' = [pc EXCEPT ![c] = "idle"] /\ batch' = [batch EXCEPT ![c] = {}]
  /\ uid' = [uid EXCEPT ![c] = None] /\ lane' = [lane EXCEPT ![c] = None]
  /\ aged' = [aged EXCEPT ![c] = {}]
  /\ UNCHANGED <<folders, dates, handled, opened, forfeit, asked, acts>>

Work(c) ==
  \/ ReadNew(c) \/ Run(c) \/ EndPass(c)
  \/ Move(c) \/ Copy(c) \/ Store(c) \/ ExpungeInbox(c) \/ MarkProcessed(c)
  \/ Search(c) \/ FlagAged(c) \/ Purge(c)

People(m) ==
  \/ Open(m) \/ FlagDeleted(m)
  \/ \E f \in Folders : ThrowAway(m, f)
  \/ \E f \in Lanes : Restore(m, f)

Next ==
  \/ \E m \in Mails : Arrive(m) \/ People(m)
  \/ NextDay
  \/ \E c \in Clients : Work(c) \/ Ask(c) \/ Maintain(c) \/ Break(c) \/ Crash(c)

Spec == Init /\ [][Next]_vars

-----------------------------------------------------------------------------
(* Safety.                                                                 *)

(* The poller never takes mail out of its own sight: a mail in INBOX that  *)
(* read_new will not find (it is \Seen) has been handled, or a person has  *)
(* opened it.  Reading must not set the flag, for the run may fail.        *)
SeenWasHandled == seen \subseteq handled \cup opened

(* Mail is in two folders only while its move is between COPY and EXPUNGE, *)
(* or after something came between the two: a fault, a second client that  *)
(* moved the same mail, or a person.                                       *)
DoubledIsTorn ==
  \A m \in Mails : (\E f, g \in place[m] : f # g) => m \in torn \/ Copying(m) # {}

-----------------------------------------------------------------------------
(* The promise of Placement, kept by this specification.                   *)

Where(m) ==
  CASE arrived[m] = None -> "absent"
    [] arrived[m] # None /\ "INBOX" \in place[m] -> "INBOX"
    [] "INBOX" \notin place[m] /\ place[m] \cap Lanes # {} -> "filed"
    [] place[m] = {"Trash"} -> "Trash"
    [] arrived[m] # None /\ place[m] = {} -> "gone"

Places == INSTANCE Placement
            WITH where <- [m \in Mails |-> Where(m)], old <- {m \in Mails : Old(m)}

(* Whatever commands are refused or cut off, and whoever else is at work   *)
(* in the mailbox: filed mail stays filed until a person throws it away,   *)
(* nothing returns to INBOX, and a mail ceases to exist only if people     *)
(* flagged it, the server refused to copy it, or it was old and in Trash/. *)
KeepsPlaces == Places!Spec
=============================================================================
