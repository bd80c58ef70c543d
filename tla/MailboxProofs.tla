---------------------------- MODULE MailboxProofs ----------------------------
(***************************************************************************)
(* Proofs about Mailbox, for any number of mails, folders and clients and  *)
(* whatever commands fail.                                                 *)
(***************************************************************************)
EXTENDS Mailbox, TLAPS

USE MailboxAssumption

Moving == {"move", "copy", "store", "expunge", "mark"}

(* A client that moves a mail moves one that was handled, and a mail that  *)
(* is anywhere, or was handled or read, has arrived.                       *)
Targets ==
  \A c \in Clients :
    /\ uid[c] # None => uid[c] \in handled
    /\ pc[c] \in Moving => uid[c] # None /\ lane[c] # None

Arrivals ==
  \A m \in Mails : arrived[m] = None =>
    place[m] = {} /\ m \notin handled /\ \A c \in Clients : m \notin batch[c]

Typed == TypeOK /\ Targets /\ Arrivals

LEMMA TypedNext == Typed /\ [Next]_vars => Typed'
  <1> SUFFICES ASSUME Typed, [Next]_vars PROVE Typed'
    OBVIOUS
  <1> USE DEF Typed, TypeOK, Targets, Arrivals, Moving, folders, dates, client, history,
              bounds, Folders, In, Fault, Act, Interrupt, Copying
  <1>1. ASSUME NEW m \in Mails, Arrive(m) \/ Open(m) \/ FlagDeleted(m)
        PROVE  Typed'
    <2>1. CASE Arrive(m)
      BY <2>1 DEF Arrive
    <2>2. CASE Open(m)
      BY <2>2 DEF Open
    <2>3. CASE FlagDeleted(m)
      BY <2>3 DEF FlagDeleted
    <2> QED BY <1>1, <2>1, <2>2, <2>3
  <1>2. ASSUME NEW m \in Mails, NEW f \in Folders, NEW g \in Folders \ {"INBOX"},
               f \in place[m], f # g, Relocate(m, f, g)
        PROVE  /\ place' \in [Mails -> SUBSET Folders]
               /\ deleted' \subseteq Mails \X Folders
               /\ \A n \in Mails, h \in Folders : <<n, h>> \in deleted' => h \in place'[n]
               /\ \A n \in Mails : arrived[n] = None => place'[n] = {}
    BY <1>2 DEF Relocate, FlagsCopied
  <1>3. ASSUME NEW m \in Mails, NEW f \in Folders, ThrowAway(m, f) PROVE Typed'
    BY <1>2, <1>3 DEF ThrowAway
  <1>4. ASSUME NEW m \in Mails, NEW f \in Lanes, Restore(m, f) PROVE Typed'
    BY <1>2, <1>4 DEF Restore
  <1>5. CASE NextDay
    BY <1>5 DEF NextDay
  <1>6. ASSUME NEW f \in Folders, Expunge(f)
        PROVE  /\ place' \in [Mails -> SUBSET Folders]
               /\ deleted' \subseteq Mails \X Folders
               /\ \A n \in Mails, h \in Folders : <<n, h>> \in deleted' => h \in place'[n]
               /\ \A n \in Mails : place[n] = {} => place'[n] = {}
    BY <1>6 DEF Expunge, Expunged
  <1>7. ASSUME NEW c \in Clients, Work(c) \/ Ask(c) \/ Maintain(c) \/ Break(c) \/ Crash(c)
        PROVE  Typed'
    <2>1. CASE ReadNew(c)
      BY <2>1 DEF ReadNew
    <2>2. CASE Run(c)
      BY <2>2 DEF Run
    <2>3. CASE EndPass(c)
      BY <2>3 DEF EndPass
    <2>4. CASE Move(c)
      BY <1>2, <2>4 DEF Move, Goto
    <2>5. CASE Copy(c)
      BY <2>5 DEF Copy, Goto, FlagsCopied
    <2>6. CASE Store(c)
      BY <2>6 DEF Store, Goto
    <2>7. CASE ExpungeInbox(c)
      BY <1>6, <2>7 DEF ExpungeInbox, Goto
    <2>8. CASE MarkProcessed(c)
      BY <2>8 DEF MarkProcessed, Leave
    <2>9. CASE Search(c)
      BY <2>9 DEF Search, Goto
    <2>10. CASE FlagAged(c)
      BY <2>10 DEF FlagAged, Goto
    <2>11. CASE Purge(c)
      <3>1. CASE Expunge("Trash")
        <4>1. Expunged("Trash") \subseteq Mails
          BY DEF Expunged
        <4> QED BY <1>6, <2>11, <3>1, <4>1 DEF Purge, Goto
      <3>2. CASE UNCHANGED <<place, deleted, forfeit>>
        BY <2>11, <3>2 DEF Purge, Goto
      <3> QED BY <2>11, <3>1, <3>2 DEF Purge
    <2>12. CASE Ask(c)
      BY <2>12 DEF Ask
    <2>13. CASE Maintain(c)
      BY <2>13 DEF Maintain
    <2>14. CASE Break(c)
      BY <2>14 DEF Break, Leave
    <2>15. CASE Crash(c)
      BY <2>15 DEF Crash
    <2> QED BY <1>7, <2>1, <2>2, <2>3, <2>4, <2>5, <2>6, <2>7, <2>8, <2>9, <2>10, <2>11,
               <2>12, <2>13, <2>14, <2>15 DEF Work
  <1>8. CASE UNCHANGED vars
    BY <1>8 DEF vars
  <1> QED BY <1>1, <1>3, <1>4, <1>5, <1>7, <1>8 DEF Next, People

LEMMA TypedInit == Init => Typed
  BY DEF Init, Typed, TypeOK, Targets, Arrivals, Moving

LEMMA Typing == Spec => []Typed
  BY TypedInit, TypedNext, PTL DEF Spec

(* Every mail is in folders that exist, \Deleted flags are on copies that  *)
(* are there, and every client is at a command it can give.                *)
THEOREM MailboxTypeCorrect == Spec => []TypeOK
  BY Typing, PTL DEF Typed

-----------------------------------------------------------------------------
(* What read_new will not find has been handled or opened.                 *)
THEOREM SeenMailWasHandled == Spec => []SeenWasHandled
  <1>1. Init => SeenWasHandled
    BY DEF Init, SeenWasHandled
  <1>2. Typed /\ SeenWasHandled /\ [Next]_vars => SeenWasHandled'
    <2> SUFFICES ASSUME Typed, SeenWasHandled, [Next]_vars PROVE SeenWasHandled'
      OBVIOUS
    <2> USE DEF SeenWasHandled, folders, dates, client, history, bounds
    <2>1. ASSUME NEW m \in Mails, Open(m) PROVE SeenWasHandled'
      BY <2>1 DEF Open
    <2>2. ASSUME NEW c \in Clients, MarkProcessed(c) PROVE SeenWasHandled'
      BY <2>2 DEF MarkProcessed, Typed, Targets, Moving
    <2>3. ASSUME NEW c \in Clients, Run(c) PROVE SeenWasHandled'
      BY <2>3 DEF Run
    <2>4. ASSUME UNCHANGED <<seen, handled, opened>> PROVE SeenWasHandled'
      BY <2>4
    <2>5. ASSUME NEW m \in Mails, Arrive(m) \/ People(m), ~Open(m)
          PROVE  UNCHANGED <<seen, handled, opened>>
      BY <2>5 DEF Arrive, People, FlagDeleted, ThrowAway, Restore
    <2>6. ASSUME NEW c \in Clients, ~MarkProcessed(c), ~Run(c),
                 Work(c) \/ Ask(c) \/ Maintain(c) \/ Break(c) \/ Crash(c)
          PROVE  UNCHANGED <<seen, handled, opened>>
      BY <2>6 DEF Work, ReadNew, EndPass, Move, Copy, Store, ExpungeInbox, Search, FlagAged,
                  Purge, Ask, Maintain, Break, Crash
    <2>7. NextDay \/ UNCHANGED vars => UNCHANGED <<seen, handled, opened>>
      BY DEF NextDay, vars
    <2> QED BY <2>1, <2>2, <2>3, <2>4, <2>5, <2>6, <2>7 DEF Next, People
  <1> QED BY <1>1, <1>2, Typing, PTL DEF Spec

-----------------------------------------------------------------------------
(* A mail nothing came between is in one folder besides INBOX at most, and *)
(* in one besides INBOX only while a client is about to expunge INBOX,     *)
(* where it has flagged the copy by then.                                  *)
Single(m) ==
  m \notin torn =>
    /\ \A f, g \in place[m] \ {"INBOX"} : f = g
    /\ "INBOX" \in place[m] /\ place[m] # {"INBOX"} => Copying(m) # {}
    /\ \A c \in Copying(m) :
         pc[c] = "expunge" /\ "INBOX" \in place[m] => <<m, "INBOX">> \in deleted

Singles == \A m \in Mails : Single(m)

(* A step that leaves m and the clients that copy it alone.                *)
LEMMA SingleSurvives ==
  ASSUME NEW m \in Mails, Single(m), torn \subseteq torn',
         m \notin torn' =>
           /\ place'[m] = place[m] /\ Copying(m)' = Copying(m)
           /\ \A c \in Copying(m) : pc'[c] = "expunge" => pc[c] = "expunge"
           /\ <<m, "INBOX">> \in deleted => <<m, "INBOX">> \in deleted'
  PROVE  Single(m)'
  <1> SUFFICES ASSUME m \notin torn' PROVE Single(m)'
    BY DEF Single
  <1> QED BY DEF Single

(* A mail nobody is copying is in one folder at most.                      *)
LEMMA SingleIsSingle ==
  ASSUME NEW m \in Mails, Single(m), m \notin torn, Copying(m) = {}, NEW f \in place[m]
  PROVE  place[m] = {f}
  BY DEF Single

LEMMA RelocateSingle ==
  ASSUME Typed, Singles, NEW c \in Clients \cup {None}, c \notin {d \in Clients : pc[d] \in {"store", "expunge"}},
         NEW m \in Mails, NEW f \in Folders, NEW g \in Folders \ {"INBOX"}, f \in place[m], f # g,
         Relocate(m, f, g), Interrupt(c, m), \A d \in Clients : d # c => pc'[d] = pc[d],
         c \in Clients => pc'[c] \notin {"store", "expunge"}, UNCHANGED uid
  PROVE  Singles'
  <1> SUFFICES ASSUME NEW n \in Mails PROVE Single(n)'
    BY DEF Singles
  <1>1. Copying(n)' = Copying(n) /\ \A d \in Copying(n) : pc'[d] = pc[d]
    BY DEF Copying
  <1>2. torn' = torn \cup {x \in {m} : Copying(m) \ {c} # {}} /\ c \notin Copying(m)
    BY DEF Interrupt, Copying
  <1>3. CASE n # m
    <2>1. place'[n] = place[n] /\ (<<n, "INBOX">> \in deleted => <<n, "INBOX">> \in deleted')
      BY <1>3 DEF Relocate, FlagsCopied, Typed, TypeOK
    <2> QED BY <1>1, <1>2, <2>1, SingleSurvives DEF Singles
  <1>4. CASE n = m
    <2> SUFFICES ASSUME m \notin torn' PROVE Single(m)'
      BY <1>4 DEF Single
    <2>1. Copying(m) = {} /\ m \notin torn
      BY <1>2
    <2>2. place[m] = {f}
      BY <2>1, SingleIsSingle DEF Singles
    <2>3. place'[m] = {g}
      BY <2>2 DEF Relocate, Typed, TypeOK
    <2> QED BY <1>1, <1>4, <2>1, <2>3 DEF Single
  <1> QED BY <1>3, <1>4

LEMMA SinglesNext == Typed /\ Singles /\ [Next]_vars => Singles'
  <1> SUFFICES ASSUME Typed, Singles, [Next]_vars PROVE Singles'
    OBVIOUS
  <1> USE DEF folders, dates, client, history, bounds, In
  (* Steps that touch neither copies in INBOX nor clients between COPY and *)
  (* EXPUNGE.                                                              *)
  <1>1. ASSUME UNCHANGED <<place, torn>>, \A m \in Mails : Copying(m)' = Copying(m),
               \A c \in Clients : pc'[c] = "expunge" => pc[c] = "expunge",
               \A m \in Mails : <<m, "INBOX">> \in deleted => <<m, "INBOX">> \in deleted'
        PROVE  Singles'
    BY <1>1, SingleSurvives DEF Singles, Copying
  <1>2. ASSUME NEW m \in Mails, Arrive(m) PROVE Singles'
    <2> SUFFICES ASSUME NEW n \in Mails PROVE Single(n)'
      BY DEF Singles
    <2>1. Copying(n)' = Copying(n) /\ torn' = torn /\ pc' = pc /\ deleted' = deleted
      BY <1>2 DEF Arrive, Copying
    <2>2. CASE n # m
      BY <1>2, <2>1, <2>2, SingleSurvives DEF Arrive, Typed, TypeOK, Singles
    <2>3. CASE n = m
      <3>1. Copying(m) = {}
        BY <1>2 DEF Arrive, Copying, Typed, Targets, Arrivals
      <3>2. place'[m] = {"INBOX"}
        BY <1>2 DEF Arrive, Typed, TypeOK
      <3> QED BY <2>1, <2>3, <3>1, <3>2 DEF Single
    <2> QED BY <2>2, <2>3
  <1>3. ASSUME NEW m \in Mails, Open(m) \/ FlagDeleted(m) PROVE Singles'
    BY <1>1, <1>3 DEF Open, FlagDeleted, Copying
  <1>4. ASSUME NEW m \in Mails, NEW f \in Folders, ThrowAway(m, f) PROVE Singles'
    <2>1. /\ UNCHANGED <<pc, uid>> /\ f \in place[m] /\ f # "Trash"
          /\ Relocate(m, f, "Trash") /\ Interrupt(None, m)
      BY <1>4 DEF ThrowAway
    <2>2. None \notin Clients /\ "Trash" \in Folders \ {"INBOX"}
      BY DEF Clients, Folders
    <2> QED BY <2>1, <2>2, RelocateSingle
  <1>5. ASSUME NEW m \in Mails, NEW f \in Lanes, Restore(m, f) PROVE Singles'
    <2>1. /\ UNCHANGED <<pc, uid>> /\ "Trash" \in place[m]
          /\ Relocate(m, "Trash", f) /\ Interrupt(None, m)
      BY <1>5 DEF Restore
    <2>2. /\ f \in Folders \ {"INBOX"} /\ f # "Trash" /\ "Trash" \in Folders
          /\ None \notin Clients
      BY DEF Clients, Folders
    <2> QED BY <2>1, <2>2, RelocateSingle
  <1>6. ASSUME NEW c \in Clients, ReadNew(c) \/ Run(c) \/ EndPass(c) \/ MarkProcessed(c)
                 \/ Search(c) \/ FlagAged(c) \/ Ask(c) \/ Maintain(c)
        PROVE  Singles'
    <2>1. \A m \in Mails : <<m, "INBOX">> \in deleted => <<m, "INBOX">> \in deleted'
      BY <1>6 DEF ReadNew, Run, EndPass, MarkProcessed, Search, FlagAged, Ask, Maintain
    <2>2. UNCHANGED <<place, torn>>
      BY <1>6 DEF ReadNew, Run, EndPass, MarkProcessed, Search, FlagAged, Ask, Maintain
    <2>3. /\ \A d \in Clients : /\ d # c => pc'[d] = pc[d] /\ uid'[d] = uid[d]
                              /\ pc[c] \notin {"store", "expunge"}
                              /\ pc'[c] \notin {"store", "expunge"}
      BY <1>6 DEF ReadNew, Run, EndPass, MarkProcessed, Search, FlagAged, Ask, Maintain, Leave,
                  Goto, Typed, TypeOK
    <2> QED BY <1>1, <2>1, <2>2, <2>3 DEF Copying
  <1>7. ASSUME NEW c \in Clients, Move(c) PROVE Singles'
    <2>1. CASE uid[c] \in In("INBOX") /\ Relocate(uid[c], "INBOX", lane[c])
               /\ Interrupt(c, uid[c]) /\ Goto(c, "mark")
      <3>1. lane[c] \in Folders \ {"INBOX"} /\ uid[c] \in Mails
        BY <1>7 DEF Move, Typed, TypeOK, Targets, Moving, Folders
      <3>2. pc[c] = "move" /\ pc'[c] = "mark" /\ uid' = uid
            /\ \A d \in Clients : d # c => pc'[d] = pc[d]
        BY <1>7, <2>1 DEF Move, Goto, Typed, TypeOK
      <3> QED BY <2>1, <3>1, <3>2, RelocateSingle DEF Folders
    <2>2. CASE UNCHANGED <<place, deleted, torn>>
      BY <1>1, <1>7, <2>2 DEF Move, Goto, Copying, Typed, TypeOK
    <2> QED BY <1>7, <2>1, <2>2 DEF Move
  <1>8. ASSUME NEW c \in Clients, Copy(c) PROVE Singles'
    <2> SUFFICES ASSUME NEW n \in Mails, n \notin torn' PROVE Single(n)'
      BY DEF Singles, Single
    <2>1. /\ uid[c] \in Mails /\ lane[c] \in Lanes /\ c \notin Copying(n) /\ n \notin torn
          /\ pc' = [pc EXCEPT ![c] = "store"] /\ uid' = uid
      BY <1>8 DEF Copy, Goto, Interrupt, Copying, Typed, TypeOK, Targets, Moving
    <2>2. /\ Copying(n)' = Copying(n) \cup {d \in {c} : uid[c] = n}
          /\ \A d \in Copying(n)' : pc'[d] = "expunge" => d \in Copying(n) /\ pc[d] = "expunge"
      BY <2>1 DEF Copying, Typed, TypeOK
    <2>3. (<<n, "INBOX">> \in deleted) = (<<n, "INBOX">> \in deleted')
      BY <1>8, <2>1 DEF Copy, FlagsCopied
    <2>4. CASE place'[n] = place[n]
      BY <2>1, <2>2, <2>3, <2>4 DEF Single, Singles
    <2>5. CASE place'[n] # place[n]
      <3>1. /\ uid[c] = n /\ "INBOX" \in place[n] /\ place'[n] = place[n] \cup {lane[c]}
            /\ Copying(n) = {}
        BY <1>8, <2>1, <2>5 DEF Copy, Interrupt, Typed, TypeOK
      <3>2. place[n] = {"INBOX"}
        BY <2>1, <3>1, SingleIsSingle DEF Singles
      <3> QED BY <2>1, <2>2, <3>1, <3>2 DEF Single
    <2> QED BY <2>4, <2>5
  <1>9. ASSUME NEW c \in Clients, Store(c) PROVE Singles'
    <2> SUFFICES ASSUME NEW n \in Mails, n \notin torn' PROVE Single(n)'
      BY DEF Singles, Single
    <2>1. /\ n \notin torn /\ place' = place /\ Copying(n)' = Copying(n)
          /\ pc' = [pc EXCEPT ![c] = "expunge"] /\ deleted \subseteq deleted'
      BY <1>9 DEF Store, Goto, Copying, Typed, TypeOK
    <2>2. uid[c] = n /\ "INBOX" \in place[n] => <<n, "INBOX">> \in deleted'
      BY <1>9 DEF Store
    <2>3. \A d \in Copying(n) : pc'[d] = "expunge" => pc[d] = "expunge" \/ uid[c] = n
      BY <2>1 DEF Copying, Typed, TypeOK
    <2> QED BY <2>1, <2>2, <2>3 DEF Single, Singles
  <1>10. ASSUME NEW c \in Clients, ExpungeInbox(c) PROVE Singles'
    <2> SUFFICES ASSUME NEW n \in Mails, n \notin torn' PROVE Single(n)'
      BY DEF Singles, Single
    <2>1. n \notin torn /\ pc' = [pc EXCEPT ![c] = "mark"] /\ uid' = uid
      BY <1>10 DEF ExpungeInbox, Goto
    <2>2. Copying(n)' = Copying(n) \ {c}
      BY <2>1 DEF Copying, Typed, TypeOK
    <2>3. CASE UNCHANGED <<place, deleted>> /\ torn' = torn \cup {uid[c]}
      BY <2>1, <2>2, <2>3 DEF Single, Singles, Copying, Typed, TypeOK
    <2>4. CASE Expunge("INBOX")
      <3>1. /\ place'[n] = IF <<n, "INBOX">> \in deleted THEN place[n] \ {"INBOX"} ELSE place[n]
            /\ "INBOX" \in place'[n] => "INBOX" \in place[n] /\ <<n, "INBOX">> \notin deleted
        BY <2>4 DEF Expunge, Expunged, Typed, TypeOK
      <3>2. \A d \in Copying(n) : pc'[d] = "expunge" => pc[d] = "expunge"
        BY <2>1 DEF Copying, Typed, TypeOK
      <3>3. "INBOX" \in place'[n] => c \notin Copying(n)
        BY <1>10, <2>1, <3>1 DEF Single, Singles, ExpungeInbox
      <3> QED BY <2>1, <2>2, <3>1, <3>2, <3>3 DEF Single, Singles
    <2> QED BY <1>10, <2>3, <2>4 DEF ExpungeInbox
  <1>11. ASSUME NEW c \in Clients, Purge(c) PROVE Singles'
    <2>1. /\ torn' = torn /\ \A m \in Mails : Copying(m)' = Copying(m)
          /\ \A d \in Clients : pc'[d] = "expunge" => pc[d] = "expunge"
      BY <1>11 DEF Purge, Goto, Copying, Typed, TypeOK
    <2>2. ASSUME NEW m \in Mails
          PROVE  /\ place'[m] \subseteq place[m] /\ place[m] \ {"Trash"} \subseteq place'[m]
                 /\ <<m, "INBOX">> \in deleted => <<m, "INBOX">> \in deleted'
      BY <1>11 DEF Purge, Expunge, Typed, TypeOK
    <2> SUFFICES ASSUME NEW n \in Mails, n \notin torn' PROVE Single(n)'
      BY DEF Singles, Single
    <2>3. \A d \in Copying(n) : d \in Clients
      BY DEF Copying
    <2>4. "INBOX" \in place'[n] /\ place'[n] # {"INBOX"} => Copying(n) # {}
      BY <2>1, <2>2 DEF Single, Singles
    <2> QED BY <2>1, <2>2, <2>3, <2>4 DEF Single, Singles
  <1>12. ASSUME NEW c \in Clients, Break(c) \/ Crash(c) PROVE Singles'
    <2> SUFFICES ASSUME NEW n \in Mails, n \notin torn' PROVE Single(n)'
      BY DEF Singles, Single
    <2>1. UNCHANGED <<place, deleted>> /\ n \notin torn /\ c \notin Copying(n)
      BY <1>12 DEF Break, Crash
    <2>2. \A d \in Clients : /\ d # c => pc'[d] = pc[d] /\ uid'[d] = uid[d]
                           /\ pc'[c] \notin {"store", "expunge"}
      BY <1>12 DEF Break, Crash, Leave, Typed, TypeOK
    <2>3. Copying(n)' = Copying(n)
      BY <2>1, <2>2 DEF Copying
    <2> QED BY <2>1, <2>2, <2>3 DEF Single, Singles, Copying
  <1>13. CASE NextDay \/ UNCHANGED vars
    BY <1>1, <1>13 DEF NextDay, vars, Copying
  <1> QED BY <1>2, <1>3, <1>4, <1>5, <1>6, <1>7, <1>8, <1>9, <1>10, <1>11, <1>12, <1>13
             DEF Next, People, Work

(* Mail is in two folders only while it is being copied, or after a fault, *)
(* another client or a person came between COPY and EXPUNGE.               *)
THEOREM DoubledMailIsTorn == Spec => []DoubledIsTorn
  <1>1. Init => Singles
    BY DEF Init, Singles, Single, Copying
  <1>2. Singles => DoubledIsTorn
    <2> SUFFICES ASSUME Singles, NEW m \in Mails, m \notin torn,
                        NEW f \in place[m], NEW g \in place[m], f # g
                 PROVE  Copying(m) # {}
      BY DEF DoubledIsTorn
    <2>1. Single(m)
      BY DEF Singles
    <2>2. ~(f # "INBOX" /\ g # "INBOX")
      BY <2>1 DEF Single
    <2>3. "INBOX" \in place[m] /\ place[m] # {"INBOX"}
      BY <2>2
    <2> QED BY <2>1, <2>3 DEF Single
  <1> QED BY <1>1, <1>2, SinglesNext, Typing, PTL DEF Spec

-----------------------------------------------------------------------------
(* A copy outside INBOX that the next EXPUNGE leaves alone, or may take.   *)
Elsewhere(m) == \E g \in place[m] \ {"INBOX"} : <<m, g>> \notin deleted \/ Old(m)
Safe(m) == "INBOX" \in place[m] /\ <<m, "INBOX">> \notin deleted

(* A mail that is not forfeit has a copy that is safe, and one outside     *)
(* INBOX as soon as a client is about to flag and expunge the one there.   *)
Kept(m) ==
  m \notin forfeit =>
    /\ arrived[m] # None => Elsewhere(m) \/ Safe(m)
    /\ Copying(m) # {} => Elsewhere(m)

AgedIsOld == \A c \in Clients : \A m \in aged[c] : Old(m)

Keeping == AgedIsOld /\ \A m \in Mails : Kept(m)

(* Days pass, and the day a mail arrived does not change.                  *)
LEMMA OldStays == Typed /\ [Next]_vars => \A m \in Mails : Old(m) => Old(m)'
  <1> SUFFICES ASSUME Typed, [Next]_vars, NEW m \in Mails, Old(m) PROVE Old(m)'
    OBVIOUS
  <1> USE DEF folders, dates, client, history, bounds, Old, Typed, TypeOK
  <1>1. CASE NextDay
    BY <1>1 DEF NextDay
  <1>2. ASSUME NEW n \in Mails, Arrive(n) \/ People(n) PROVE Old(m)'
    BY <1>2 DEF Arrive, People, Open, FlagDeleted, ThrowAway, Restore
  <1>3. ASSUME NEW c \in Clients, Work(c) \/ Ask(c) \/ Maintain(c) \/ Break(c) \/ Crash(c)
        PROVE  UNCHANGED dates
    BY <1>3 DEF Work, ReadNew, Run, EndPass, Move, Copy, Store, ExpungeInbox, MarkProcessed,
                Search, FlagAged, Purge, Ask, Maintain, Break, Crash
  <1> QED BY <1>1, <1>2, <1>3 DEF Next, vars

LEMMA KeptSurvives ==
  ASSUME NEW m \in Mails, Kept(m), forfeit \subseteq forfeit',
         m \notin forfeit' =>
           /\ arrived'[m] # None => arrived[m] # None
           /\ Copying(m)' \subseteq Copying(m)
           /\ Elsewhere(m) => Elsewhere(m)'
           /\ Safe(m) => Elsewhere(m)' \/ Elsewhere(m) \/ Safe(m)'
  PROVE  Kept(m)'
  BY DEF Kept

LEMMA RelocateKeeps ==
  ASSUME Typed, [Next]_vars, NEW m \in Mails, NEW f \in Folders, NEW g \in Folders \ {"INBOX"},
         f \in place[m], f # g, Relocate(m, f, g), NEW n \in Mails
  PROVE  /\ Elsewhere(n) => Elsewhere(n)'
         /\ Safe(n) => Elsewhere(n)' \/ Safe(n)'
  <1>1. /\ place'[n] = IF n = m THEN (place[m] \ {f}) \cup {g} ELSE place[n]
        /\ \A h : n # m => (<<n, h>> \in deleted' <=> <<n, h>> \in deleted)
        /\ \A h : h \notin {f, g} => (<<n, h>> \in deleted' <=> <<n, h>> \in deleted)
        /\ <<m, g>> \in deleted' => <<m, f>> \in deleted /\ (g \in place[m] => <<m, g>> \in deleted)
    BY DEF Relocate, FlagsCopied, Typed, TypeOK
  <1>2. Old(n) => Old(n)'
    BY OldStays
  <1>3. CASE n # m
    BY <1>1, <1>2, <1>3 DEF Elsewhere, Safe
  <1>4. CASE n = m
    <2>1. ASSUME Elsewhere(m) PROVE Elsewhere(m)'
      <3>1. PICK h \in place[m] \ {"INBOX"} : <<m, h>> \notin deleted \/ Old(m)
        BY <2>1 DEF Elsewhere
      <3>2. CASE h \in {f, g}
        BY <1>1, <1>2, <1>4, <3>1, <3>2 DEF Elsewhere
      <3>3. CASE h \notin {f, g}
        BY <1>1, <1>2, <1>4, <3>1, <3>3 DEF Elsewhere
      <3> QED BY <3>2, <3>3
    <2>2. ASSUME Safe(m) PROVE Elsewhere(m)' \/ Safe(m)'
      <3>1. CASE f = "INBOX"
        BY <1>1, <1>4, <2>2, <3>1 DEF Elsewhere, Safe
      <3>2. CASE f # "INBOX"
        BY <1>1, <1>4, <2>2, <3>2 DEF Safe
      <3> QED BY <3>1, <3>2
    <2> QED BY <1>4, <2>1, <2>2
  <1> QED BY <1>3, <1>4

LEMMA AgedNext == Typed /\ AgedIsOld /\ [Next]_vars => AgedIsOld'
  <1> SUFFICES ASSUME Typed, AgedIsOld, [Next]_vars PROVE AgedIsOld'
    OBVIOUS
  <1> USE DEF folders, dates, client, history, bounds
  <1>1. ASSUME NEW c \in Clients, NEW m \in aged'[c] PROVE Old(m)'
    <2>1. \A n \in Mails : Old(n) => Old(n)'
      BY OldStays
    <2>2. m \in Mails /\ (m \in aged[c] => Old(m)')
      BY <1>1, <2>1, TypedNext DEF AgedIsOld, Typed, TypeOK
    <2>3. ASSUME NEW d \in Clients, Search(d) PROVE Old(m)'
      BY <1>1, <2>1, <2>2, <2>3 DEF Search, Typed, TypeOK, AgedIsOld
    <2>4. ASSUME NEW d \in Clients, FlagAged(d) PROVE m \in aged[c]
      BY <1>1, <2>4 DEF FlagAged, Typed, TypeOK
    <2>5. ASSUME NEW d \in Clients, Crash(d) PROVE m \in aged[c]
      BY <1>1, <2>5 DEF Crash, Typed, TypeOK
    <2>6. ASSUME NEW d \in Clients, ~Search(d), ~FlagAged(d), ~Crash(d),
                 Work(d) \/ Ask(d) \/ Maintain(d) \/ Break(d) \/ Crash(d)
          PROVE  UNCHANGED aged
      BY <2>6 DEF Work, ReadNew, Run, EndPass, Move, Copy, Store, ExpungeInbox, MarkProcessed,
                  Purge, Ask, Maintain, Break
    <2>7. ASSUME NEW n \in Mails, Arrive(n) \/ People(n) PROVE UNCHANGED aged
      BY <2>7 DEF Arrive, People, Open, FlagDeleted, ThrowAway, Restore
    <2>8. NextDay \/ UNCHANGED vars => UNCHANGED aged
      BY DEF NextDay, vars
    <2> QED BY <1>1, <2>2, <2>3, <2>4, <2>5, <2>6, <2>7, <2>8 DEF Next
  <1> QED BY <1>1 DEF AgedIsOld

LEMMA KeptNext == Typed /\ Keeping /\ [Next]_vars => Keeping'
  <1> SUFFICES ASSUME Typed, Keeping, [Next]_vars, NEW n \in Mails PROVE Kept(n)'
    BY AgedNext DEF Keeping
  <1> USE DEF folders, dates, client, history, bounds, In
  <1>1. Kept(n) /\ (Old(n) => Old(n)')
    BY OldStays DEF Keeping
  (* Steps that leave the copies and their flags alone.                    *)
  <1>2. ASSUME UNCHANGED <<place, deleted>>, forfeit \subseteq forfeit',
               arrived'[n] # None => arrived[n] # None, Copying(n)' \subseteq Copying(n)
        PROVE  Kept(n)'
    BY <1>1, <1>2, KeptSurvives DEF Elsewhere, Safe
  <1>3. ASSUME NEW m \in Mails, Arrive(m) PROVE Kept(n)'
    <2>1. Copying(n)' = Copying(n) /\ UNCHANGED <<deleted, forfeit>>
      BY <1>3 DEF Arrive, Copying
    <2>2. CASE n # m
      BY <1>1, <1>3, <2>1, <2>2, KeptSurvives DEF Arrive, Elsewhere, Safe, Typed, TypeOK
    <2>3. CASE n = m
      <3>1. Copying(m) = {}
        BY <1>3 DEF Arrive, Copying, Typed, Targets, Arrivals
      <3>2. Safe(m)'
        BY <1>3 DEF Arrive, Safe, Typed, TypeOK, Arrivals, Folders
      <3> QED BY <2>1, <2>3, <3>1, <3>2 DEF Kept
    <2> QED BY <2>2, <2>3
  <1>4. ASSUME NEW m \in Mails, Open(m) PROVE Kept(n)'
    BY <1>2, <1>4 DEF Open, Copying
  <1>5. ASSUME NEW m \in Mails, FlagDeleted(m) PROVE Kept(n)'
    <2>1. n # m => /\ Elsewhere(n) => Elsewhere(n)'
                   /\ Safe(n) => Safe(n)'
      BY <1>1, <1>5 DEF FlagDeleted, Elsewhere, Safe
    <2>2. Copying(n)' = Copying(n)
      BY <1>5 DEF FlagDeleted, Copying
    <2> QED BY <1>1, <1>5, <2>1, <2>2, KeptSurvives DEF FlagDeleted
  <1>6. ASSUME NEW m \in Mails, NEW f \in Folders, ThrowAway(m, f) PROVE Kept(n)'
    <2>1. /\ UNCHANGED <<pc, uid, arrived, forfeit>> /\ f \in place[m] /\ f # "Trash"
          /\ Relocate(m, f, "Trash") /\ "Trash" \in Folders \ {"INBOX"}
      BY <1>6 DEF ThrowAway, Folders
    <2>2. Copying(n)' = Copying(n)
      BY <2>1 DEF Copying
    <2> QED BY <1>1, <2>1, <2>2, RelocateKeeps, KeptSurvives
  <1>7. ASSUME NEW m \in Mails, NEW f \in Lanes, Restore(m, f) PROVE Kept(n)'
    <2>1. /\ UNCHANGED <<pc, uid, arrived, forfeit>> /\ "Trash" \in place[m]
          /\ Relocate(m, "Trash", f) /\ f \in Folders \ {"INBOX"} /\ f # "Trash"
          /\ "Trash" \in Folders
      BY <1>7 DEF Restore, Folders
    <2>2. Copying(n)' = Copying(n)
      BY <2>1 DEF Copying
    <2> QED BY <1>1, <2>1, <2>2, RelocateKeeps, KeptSurvives
  <1>8. ASSUME NEW c \in Clients, ReadNew(c) \/ Run(c) \/ EndPass(c) \/ MarkProcessed(c)
                 \/ Search(c) \/ Ask(c) \/ Maintain(c) \/ Break(c) \/ Crash(c)
        PROVE  Kept(n)'
    <2>1. UNCHANGED <<place, deleted, arrived, forfeit>>
      BY <1>8 DEF ReadNew, Run, EndPass, MarkProcessed, Search, Ask, Maintain, Break, Crash
    <2>2. \A d \in Clients : /\ d # c => pc'[d] = pc[d] /\ uid'[d] = uid[d]
                           /\ pc'[c] \notin {"store", "expunge"}
      BY <1>8 DEF ReadNew, Run, EndPass, MarkProcessed, Search, Ask, Maintain, Break, Crash,
                  Leave, Goto, Typed, TypeOK
    <2> QED BY <1>2, <2>1, <2>2 DEF Copying
  <1>9. ASSUME NEW c \in Clients, Move(c) PROVE Kept(n)'
    <2>1. /\ uid[c] \in Mails /\ lane[c] \in Folders \ {"INBOX"} /\ UNCHANGED <<uid, arrived, forfeit>>
          /\ \A d \in Clients : /\ d # c => pc'[d] = pc[d]
                               /\ pc'[c] \notin {"store", "expunge"}
      BY <1>9 DEF Move, Goto, Typed, TypeOK, Targets, Moving, Folders
    <2>2. Copying(n)' \subseteq Copying(n)
      BY <2>1 DEF Copying
    <2>3. CASE uid[c] \in In("INBOX") /\ Relocate(uid[c], "INBOX", lane[c])
      BY <1>1, <2>1, <2>2, <2>3, RelocateKeeps, KeptSurvives DEF Folders
    <2>4. CASE UNCHANGED <<place, deleted>>
      BY <1>2, <2>1, <2>2, <2>4
    <2> QED BY <1>9, <2>3, <2>4 DEF Move
  <1>10. ASSUME NEW c \in Clients, Copy(c) PROVE Kept(n)'
    <2> SUFFICES ASSUME n \notin forfeit' PROVE Kept(n)'
      BY DEF Kept
    <2>1. /\ uid[c] \in Mails /\ lane[c] \in Folders \ {"INBOX"} /\ UNCHANGED <<uid, arrived>>
          /\ n \notin forfeit /\ pc' = [pc EXCEPT ![c] = "store"]
      BY <1>10 DEF Copy, Goto, Typed, TypeOK, Targets, Moving, Folders
    <2>2. Copying(n)' \subseteq Copying(n) \cup {d \in {c} : uid[c] = n}
      BY <2>1 DEF Copying, Typed, TypeOK
    <2>3. ASSUME uid[c] = n, "INBOX" \in place[n]
          PROVE  Elsewhere(n)' /\ (Safe(n) => Safe(n)')
      <3>1. /\ place'[n] = place[n] \cup {lane[c]} /\ deleted' = FlagsCopied(n, "INBOX", lane[c])
        BY <1>10, <2>1, <2>3 DEF Copy, Typed, TypeOK
      <3>2. Elsewhere(n) \/ Safe(n)
        BY <1>1, <2>1, <2>3 DEF Kept, Typed, Arrivals
      <3>3. /\ <<n, lane[c]>> \in deleted' =>
                  <<n, "INBOX">> \in deleted /\ (lane[c] \in place[n] => <<n, lane[c]>> \in deleted)
            /\ \A h : h # lane[c] => (<<n, h>> \in deleted' <=> <<n, h>> \in deleted)
        BY <3>1 DEF FlagsCopied
      <3>4. Safe(n) => Safe(n)' /\ Elsewhere(n)'
        BY <2>1, <3>1, <3>3 DEF Safe, Elsewhere
      <3>5. ASSUME Elsewhere(n) PROVE Elsewhere(n)'
        <4>1. PICK h \in place[n] \ {"INBOX"} : <<n, h>> \notin deleted \/ Old(n)
          BY <3>5 DEF Elsewhere
        <4>2. h \in place'[n] \ {"INBOX"} /\ (<<n, h>> \notin deleted' \/ Old(n)')
          BY <1>1, <3>1, <3>3, <4>1
        <4> QED BY <4>2 DEF Elsewhere
      <3> QED BY <3>2, <3>4, <3>5
    <2>4. ASSUME uid[c] # n \/ "INBOX" \notin place[n]
          PROVE  /\ Elsewhere(n) => Elsewhere(n)'
                 /\ Safe(n) => Safe(n)'
      <3>1. place'[n] = place[n] /\ \A h : <<n, h>> \in deleted' <=> <<n, h>> \in deleted
        BY <1>10, <2>1, <2>4 DEF Copy, FlagsCopied, Typed, TypeOK
      <3> QED BY <1>1, <3>1 DEF Elsewhere, Safe
    <2>5. CASE uid[c] = n /\ "INBOX" \in place[n]
      BY <1>1, <2>1, <2>3, <2>5 DEF Kept
    <2>6. CASE uid[c] = n /\ "INBOX" \notin place[n]
      <3>1. arrived[n] # None
        BY <2>1, <2>6 DEF Typed, Targets, Arrivals
      <3>2. Elsewhere(n)
        BY <1>1, <2>1, <2>6, <3>1 DEF Kept, Safe
      <3> QED BY <2>4, <2>6, <3>2 DEF Kept
    <2>7. CASE uid[c] # n
      BY <1>1, <2>1, <2>2, <2>4, <2>7 DEF Kept
    <2> QED BY <2>5, <2>6, <2>7
  <1>11. ASSUME NEW c \in Clients, Store(c) PROVE Kept(n)'
    <2>1. /\ UNCHANGED <<place, uid, arrived, forfeit>> /\ pc' = [pc EXCEPT ![c] = "expunge"]
          /\ pc[c] = "store" /\ uid[c] \in Mails
          /\ deleted' \in {deleted, deleted \cup ({uid[c]} \cap In("INBOX")) \X {"INBOX"}}
      BY <1>11 DEF Store, Goto, Typed, TypeOK, Targets, Moving
    <2>2. Copying(n)' = Copying(n)
      BY <2>1 DEF Copying, Typed, TypeOK
    <2>3. Elsewhere(n) => Elsewhere(n)'
      BY <1>1, <2>1 DEF Elsewhere
    <2>4. CASE uid[c] = n
      <3>1. Copying(n) # {}
        BY <2>1, <2>4 DEF Copying
      <3>2. n \notin forfeit => Elsewhere(n)
        BY <1>1, <3>1 DEF Kept
      <3> QED BY <2>1, <2>2, <2>3, <3>2 DEF Kept
    <2>5. CASE uid[c] # n
      <3>1. Safe(n) => Safe(n)'
        BY <2>1, <2>5 DEF Safe
      <3> QED BY <1>1, <2>1, <2>2, <2>3, <3>1, KeptSurvives
    <2> QED BY <2>4, <2>5
  <1>12. ASSUME NEW f \in {"INBOX", "Trash"}, Expunge(f), f = "Trash" => n \notin Expunged(f),
                NEW c \in Clients, pc[c] \in {"expunge", "purge"},
                pc'[c] \in {"mark", "idle"}, \A d \in Clients : d # c => pc'[d] = pc[d],
                UNCHANGED <<uid, arrived>>, forfeit \subseteq forfeit'
         PROVE  Kept(n)'
    <2>1. /\ place'[n] = IF n \in Expunged(f) THEN place[n] \ {f} ELSE place[n]
          /\ \A h : <<n, h>> \in deleted' => <<n, h>> \in deleted
      BY <1>12 DEF Expunge, Typed, TypeOK
    <2>2. Elsewhere(n) => Elsewhere(n)'
      BY <1>1, <1>12, <2>1 DEF Elsewhere
    <2>3. Safe(n) => Safe(n)'
      BY <1>12, <2>1 DEF Safe, Expunged
    <2>4. Copying(n)' \subseteq Copying(n)
      BY <1>12 DEF Copying
    <2> QED BY <1>1, <1>12, <2>2, <2>3, <2>4, KeptSurvives
  <1>13. ASSUME NEW c \in Clients, ExpungeInbox(c) PROVE Kept(n)'
    <2>1. /\ UNCHANGED <<uid, arrived, forfeit>> /\ pc[c] = "expunge" /\ pc'[c] = "mark"
          /\ \A d \in Clients : d # c => pc'[d] = pc[d]
      BY <1>13 DEF ExpungeInbox, Goto, Typed, TypeOK
    <2>2. CASE Expunge("INBOX")
      BY <1>12, <2>1, <2>2
    <2>3. CASE UNCHANGED <<place, deleted>>
      BY <1>2, <2>1, <2>3 DEF Copying
    <2> QED BY <1>13, <2>2, <2>3 DEF ExpungeInbox
  <1>14. ASSUME NEW c \in Clients, FlagAged(c) PROVE Kept(n)'
    <2>1. /\ UNCHANGED <<place, uid, arrived, forfeit>>
          /\ \A d \in Clients : /\ d # c => pc'[d] = pc[d]
                               /\ pc'[c] \notin {"store", "expunge"}
      BY <1>14 DEF FlagAged, Goto, Typed, TypeOK
    <2>2. PICK m \in aged[c] : deleted' \in {deleted, deleted \cup ({m} \cap In("Trash")) \X {"Trash"}}
      BY <1>14 DEF FlagAged
    <2>3. m = n => Old(n)
      BY <2>2 DEF Keeping, AgedIsOld
    <2>4. Elsewhere(n) => Elsewhere(n)'
      BY <1>1, <2>1, <2>2, <2>3 DEF Elsewhere
    <2>5. Safe(n) => Safe(n)'
      BY <2>1, <2>2 DEF Safe
    <2>6. Copying(n)' \subseteq Copying(n)
      BY <2>1 DEF Copying
    <2> QED BY <1>1, <2>1, <2>4, <2>5, <2>6, KeptSurvives
  <1>15. ASSUME NEW c \in Clients, Purge(c) PROVE Kept(n)'
    <2>1. /\ UNCHANGED <<uid, arrived>> /\ pc[c] = "purge" /\ pc'[c] = "idle"
          /\ \A d \in Clients : d # c => pc'[d] = pc[d]
      BY <1>15 DEF Purge, Goto, Typed, TypeOK
    <2>2. CASE Expunge("Trash") /\ forfeit' = forfeit \cup Expunged("Trash")
      <3>1. CASE n \in Expunged("Trash")
        BY <2>2, <3>1 DEF Kept
      <3>2. CASE n \notin Expunged("Trash")
        BY <1>12, <2>1, <2>2, <3>2
      <3> QED BY <3>1, <3>2
    <2>3. CASE UNCHANGED <<place, deleted, forfeit>>
      BY <1>2, <2>1, <2>3 DEF Copying
    <2> QED BY <1>15, <2>2, <2>3 DEF Purge
  <1>16. CASE NextDay \/ UNCHANGED vars
    BY <1>2, <1>16 DEF NextDay, vars, Copying
  <1> QED BY <1>3, <1>4, <1>5, <1>6, <1>7, <1>8, <1>9, <1>10, <1>11, <1>13, <1>14, <1>15, <1>16
             DEF Next, People, Work

-----------------------------------------------------------------------------
(* The abstract place of a mail, case by case.                             *)
Located(m) ==
  /\ arrived[m] = None => Where(m) = "absent"
  /\ arrived[m] # None /\ "INBOX" \in place[m] => Where(m) = "INBOX"
  /\ "INBOX" \notin place[m] /\ place[m] \cap Lanes # {} => Where(m) = "filed"
  /\ place[m] = {"Trash"} => Where(m) = "Trash"
  /\ arrived[m] # None /\ place[m] = {} => Where(m) = "gone"
  /\ place[m] # {} => arrived[m] # None
  /\ \/ "INBOX" \in place[m]
     \/ "INBOX" \notin place[m] /\ place[m] \cap Lanes # {}
     \/ place[m] = {"Trash"}
     \/ place[m] = {}

LEMMA WhereIs == Typed => \A m \in Mails : Located(m)
  <1> SUFFICES ASSUME Typed, NEW m \in Mails PROVE Located(m)
    OBVIOUS
  <1>1. /\ place[m] \subseteq Lanes \cup {"INBOX", "Trash"}
        /\ arrived[m] = None => place[m] = {}
    BY DEF Typed, TypeOK, Arrivals, Folders
  <1>2. "INBOX" \notin Lanes /\ "Trash" \notin Lanes
    OBVIOUS
  <1>3. arrived[m] = None => Where(m) = "absent"
    BY <1>1 DEF Where
  <1>4. arrived[m] # None /\ "INBOX" \in place[m] => Where(m) = "INBOX"
    BY <1>1 DEF Where
  <1>5. "INBOX" \notin place[m] /\ place[m] \cap Lanes # {} => Where(m) = "filed"
    BY <1>1, <1>2 DEF Where
  <1>6. place[m] = {"Trash"} => Where(m) = "Trash"
    BY <1>1, <1>2 DEF Where
  <1>7. arrived[m] # None /\ place[m] = {} => Where(m) = "gone"
    BY <1>1 DEF Where
  <1>8. place[m] # {} /\ "INBOX" \notin place[m] /\ place[m] \cap Lanes = {} => place[m] = {"Trash"}
    BY <1>1
  <1> QED BY <1>1, <1>3, <1>4, <1>5, <1>6, <1>7, <1>8 DEF Located

LEMMA WhereWillBe == (Typed => \A m \in Mails : Located(m))'
  BY WhereIs, PTL

Passage(m) ==
  \/ Where(m)' = Where(m)
  \/ <<Where(m), Where(m)'>> \in
       {<<"absent", "INBOX">>, <<"INBOX", "filed">>, <<"INBOX", "Trash">>,
        <<"filed", "Trash">>, <<"Trash", "filed">>}
  \/ Where(m)' = "gone" /\ Where(m) = "INBOX" /\ m \in forfeit
  \/ Where(m)' = "gone" /\ Where(m) = "Trash" /\ (m \in forfeit \/ Old(m))

LEMMA StayingIsPassage ==
  ASSUME NEW m \in Mails, place'[m] = place[m], arrived'[m] = arrived[m]
  PROVE  Passage(m)
  BY DEF Passage, Where

LEMMA RelocatingIsPassage ==
  ASSUME Typed, Typed', NEW m \in Mails, NEW n \in Mails,
         NEW f \in Folders, NEW g \in Folders \ {"INBOX"},
         f \in place[m], f # g, Relocate(m, f, g), UNCHANGED arrived,
         f = "INBOX" \/ g = "Trash" \/ f = "Trash"
  PROVE  Passage(n)
  <1>1. CASE n # m
    BY <1>1, StayingIsPassage DEF Relocate
  <1>2. CASE n = m
    <2>1. place'[m] = (place[m] \ {f}) \cup {g} /\ arrived'[m] = arrived[m] /\ arrived[m] # None
      BY DEF Relocate, Typed, TypeOK, Arrivals
    <2>2. "INBOX" \notin Lanes /\ "Trash" \notin Lanes /\ g \in Lanes \cup {"Trash"}
          /\ f \in Lanes \cup {"INBOX", "Trash"}
      BY DEF Folders
    <2>3. CASE "INBOX" \in place'[m]
      BY <1>2, <2>1, <2>3, WhereIs, WhereWillBe DEF Located, Passage
    <2>4. CASE "INBOX" \notin place'[m] /\ "INBOX" \in place[m]
      BY <1>2, <2>1, <2>2, <2>4, WhereIs, WhereWillBe DEF Located, Passage
    <2>5. CASE "INBOX" \notin place[m]
      BY <1>2, <2>1, <2>2, <2>5, WhereIs, WhereWillBe DEF Located, Passage
    <2> QED BY <2>1, <2>2, <2>3, <2>4, <2>5
  <1> QED BY <1>1, <1>2

LEMMA ExpungingIsPassage ==
  ASSUME Typed, Typed', Keeping, NEW n \in Mails, NEW f \in {"INBOX", "Trash"},
         Expunge(f), UNCHANGED arrived
  PROVE  Passage(n)
  <1>1. place'[n] = IF n \in Expunged(f) THEN place[n] \ {f} ELSE place[n]
    BY DEF Expunge, Typed, TypeOK
  <1>2. CASE n \notin Expunged(f)
    BY <1>1, <1>2, StayingIsPassage
  <1>3. CASE n \in Expunged(f)
    <2>1. /\ f \in place[n] /\ <<n, f>> \in deleted /\ place'[n] = place[n] \ {f}
          /\ arrived[n] # None /\ arrived'[n] = arrived[n]
      BY <1>1, <1>3 DEF Expunged, In, Typed, TypeOK, Arrivals
    <2>2. n \notin forfeit => Elsewhere(n) \/ Safe(n)
      BY <2>1 DEF Keeping, Kept
    <2>3. CASE "INBOX" \in place'[n]
      BY <2>1, <2>3, WhereIs, WhereWillBe DEF Located, Passage
    <2>4. CASE "INBOX" \notin place'[n] /\ place'[n] # {}
      BY <2>1, <2>4, WhereIs, WhereWillBe DEF Located, Passage
    <2>5. CASE place'[n] = {}
      <3>1. place[n] = {f}
        BY <2>1, <2>5
      <3>2. CASE f = "INBOX"
        <4>1. n \in forfeit
          BY <2>1, <2>2, <3>1, <3>2 DEF Elsewhere, Safe
        <4> QED BY <2>1, <2>5, <3>2, <4>1, WhereIs, WhereWillBe DEF Located, Passage
      <3>3. CASE f = "Trash"
        <4>1. n \in forfeit \/ Old(n)
          BY <2>1, <2>2, <3>1, <3>3 DEF Elsewhere, Safe
        <4> QED BY <2>1, <2>5, <3>1, <3>3, <4>1, WhereIs, WhereWillBe DEF Located, Passage
      <3> QED BY <3>2, <3>3
    <2> QED BY <2>3, <2>4, <2>5
  <1> QED BY <1>2, <1>3

LEMMA EveryStepIsPassage ==
  ASSUME Typed, Keeping, [Next]_vars, NEW n \in Mails PROVE Passage(n)
  <1> USE DEF folders, dates, client, history, bounds, In
  <1>1. Typed'
    BY TypedNext
  <1>2. ASSUME UNCHANGED <<place, arrived>> PROVE Passage(n)
    BY <1>2, StayingIsPassage
  <1>3. ASSUME NEW m \in Mails, Arrive(m) PROVE Passage(n)
    <2>1. CASE n # m
      BY <1>3, <2>1, StayingIsPassage DEF Arrive
    <2>2. CASE n = m
      <3>1. arrived[n] = None /\ arrived'[n] # None /\ "INBOX" \in place'[n]
        BY <1>3, <2>2 DEF Arrive, Typed, TypeOK
      <3> QED BY <1>1, <3>1, WhereIs, WhereWillBe DEF Located, Passage
    <2> QED BY <2>1, <2>2
  <1>4. ASSUME NEW m \in Mails, NEW f \in Folders, ThrowAway(m, f) PROVE Passage(n)
    <2>1. /\ UNCHANGED arrived /\ f \in place[m] /\ f # "Trash"
          /\ Relocate(m, f, "Trash") /\ "Trash" \in Folders \ {"INBOX"}
      BY <1>4 DEF ThrowAway, Folders
    <2> QED BY <1>1, <2>1, RelocatingIsPassage
  <1>5. ASSUME NEW m \in Mails, NEW f \in Lanes, Restore(m, f) PROVE Passage(n)
    <2>1. /\ UNCHANGED arrived /\ "Trash" \in place[m] /\ Relocate(m, "Trash", f)
          /\ f \in Folders \ {"INBOX"} /\ f # "Trash" /\ "Trash" \in Folders
      BY <1>5 DEF Restore, Folders
    <2> QED BY <1>1, <2>1, RelocatingIsPassage
  <1>6. ASSUME NEW c \in Clients, Move(c) PROVE Passage(n)
    <2>1. /\ uid[c] \in Mails /\ lane[c] \in Folders \ {"INBOX"} /\ UNCHANGED arrived
          /\ "INBOX" \in Folders
      BY <1>6 DEF Move, Typed, TypeOK, Targets, Moving, Folders
    <2>2. CASE uid[c] \in In("INBOX") /\ Relocate(uid[c], "INBOX", lane[c])
      BY <1>1, <2>1, <2>2, RelocatingIsPassage
    <2> QED BY <1>2, <1>6, <2>1, <2>2 DEF Move
  <1>7. ASSUME NEW c \in Clients, Copy(c) PROVE Passage(n)
    <2>1. /\ UNCHANGED arrived
          /\ place'[n] = place[n] \/ ("INBOX" \in place[n] /\ "INBOX" \in place'[n])
      <3>1. /\ UNCHANGED arrived
            /\ \/ uid[c] \in In("INBOX") /\ place' = [place EXCEPT ![uid[c]] = @ \cup {lane[c]}]
               \/ UNCHANGED place
        BY <1>7 DEF Copy
      <3> QED BY <3>1 DEF Typed, TypeOK
    <2>2. CASE place'[n] = place[n]
      BY <2>1, <2>2, StayingIsPassage
    <2>3. CASE "INBOX" \in place[n] /\ "INBOX" \in place'[n]
      BY <1>1, <2>1, <2>3, WhereIs, WhereWillBe DEF Located, Passage, Typed, Arrivals
    <2> QED BY <2>1, <2>2, <2>3
  <1>8. ASSUME NEW c \in Clients, ExpungeInbox(c) \/ Purge(c) PROVE Passage(n)
    <2>1. UNCHANGED arrived /\ (Expunge("INBOX") \/ Expunge("Trash") \/ UNCHANGED place)
      BY <1>8 DEF ExpungeInbox, Purge
    <2> QED BY <1>1, <1>2, <2>1, ExpungingIsPassage
  <1>9. ASSUME NEW c \in Clients, ReadNew(c) \/ Run(c) \/ EndPass(c) \/ Store(c) \/ MarkProcessed(c)
                 \/ Search(c) \/ FlagAged(c) \/ Ask(c) \/ Maintain(c) \/ Break(c) \/ Crash(c)
        PROVE  UNCHANGED <<place, arrived>>
    BY <1>9 DEF ReadNew, Run, EndPass, Store, MarkProcessed, Search, FlagAged, Ask, Maintain,
                Break, Crash
  <1>10. ASSUME NEW m \in Mails, Open(m) \/ FlagDeleted(m) PROVE UNCHANGED <<place, arrived>>
    BY <1>10 DEF Open, FlagDeleted
  <1>11. NextDay \/ UNCHANGED vars => UNCHANGED <<place, arrived>>
    BY DEF NextDay, vars
  <1> QED BY <1>2, <1>3, <1>4, <1>5, <1>6, <1>7, <1>8, <1>9, <1>10, <1>11 DEF Next, People, Work

LEMMA ForfeitGrows == [Next]_vars => forfeit \subseteq forfeit'
  <1> SUFFICES ASSUME [Next]_vars PROVE forfeit \subseteq forfeit'
    OBVIOUS
  <1> USE DEF history
  <1>1. ASSUME NEW c \in Clients, Work(c) \/ Ask(c) \/ Maintain(c) \/ Break(c) \/ Crash(c)
        PROVE  forfeit \subseteq forfeit'
    BY <1>1 DEF Work, ReadNew, Run, EndPass, Move, Copy, Store, ExpungeInbox, MarkProcessed,
                Search, FlagAged, Purge, Ask, Maintain, Break, Crash
  <1>2. ASSUME NEW m \in Mails, Arrive(m) \/ People(m) PROVE forfeit \subseteq forfeit'
    BY <1>2 DEF Arrive, People, Open, FlagDeleted, ThrowAway, Restore
  <1> QED BY <1>1, <1>2 DEF Next, NextDay, vars

(* Mailbox implements Placement: mail is nowhere lost, whatever fails.     *)
THEOREM ImplementsPlacement == Spec => KeepsPlaces
  <1>1. Init => Keeping
    BY DEF Init, Keeping, AgedIsOld, Kept, Copying
  <1>2. Typed /\ Keeping /\ [Next]_vars => Keeping'
    BY KeptNext
  <1>3. Spec => [](Typed /\ Keeping)
    BY <1>1, <1>2, Typing, PTL DEF Spec
  <1>4. Init => Places!Init
    BY DEF Init, Places!Init, Where, Old
  <1>5. Typed /\ Typed' /\ Keeping /\ [Next]_vars => [Places!Next]_Places!vars
    <2> SUFFICES ASSUME Typed, Typed', Keeping, [Next]_vars PROVE Places!Next
      OBVIOUS
    <2>1. \A m \in Mails : Passage(m)
      BY EveryStepIsPassage
    <2>2. forfeit \subseteq forfeit'
      BY ForfeitGrows
    <2>3. {m \in Mails : Old(m)} \subseteq {m \in Mails : Old(m)}'
      BY OldStays
    <2>4. \A m \in Mails : Where(m)' \in {"absent", "INBOX", "filed", "Trash", "gone"}
      BY WhereWillBe DEF Located
    <2> QED BY <2>1, <2>2, <2>3, <2>4 DEF Places!Next, Passage, Places!Passages, Places!Excused
  <1> QED BY <1>3, <1>4, <1>5, Typing, PTL DEF Spec, KeepsPlaces, Places!Spec
=============================================================================
