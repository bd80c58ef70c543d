------------------------------ MODULE Placement ------------------------------
(***************************************************************************)
(* What the agent promises about where a mail is, with the IMAP commands,  *)
(* the flags and the processes left out: mail goes from INBOX to a lane,   *)
(* people put it in Trash/ and take it back, and it ceases to exist only   *)
(* from Trash/ when it is old, or when it was forfeited.                   *)
(*                                                                         *)
(* One EXPUNGE takes every flagged mail of a folder, so one step may change *)
(* the place of several mails.                                             *)
(***************************************************************************)
CONSTANT Mails

VARIABLES
  where,     \* where[m]: "absent", "INBOX", "filed" (in a lane), "Trash", "gone"
  forfeit,   \* mails that people flagged \Deleted or the server refused to copy
  old        \* mails that arrived before the retention cutoff

vars == <<where, forfeit, old>>

Init ==
  /\ where = [m \in Mails |-> "absent"]
  /\ forfeit = {} /\ old = {}

(* The ways a mail may go.  None leads back to INBOX, and none leads from  *)
(* a lane to nowhere.                                                      *)
Passages ==
  {<<"absent", "INBOX">>, <<"INBOX", "filed">>, <<"INBOX", "Trash">>,
   <<"filed", "Trash">>, <<"Trash", "filed">>}

Excused(m) ==
  \/ where[m] = "INBOX" /\ m \in forfeit
  \/ where[m] = "Trash" /\ m \in forfeit \cup old

Next ==
  /\ where' \in [Mails -> {"absent", "INBOX", "filed", "Trash", "gone"}]
  /\ forfeit \subseteq forfeit' /\ old \subseteq old'
  /\ \A m \in Mails :
       \/ where'[m] = where[m]
       \/ <<where[m], where'[m]>> \in Passages
       \/ where'[m] = "gone" /\ Excused(m)

Spec == Init /\ [][Next]_vars
=============================================================================
