---------------------------- MODULE MailboxClaims ----------------------------
(***************************************************************************)
(* What the documents say of the mailbox and the code does not do, over    *)
(* Mailbox with the day on which a mail was thrown away.                   *)
(***************************************************************************)
EXTENDS Mailbox

VARIABLE thrown   \* thrown[m]: the day m was last put in Trash/, None if never

NextThrown ==
  /\ Next
  /\ thrown' = [m \in Mails |-> IF "Trash" \in place'[m] \ place[m] THEN day ELSE thrown[m]]

ThrownSpec ==
  Init /\ thrown = [m \in Mails |-> None] /\ [][NextThrown]_<<vars, thrown>>

(* "Nothing is destructive: deletes are soft, hard expunge only after      *)
(* retention.trash_grace_days" (DEPLOY_IONOS.md).  The sweep goes by the   *)
(* day a mail arrived, and move expunges INBOX without looking at the      *)
(* answer to COPY, and with it what people have flagged there.             *)
NothingIsDestructive ==
  [][\A m \in Mails : place[m] # {} /\ place'[m] = {}
       => /\ "Trash" \in place[m]
          /\ thrown[m] # None /\ thrown[m] <= day - Grace]_<<vars, thrown>>
=============================================================================
