--------------------------- MODULE PipelineClaims ---------------------------
(***************************************************************************)
(* What the repository's documents and comments say of the pipeline and    *)
(* its code does not do.  Each claim quotes its source; a run of its own   *)
(* shows a behaviour that breaks it.                                       *)
(***************************************************************************)
EXTENDS Pipeline

(* No run is in the graph and no command is being carried out.             *)
Quiet ==
  /\ \A w \in Workers : pc[w] \in {"sleep", "loop"}
  /\ \A o \in Operators : opc[o] = "off"

(* "After handling, a message is moved out of INBOX" (README), "leaving in *)
(* INBOX for retry" (run_once, of a run that fails).  A run that ends      *)
(* between set_folder and the move is not retried: the next pass takes the *)
(* mail for a duplicate, and it stays in INBOX.                            *)
HandledMailLeavesInbox ==
  \A u \in Uids : (mailbox[u] = "INBOX" /\ AlreadyProcessed(MsgOf[u]))
                    ~> (mailbox[u] # "INBOX")

(* For send and edit process_approval will "move the source to Replied/".  *)
(* finalize has moved the mail to Awaiting-Approval/ long before, and the  *)
(* move is by the UID the mail had in INBOX.                               *)
ApprovedSourceIsInReplied ==
  Quiet => \A m \in MsgIds : folder[m] = "Replied" => mailbox[rowUid[m]] = "Replied"

(* "idempotency relies on messages.message_id" (exim_pipe_ingest, of mail  *)
(* that is also in the source mailbox).  The gate reads the row long       *)
(* before finalize writes it, and the poller runs at the same time.        *)
OneOutcomePerMessage == \A m \in MsgIds : Emitted(m) <= 1
=============================================================================
