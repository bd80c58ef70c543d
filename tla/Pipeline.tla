------------------------------ MODULE Pipeline ------------------------------
(***************************************************************************)
(* The mail pipeline of src/agent/core/pipeline.py together with what it   *)
(* drives: the polling loop and the Exim pipe of scripts/, the messages,   *)
(* approvals and audit_log tables, the CRM interaction log, the IMAP INBOX *)
(* and the command line on which people decide queued drafts.              *)
(*                                                                         *)
(* Every process opens the same SQLite file and commits each statement on  *)
(* its own, so a step of this specification is the stretch of a node that  *)
(* ends with one commit, one SMTP send or one IMAP move.  Between any two  *)
(* steps another process may run, the process may die, or the next call    *)
(* may raise.                                                              *)
(***************************************************************************)
EXTENDS Naturals, FiniteSets

CONSTANTS
  Uids,          \* deliveries; each has an IMAP UID or a "pipe-..." uid of its own
  PipeUids,      \* the deliveries that Exim hands to exim_pipe_ingest
  MsgIds,        \* Message-ID headers
  MsgOf,         \* MsgOf[u]: the Message-ID of delivery u
  Junk,          \* the messages prefilter() drops
  Outcomes,      \* what decide_route can answer in the effective mode
  Pollers,       \* processes running "run_agent run" or "run_agent once"
  Pipes,         \* processes running exim_pipe_ingest
  Operators,     \* processes running "run_agent approve | edit | discard | escalate"
  ApprovalIds,   \* primary keys new_id() draws for the approvals table
  ImapFaults,    \* how transport.move can go wrong: "error", "copy_refused"
  MaxFaults,     \* bound on exceptions, crashes and failed fetches
  MaxDecisions,  \* bound on the commands operators give
  None

ASSUME PipelineAssumption ==
  /\ PipeUids \subseteq Uids
  /\ MsgOf \in [Uids -> MsgIds]
  /\ Junk \subseteq MsgIds
  /\ Outcomes \subseteq {"auto_send", "approve", "escalate"}
  /\ Pollers \cap Pipes = {}
  /\ IsFiniteSet(ApprovalIds) /\ IsFiniteSet(Pollers \cup Pipes)
  /\ ImapFaults \subseteq {"error", "copy_refused"}
  /\ MaxFaults \in Nat /\ MaxDecisions \in Nat
  /\ None \notin Uids \cup MsgIds \cup ApprovalIds
  /\ None \notin {"INBOX", "Replied", "Awaiting-Approval", "Escalated",
                 "send", "edit", "discard", "escalate", "auto_send", "approve"}

Workers == Pollers \cup Pipes

Lanes == {"Replied", "Awaiting-Approval", "Escalated"}
Decisions == {"send", "edit", "discard", "escalate"}
Replying == {"send", "edit"}

(* Wrong variants of a definition stand before it under a name that says   *)
(* what is wrong: the properties below tell the two apart.                 *)
LaneOfDrops(o) == IF o = "escalate" THEN "No-Action" ELSE "Replied"

(* The folder in which each outcome leaves the message.                    *)
Lane(o) ==
  CASE o = "auto_send" -> "Replied"
    [] o = "approve"   -> "Awaiting-Approval"
    [] o = "escalate"  -> "Escalated"

(* The audit_log action each outcome and each decision writes.             *)
AuditOutcomeAs(o) ==
  CASE o = "auto_send" -> "auto_send"
    [] o = "approve"   -> "enqueue_approval"
    [] o = "escalate"  -> "escalate"
AuditDecisionAs(d) ==
  CASE d = "send"     -> "send"
    [] d = "edit"     -> "send_edited"
    [] d = "discard"  -> "discard"
    [] d = "escalate" -> "escalate_manual"

AuditActions ==
  {"no_action", "finalize"}
    \cup {AuditOutcomeAs(o) : o \in {"auto_send", "approve", "escalate"}}
    \cup {AuditDecisionAs(d) : d \in Decisions}

VARIABLES
  mailbox,       \* mailbox[u]: where delivery u lies on the mail server
  outbox,        \* outbox[m]: automatic replies to m the SMTP server accepted
  replies,       \* replies[a]: replies the SMTP server accepted for approval a
  folder,        \* messages.folder of the row of m, None when there is no row
  rowUid,        \* messages.uid of that row
  approvals,     \* the approvals table: [msg, status] by id
  audit,         \* the <<action, message_id>> pairs of audit_log
  interactions,  \* the <<direction, message>> pairs of the CRM log
  pc,            \* pc[w]: where worker w is in its pass or in the graph
  batch,         \* batch[w]: the raws read_new returned and w has not started
  cur,           \* cur[w]: the raw in the graph
  outcome,       \* outcome[w]: the RouteAction in the graph's state
  opc,           \* opc[o]: where command o is in process_approval
  target,        \* target[o]: the approval it was given
  decision,      \* decision[o]: the decision it was given
  faults,        \* exceptions, crashes and failed fetches so far
  given,         \* commands operators have given so far
  cuts,          \* history: cuts[m] runs of m ended between outcome and set_folder
  misfiled       \* history: answered messages whose row no longer, or never, said so

server   == <<mailbox, outbox, replies>>
database == <<folder, rowUid, approvals, audit, interactions>>
worker   == <<pc, batch, cur, outcome>>
command  == <<opc, target, decision>>
bounds   == <<faults, given>>
vars     == <<server, database, worker, command, bounds, cuts, misfiled>>

TypeOK ==
  /\ mailbox \in [Uids -> {"absent", "piped", "INBOX", "lost"} \cup Lanes]
  /\ outbox \in [MsgIds -> Nat]
  /\ replies \in [ApprovalIds -> Nat]
  /\ folder \in [MsgIds -> {None, "INBOX"} \cup Lanes]
  /\ rowUid \in [MsgIds -> Uids \cup {None}]
  /\ approvals \in [ApprovalIds ->
       [msg : MsgIds \cup {None}, status : {"free", "pending"} \cup Decisions]]
  /\ audit \subseteq AuditActions \X MsgIds
  /\ interactions \subseteq {"inbound", "outbound"} \X MsgIds
  /\ pc \in [Workers -> {"sleep", "loop", "drop", "enrich", "draft", "act",
                         "audit", "settle", "log", "move", "finish"}]
  /\ batch \in [Workers -> SUBSET Uids]
  /\ cur \in [Workers -> Uids \cup {None}]
  /\ outcome \in [Workers -> Outcomes \cup {None}]
  /\ opc \in [Operators -> {"off", "send", "resolve", "move", "settle", "log", "audit"}]
  /\ target \in [Operators -> ApprovalIds \cup {None}]
  /\ decision \in [Operators -> Decisions \cup {None}]
  /\ faults \in Nat /\ given \in Nat
  /\ cuts \in [MsgIds -> Nat]
  /\ misfiled \subseteq MsgIds

Init ==
  /\ mailbox = [u \in Uids |-> "absent"]
  /\ outbox = [m \in MsgIds |-> 0]
  /\ replies = [a \in ApprovalIds |-> 0]
  /\ folder = [m \in MsgIds |-> None]
  /\ rowUid = [m \in MsgIds |-> None]
  /\ approvals = [a \in ApprovalIds |-> [msg |-> None, status |-> "free"]]
  /\ audit = {}
  /\ interactions = {}
  /\ pc = [w \in Workers |-> "sleep"]
  /\ batch = [w \in Workers |-> {}]
  /\ cur = [w \in Workers |-> None]
  /\ outcome = [w \in Workers |-> None]
  /\ opc = [o \in Operators |-> "off"]
  /\ target = [o \in Operators |-> None]
  /\ decision = [o \in Operators |-> None]
  /\ faults = 0 /\ given = 0
  /\ cuts = [m \in MsgIds |-> 0]
  /\ misfiled = {}

-----------------------------------------------------------------------------
(* The tables, as the gate and the CLI read them.                          *)

ProcessedWhenAnswered(m) == folder[m] = "Replied"
ProcessedUnlessEscalated(m) == folder[m] \in {"Replied", "Awaiting-Approval"}
ProcessedWhenRecorded(m) == folder[m] # None

(* MessageRepo.already_processed: a row outside the provisional folder.    *)
AlreadyProcessed(m) == folder[m] \notin {None, "INBOX"}

Queued(a) == approvals[a].status # "free"

(* The message the graph of w is running on, and the one o decides about.  *)
Msg(w) == MsgOf[cur[w]]
About(o) == approvals[target[o]].msg

(* All outcomes of m: automatic replies and queued drafts.                 *)
ApprovalsOf(m) == {a \in ApprovalIds : approvals[a].msg = m}
Emitted(m) == outbox[m] + Cardinality(ApprovalsOf(m))

-----------------------------------------------------------------------------
(* The mail server.                                                        *)

Arrive(u) ==
  /\ u \in Uids \ PipeUids
  /\ mailbox[u] = "absent"
  /\ mailbox' = [mailbox EXCEPT ![u] = "INBOX"]
  /\ UNCHANGED <<outbox, replies, database, worker, command, bounds, cuts, misfiled>>

(* transport.move selects INBOX: a UID that is not there is not an error   *)
(* and moves nothing.  "error" is the exception finalize and _safe_move    *)
(* swallow.  The fallback does not look at the answer to its COPY before   *)
(* it flags \Deleted and expunges, so a refused COPY loses the message.    *)
MoveResults(u, lane) ==
  IF mailbox[u] # "INBOX" THEN {mailbox[u]}
  ELSE {lane} \cup {"INBOX" : f \in ImapFaults \cap {"error"}}
              \cup {"lost"  : f \in ImapFaults \cap {"copy_refused"}}

-----------------------------------------------------------------------------
(* A pass of the poller, and the graph.                                    *)

(* read_new: a snapshot of INBOX.  A FETCH that fails skips that message.  *)
ReadNew(w) ==
  /\ w \in Pollers /\ pc[w] = "sleep"
  /\ LET unseen == {u \in Uids : mailbox[u] = "INBOX"}
     IN \E fetched \in SUBSET unseen :
          /\ batch' = [batch EXCEPT ![w] = fetched]
          /\ \/ fetched = unseen /\ UNCHANGED faults
             \/ fetched # unseen /\ faults < MaxFaults /\ faults' = faults + 1
  /\ pc' = [pc EXCEPT ![w] = "loop"]
  /\ UNCHANGED <<server, database, cur, outcome, command, given, cuts, misfiled>>

(* exim_pipe_ingest: one process per delivery, no copy in INBOX.           *)
PipeDeliver(w) ==
  /\ w \in Pipes /\ pc[w] = "sleep"
  /\ \E u \in PipeUids :
       /\ mailbox[u] = "absent"
       /\ mailbox' = [mailbox EXCEPT ![u] = "piped"]
       /\ batch' = [batch EXCEPT ![w] = {u}]
  /\ pc' = [pc EXCEPT ![w] = "loop"]
  /\ UNCHANGED <<outbox, replies, database, cur, outcome, command, bounds,
                 cuts, misfiled>>

EndPass(w) ==
  /\ pc[w] = "loop" /\ batch[w] = {}
  /\ pc' = [pc EXCEPT ![w] = "sleep"]
  /\ UNCHANGED <<server, database, batch, cur, outcome, command, bounds,
                 cuts, misfiled>>

ParseDroppingRecorded(w) ==
  /\ pc[w] = "loop"
  /\ \E u \in batch[w] :
       /\ cur' = [cur EXCEPT ![w] = u]
       /\ batch' = [batch EXCEPT ![w] = @ \ {u}]
       /\ pc' = [pc EXCEPT ![w] =
                   IF folder[MsgOf[u]] # None \/ MsgOf[u] \in Junk THEN "drop" ELSE "enrich"]
  /\ UNCHANGED <<server, database, outcome, command, bounds, cuts, misfiled>>

(* _parse with the idempotency gate, then _prefilter.                      *)
Parse(w) ==
  /\ pc[w] = "loop"
  /\ \E u \in batch[w] :
       /\ cur' = [cur EXCEPT ![w] = u]
       /\ batch' = [batch EXCEPT ![w] = @ \ {u}]
       /\ pc' = [pc EXCEPT ![w] =
                   IF AlreadyProcessed(MsgOf[u]) \/ MsgOf[u] \in Junk
                   THEN "drop" ELSE "enrich"]
  /\ UNCHANGED <<server, database, outcome, command, bounds, cuts, misfiled>>

(* The raw leaves the graph and the pass goes on with the next one.        *)
LeaveGraph(w) ==
  /\ pc' = [pc EXCEPT ![w] = "loop"]
  /\ cur' = [cur EXCEPT ![w] = None]
  /\ outcome' = [outcome EXCEPT ![w] = None]
  /\ UNCHANGED batch

(* _drop: an audit row and END; the message stays where it is.             *)
Drop(w) ==
  /\ pc[w] = "drop"
  /\ audit' = audit \cup {<<"no_action", Msg(w)>>}
  /\ LeaveGraph(w)
  /\ UNCHANGED <<server, folder, rowUid, approvals, interactions, command, bounds,
                 cuts, misfiled>>

EnrichReplacing(w) ==
  /\ pc[w] = "enrich"
  /\ folder' = [folder EXCEPT ![Msg(w)] = "INBOX"]
  /\ rowUid' = [rowUid EXCEPT ![Msg(w)] = cur[w]]
  /\ pc' = [pc EXCEPT ![w] = "draft"]
  /\ UNCHANGED <<server, approvals, audit, interactions, batch, cur, outcome,
                 command, bounds, cuts, misfiled>>

EnrichInFinalLane(w) ==
  /\ pc[w] = "enrich"
  /\ folder' = [folder EXCEPT ![Msg(w)] = "Awaiting-Approval"]
  /\ rowUid' = [rowUid EXCEPT ![Msg(w)] = cur[w]]
  /\ pc' = [pc EXCEPT ![w] = "draft"]
  /\ UNCHANGED <<server, approvals, audit, interactions, batch, cur, outcome,
                 command, bounds, cuts, misfiled>>

(* _classify and _enrich: the row is inserted in the provisional folder,   *)
(* INSERT OR IGNORE keeping the row of an earlier run.                     *)
Enrich(w) ==
  /\ pc[w] = "enrich"
  /\ IF folder[Msg(w)] = None
     THEN /\ folder' = [folder EXCEPT ![Msg(w)] = "INBOX"]
          /\ rowUid' = [rowUid EXCEPT ![Msg(w)] = cur[w]]
     ELSE UNCHANGED <<folder, rowUid>>
  /\ pc' = [pc EXCEPT ![w] = "draft"]
  /\ UNCHANGED <<server, approvals, audit, interactions, batch, cur, outcome,
                 command, bounds, cuts, misfiled>>

(* _draft and _route: what the LLM answers may differ from run to run.     *)
DraftAndRoute(w) ==
  /\ pc[w] = "draft"
  /\ \E o \in Outcomes : outcome' = [outcome EXCEPT ![w] = o]
  /\ pc' = [pc EXCEPT ![w] = "act"]
  /\ UNCHANGED <<server, database, batch, cur, command, bounds, cuts, misfiled>>

AutoSendSwallowingErrors(w) ==
  /\ pc[w] = "act" /\ outcome[w] = "auto_send"
  /\ \/ outbox' = [outbox EXCEPT ![Msg(w)] = @ + 1]
     \/ UNCHANGED outbox
  /\ pc' = [pc EXCEPT ![w] = "audit"]
  /\ UNCHANGED <<mailbox, replies, database, batch, cur, outcome, command, bounds,
                 cuts, misfiled>>

(* _auto_send up to the SMTP server's answer.                              *)
AutoSend(w) ==
  /\ pc[w] = "act" /\ outcome[w] = "auto_send"
  /\ outbox' = [outbox EXCEPT ![Msg(w)] = @ + 1]
  /\ pc' = [pc EXCEPT ![w] = "audit"]
  /\ UNCHANGED <<mailbox, replies, database, batch, cur, outcome, command, bounds,
                 cuts, misfiled>>

EnqueueReplacing(w) ==
  /\ pc[w] = "act" /\ outcome[w] \in {"approve", "escalate"}
  /\ \E a \in ApprovalIds :
       /\ IF ApprovalsOf(Msg(w)) = {} THEN ~Queued(a) ELSE a \in ApprovalsOf(Msg(w))
       /\ approvals' = [approvals EXCEPT ![a] = [msg |-> Msg(w), status |-> "pending"]]
  /\ pc' = [pc EXCEPT ![w] = "audit"]
  /\ UNCHANGED <<server, folder, rowUid, audit, interactions, batch, cur, outcome,
                 command, bounds, cuts, misfiled>>

(* _enqueue_approval and _escalate up to the approvals row.                *)
Enqueue(w) ==
  /\ pc[w] = "act" /\ outcome[w] \in {"approve", "escalate"}
  /\ \E a \in ApprovalIds :
       /\ ~Queued(a)
       /\ approvals' = [approvals EXCEPT ![a] = [msg |-> Msg(w), status |-> "pending"]]
  /\ pc' = [pc EXCEPT ![w] = "audit"]
  /\ UNCHANGED <<server, folder, rowUid, audit, interactions, batch, cur, outcome,
                 command, bounds, cuts, misfiled>>

AuditOutcomeOfSendsOnly(w) ==
  /\ pc[w] = "audit"
  /\ audit' = audit \cup {<<AuditOutcomeAs(r), Msg(w)>> : r \in {outcome[w]} \cap {"auto_send"}}
  /\ pc' = [pc EXCEPT ![w] = "settle"]
  /\ UNCHANGED <<server, folder, rowUid, approvals, interactions, batch, cur, outcome,
                 command, bounds, cuts, misfiled>>

(* The audit row of the outcome.                                           *)
AuditOutcome(w) ==
  /\ pc[w] = "audit"
  /\ audit' = audit \cup {<<AuditOutcomeAs(outcome[w]), Msg(w)>>}
  /\ pc' = [pc EXCEPT ![w] = "settle"]
  /\ UNCHANGED <<server, folder, rowUid, approvals, interactions, batch, cur, outcome,
                 command, bounds, cuts, misfiled>>

(* The history of messages that were answered but are not filed so.        *)
RecordFiling(m, lane) ==
  misfiled' = IF lane = "Replied" THEN misfiled \ {m}
              ELSE IF folder[m] = "Replied" THEN misfiled \cup {m} ELSE misfiled

(* _finalize: set_folder, the inbound interaction, the move, the audit row *)
SetFolder(w) ==
  /\ pc[w] = "settle"
  /\ folder' = [folder EXCEPT ![Msg(w)] = Lane(outcome[w])]
  /\ RecordFiling(Msg(w), Lane(outcome[w]))
  /\ pc' = [pc EXCEPT ![w] = "log"]
  /\ UNCHANGED <<server, rowUid, approvals, audit, interactions, batch, cur, outcome,
                 command, bounds, cuts>>

LogInbound(w) ==
  /\ pc[w] = "log"
  /\ interactions' = interactions \cup {<<"inbound", Msg(w)>>}
  /\ pc' = [pc EXCEPT ![w] = "move"]
  /\ UNCHANGED <<server, folder, rowUid, approvals, audit, batch, cur, outcome,
                 command, bounds, cuts, misfiled>>

MoveOut(w) ==
  /\ pc[w] = "move"
  /\ \E place \in MoveResults(cur[w], Lane(outcome[w])) :
       mailbox' = [mailbox EXCEPT ![cur[w]] = place]
  /\ pc' = [pc EXCEPT ![w] = "finish"]
  /\ UNCHANGED <<outbox, replies, database, batch, cur, outcome, command, bounds,
                 cuts, misfiled>>

AuditFinalize(w) ==
  /\ pc[w] = "finish"
  /\ audit' = audit \cup {<<"finalize", Msg(w)>>}
  /\ LeaveGraph(w)
  /\ UNCHANGED <<server, folder, rowUid, approvals, interactions, command, bounds,
                 cuts, misfiled>>

(* The history of runs that ended after their outcome and before the row   *)
(* could say so.                                                           *)
RecordCut(w) ==
  cuts' = IF pc[w] \in {"audit", "settle"}
          THEN [cuts EXCEPT ![Msg(w)] = @ + 1] ELSE cuts

(* A call of the graph raises: run_once logs it and takes the next raw.    *)
(* The move is the one call whose exceptions never get this far.           *)
Fail(w) ==
  /\ pc[w] \notin {"sleep", "loop", "move"}
  /\ faults < MaxFaults /\ faults' = faults + 1
  /\ RecordCut(w)
  /\ LeaveGraph(w)
  /\ UNCHANGED <<server, database, command, given, misfiled>>

(* The process dies and is started again with nothing in memory.           *)
Crash(w) ==
  /\ pc[w] # "sleep"
  /\ faults < MaxFaults /\ faults' = faults + 1
  /\ RecordCut(w)
  /\ pc' = [pc EXCEPT ![w] = "sleep"]
  /\ batch' = [batch EXCEPT ![w] = {}]
  /\ cur' = [cur EXCEPT ![w] = None]
  /\ outcome' = [outcome EXCEPT ![w] = None]
  /\ UNCHANGED <<server, database, command, given, misfiled>>

-----------------------------------------------------------------------------
(* The command line: App.resolve and process_approval.                     *)

(* The approval is read by id, whatever its status.                        *)
Invoke(o) ==
  /\ opc[o] = "off" /\ given < MaxDecisions
  /\ \E a \in ApprovalIds, d \in Decisions :
       /\ Queued(a)
       /\ target' = [target EXCEPT ![o] = a]
       /\ decision' = [decision EXCEPT ![o] = d]
       /\ opc' = [opc EXCEPT ![o] = IF d \in Replying THEN "send" ELSE "resolve"]
  /\ given' = given + 1
  /\ UNCHANGED <<server, database, worker, faults, cuts, misfiled>>

SendReplySwallowingErrors(o) ==
  /\ opc[o] = "send"
  /\ \/ replies' = [replies EXCEPT ![target[o]] = @ + 1]
     \/ UNCHANGED replies
  /\ opc' = [opc EXCEPT ![o] = "resolve"]
  /\ UNCHANGED <<mailbox, outbox, database, worker, target, decision, bounds,
                 cuts, misfiled>>

SendReply(o) ==
  /\ opc[o] = "send"
  /\ replies' = [replies EXCEPT ![target[o]] = @ + 1]
  /\ opc' = [opc EXCEPT ![o] = "resolve"]
  /\ UNCHANGED <<mailbox, outbox, database, worker, target, decision, bounds,
                 cuts, misfiled>>

(* notifier.resolve: an unconditional UPDATE.                              *)
Resolve(o) ==
  /\ opc[o] = "resolve"
  /\ approvals' = [approvals EXCEPT ![target[o]].status = decision[o]]
  /\ opc' = [opc EXCEPT ![o] = IF decision[o] = "discard" THEN "audit" ELSE "move"]
  /\ UNCHANGED <<server, folder, rowUid, audit, interactions, worker, target, decision,
                 bounds, cuts, misfiled>>

(* _safe_move of the UID the row recorded.                                 *)
MoveSource(o) ==
  /\ opc[o] = "move"
  /\ LET u == rowUid[About(o)]
         lane == IF decision[o] = "escalate" THEN "Escalated" ELSE "Replied"
     IN \E place \in MoveResults(u, lane) : mailbox' = [mailbox EXCEPT ![u] = place]
  /\ opc' = [opc EXCEPT ![o] = IF decision[o] = "escalate" THEN "audit" ELSE "settle"]
  /\ UNCHANGED <<outbox, replies, database, worker, target, decision, bounds,
                 cuts, misfiled>>

SetRepliedForSendsOnly(o) ==
  /\ opc[o] = "settle"
  /\ folder' = IF decision[o] = "send" THEN [folder EXCEPT ![About(o)] = "Replied"] ELSE folder
  /\ opc' = [opc EXCEPT ![o] = "log"]
  /\ UNCHANGED <<server, rowUid, approvals, audit, interactions, worker, target, decision,
                 bounds, cuts, misfiled>>

SetReplied(o) ==
  /\ opc[o] = "settle"
  /\ folder' = [folder EXCEPT ![About(o)] = "Replied"]
  /\ RecordFiling(About(o), "Replied")
  /\ opc' = [opc EXCEPT ![o] = "log"]
  /\ UNCHANGED <<server, rowUid, approvals, audit, interactions, worker, target, decision,
                 bounds, cuts>>

LogOutbound(o) ==
  /\ opc[o] = "log"
  /\ interactions' = interactions \cup {<<"outbound", About(o)>>}
  /\ opc' = [opc EXCEPT ![o] = "audit"]
  /\ UNCHANGED <<server, folder, rowUid, approvals, audit, worker, target, decision,
                 bounds, cuts, misfiled>>

(* The command is over, by returning or not.                               *)
Exit(o) ==
  /\ opc' = [opc EXCEPT ![o] = "off"]
  /\ target' = [target EXCEPT ![o] = None]
  /\ decision' = [decision EXCEPT ![o] = None]

AuditDecision(o) ==
  /\ opc[o] = "audit"
  /\ audit' = audit \cup {<<AuditDecisionAs(decision[o]), About(o)>>}
  /\ Exit(o)
  /\ UNCHANGED <<server, folder, rowUid, approvals, interactions, worker, bounds,
                 cuts, misfiled>>

(* The reply of o is out and resolved, and o is about to file the message. *)
Filing(o) == opc[o] \in {"move", "settle"} /\ decision[o] \in Replying

(* A call raises or the process is killed: nothing resumes the command.    *)
Abort(o) ==
  /\ opc[o] # "off"
  /\ faults < MaxFaults /\ faults' = faults + 1
  /\ misfiled' = IF Filing(o) /\ folder[About(o)] # "Replied"
                 THEN misfiled \cup {About(o)} ELSE misfiled
  /\ Exit(o)
  /\ UNCHANGED <<server, database, worker, given, cuts>>

-----------------------------------------------------------------------------
Node(w) ==
  \/ Drop(w) \/ Enrich(w) \/ DraftAndRoute(w) \/ AutoSend(w) \/ Enqueue(w)
  \/ AuditOutcome(w) \/ SetFolder(w) \/ LogInbound(w) \/ MoveOut(w) \/ AuditFinalize(w)

Work(w) == ReadNew(w) \/ PipeDeliver(w) \/ Parse(w) \/ EndPass(w) \/ Node(w)

Decide(o) ==
  \/ Invoke(o) \/ SendReply(o) \/ Resolve(o) \/ MoveSource(o) \/ SetReplied(o)
  \/ LogOutbound(o) \/ AuditDecision(o)

Next ==
  \/ \E u \in Uids : Arrive(u)
  \/ \E w \in Workers : Work(w) \/ Fail(w) \/ Crash(w)
  \/ \E o \in Operators : Decide(o) \/ Abort(o)

Spec == Init /\ [][Next]_vars

(* run_loop polls for ever and every call it makes returns or raises: a    *)
(* poller that can take a step does so in the end.  Nothing is assumed of  *)
(* the mail that arrives, of people, or of the Exim pipe.                  *)
FairSpec == Spec /\ \A w \in Pollers : WF_vars(Work(w))

-----------------------------------------------------------------------------
(* Safety.                                                                 *)

(* The idempotency gate (repos.py already_processed, read in _parse) lets  *)
(* a message have a further outcome only when a run of it was cut off      *)
(* after its outcome and before set_folder, which pays for one repetition, *)
(* or when another worker was past the gate already: each worker adds at   *)
(* most one, however often runs fail and mail comes again.  With one       *)
(* worker every extra reply or queued draft is paid for by a cut.          *)
RepeatsAreCuts == \A m \in MsgIds : Emitted(m) <= cuts[m] + Cardinality(Workers)

(* The gate stays closed: once a message counts as processed, no run that  *)
(* is still under way, no retry and no command makes it count as new.  A   *)
(* worker that passed the gate long before may still insert its row.       *)
GateStaysClosed ==
  [][\A m \in MsgIds : AlreadyProcessed(m) => AlreadyProcessed(m)']_vars

(* A delivery leaves INBOX only when its message already has an outcome in *)
(* the database or on the SMTP server: finalize and process_approval never *)
(* move away, or lose, mail that nobody has dealt with.                    *)
OutcomeBeforeMove ==
  \A u \in Uids : mailbox[u] \in Lanes \cup {"lost"} => Emitted(MsgOf[u]) > 0

(* Once the gate treats a message as processed it has had an outcome, so   *)
(* the copies the gate drops are copies of handled mail.                   *)
ProcessedHasOutcome == \A m \in MsgIds : AlreadyProcessed(m) => Emitted(m) > 0

(* The lanes can be believed, in the mailbox and in the table.  What lies  *)
(* in Replied/ has been replied to.  What waits in Awaiting-Approval/ or   *)
(* Escalated/ waits for a reason: a draft of it is pending, as the CLI     *)
(* lists it, or a person discarded or escalated one, and a discard moves   *)
(* nothing.  Mail in a waiting lane may have been answered instead, since  *)
(* the move of an approved source misses it: then the row says Replied,    *)
(* or a command whose reply is out is about to say so.  Excused are        *)
(* messages in misfiled: a run filed its queued draft over the Replied of  *)
(* another answer, or a command ended between its reply and set_folder.    *)
SentReply(m) == outbox[m] > 0 \/ \E a \in ApprovalsOf(m) : replies[a] > 0

Waits(m) ==
  \/ \E a \in ApprovalsOf(m) : approvals[a].status \in {"pending", "discard", "escalate"}
  \/ \E o \in Operators : Filing(o) /\ About(o) = m
  \/ m \in misfiled

LaneIsTrue(m, lane) ==
  /\ lane = "Replied" => SentReply(m)
  /\ lane \in {"Awaiting-Approval", "Escalated"} => Waits(m) \/ folder[m] = "Replied"

LanesAreTrue ==
  /\ \A u \in Uids : LaneIsTrue(MsgOf[u], mailbox[u])
  /\ \A m \in MsgIds : LaneIsTrue(m, folder[m])

(* An approval whose status is send or edit had its reply accepted by the  *)
(* SMTP server: process_approval resolves after it sends, and a second     *)
(* command on the same approval cannot make the status claim more.         *)
ResolvedWasSent ==
  \A a \in ApprovalIds : approvals[a].status \in Replying => replies[a] > 0

(* Every message the gate treats as processed has the audit row of an      *)
(* outcome, unless a run of it was cut off, or one is just about to write  *)
(* the row while a command has filed the message already.                  *)
AuditGapIsCut ==
  \A m \in MsgIds : AlreadyProcessed(m) =>
    \/ \E o \in Outcomes : <<AuditOutcomeAs(o), m>> \in audit
    \/ cuts[m] > 0
    \/ \E w \in Workers : pc[w] = "audit" /\ Msg(w) = m

-----------------------------------------------------------------------------
(* The promise of OutcomeContract, kept by this specification.             *)

Contract == INSTANCE OutcomeContract
              WITH Parallel <- Cardinality(Workers),
                   outcomes <- [m \in MsgIds |-> Emitted(m)], cut <- cuts

(* Each step of the pipeline produces an outcome the contract allows, cuts *)
(* off a run, or leaves the contract's state alone.                        *)
KeepsContract == Contract!Spec

(* And of ApprovalQueue: no retry takes up the row of an earlier run, and  *)
(* no command, however late, brings a decided draft back.                  *)
Status(a) ==
  CASE ~Queued(a) -> "none"
    [] approvals[a].status = "pending" -> "pending"
    [] approvals[a].status \in Decisions -> "decided"

Queue == INSTANCE ApprovalQueue
           WITH Approvals <- ApprovalIds, Messages <- MsgIds,
                status <- [a \in ApprovalIds |-> Status(a)],
                about <- [a \in ApprovalIds |-> approvals[a].msg]

KeepsQueue == Queue!Spec

-----------------------------------------------------------------------------
(* Liveness.                                                               *)

(* Mail the prefilter lets through has an outcome in the end, whatever     *)
(* fails on the way, once failures stop: INBOX is a queue that retries.    *)
MailIsHandled ==
  \A u \in Uids : (mailbox[u] = "INBOX" /\ MsgOf[u] \notin Junk) ~> (Emitted(MsgOf[u]) > 0)

(* And the gate closes on it: retries of a message do not go on for ever.  *)
RetriesEnd ==
  \A u \in Uids : (mailbox[u] = "INBOX" /\ MsgOf[u] \notin Junk)
                    ~> [](mailbox[u] # "INBOX" \/ AlreadyProcessed(MsgOf[u]))
=============================================================================
