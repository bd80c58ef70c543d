# Hey Mr. Postman — TLA+ models, checks and proofs

This directory models the e-mail agent in `src/`: an agent polls an IMAP INBOX,
classifies each message and drafts a reply with an LLM, and then either sends
the reply, queues it for a person, or escalates it. People decide queued drafts
on a command line. The models are about what can go wrong between these steps.

Paths below are relative to the repository root (`src/agent/...`,
`scripts/...`); `PROJECT.json` has them with the directory in front and names
the lines every definition stands for.

## 1. Inventory

| Component | State it keeps | Operations | What makes it correct |
|---|---|---|---|
| Pipeline graph, `core/pipeline.py` | the graph's state of one run (in memory) | `process`: parse, prefilter, classify, enrich, draft, route, auto_send / enqueue_approval / escalate / drop, finalize; `process_approval` | one outcome per message from each worker at most, and one more where a run was cut off; every message has one in the end; mail leaves INBOX only after it |
| Poll loop and CLI, `scripts/run_agent.py` | the batch of raws of a pass | `run_once`, `run_loop`, `resolve`, `sla`, `digest`, `maintenance` | a failing message stops neither the pass nor the loop |
| Exim pipe, `scripts/exim_pipe_ingest.py` | none; a process per delivery | `main` | a message that also reaches INBOX is handled once |
| State store, `store/` | messages, threads, approvals, audit_log, contacts, interactions, attachments | one committed statement per call | the folder column and the Message-ID are the idempotency gate |
| Approval queue, `adapters/notification/web_queue.py` | rows of approvals | enqueue, list, get, resolve | a decision is about a pending approval and is carried out once |
| Classification and routing, `core/classify.py`, `core/route.py` | none | `_coerce`, `decide_route` | nothing is sent unseen that the table in `route.py` does not allow |
| Configuration, `config.py` | the scenario, the environment | `effective_mode`, `identity_for` | the kill switch wins over the mode; replies go out as the right brand |
| IMAP transport, `adapters/transport/imap_smtp.py` | one connection with a selected folder; folders, flags and dates are the server's | read_new, move, mark_processed, expunge_older_than, quota | mail goes from INBOX to a lane and ceases to exist only from `Trash/`; what the agent has not handled stays visible to it |
| SMTP transport, same file | none | send | refuses an unknown identity |
| Parse and prefilter, `imap_smtp.py`, `core/prefilter.py` | none | true sender, brand, drop rules | never answers a robot |
| CRM and threads, `internal_db.py`, `enrich.py`, `repos.py` | contacts, interactions, threads | find, upsert, log, ensure_thread | a run that loses the race for a contact is repeated; replies stay in one thread; interactions are in the thread of their message |
| Attachments, `imap_smtp.py`, `maintenance.py`, `repos.py` | files under `attachments_path`, rows with a `storage_ref` | offload_attachments, record_attachments | one row per attachment, and its reference leads to its bytes |
| SLA sweep, digest, housekeeping, `maintenance.py` | audit rows of nudges, thread status | sweep, digest, expunge, quota | every overdue draft is nudged once |
| Knowledge base, `chroma_kb.py`, `ingest_kb.py`, `scrape_site.py` | markdown files, vectors per brand | scrape, prune, ingest, replace, retrieve | a crawl ends and writes the pages that can be reached; a draft is grounded in whole pages of one version |
| Deployment, `scripts/update.sh` | the working tree, the running service | pull, install, test, restart | a build that fails its tests is not run |

How they interact. The poller, each pipe process and each CLI command are
separate operating-system processes. They share one SQLite file, in which every
statement is committed on its own (`Database.execute`), one IMAP account and an
SMTP server; nothing locks a message or an approval across calls. A run of the
graph is synchronous, so all concurrency is between processes.

What is hard: a run makes up to a dozen separate effects, any of which may be
the last; what it does is recorded some commits after it is done; the gate is
read at the beginning of a run and written at its end; people may decide a draft
while the run that queued it is still under way; UIDs go stale when mail moves;
the configuration is that of the process start; a move may be four IMAP commands
whose answers nobody reads, in a mailbox that people use too; and a crawl or an
ingestion may die halfway. `PROJECT.json` lists each
of these under `hazards`, at its line.

## 2. Modules

| Module | What it is |
|---|---|
| `OutcomeContract` | Abstract specification: per message, how many outcomes it has had and how many of them were cut off before they could be recorded. A further outcome is allowed while fewer than `Parallel` were not cut off; with one worker, only when every earlier one was. |
| `ApprovalQueue` | Abstract specification of the approvals table: a draft is queued once, for one message, and is never pending again once it is decided. |
| `Pipeline` | The pipeline with everything it shares: mail server, SQLite tables, pollers, pipes, operators. Invariants, the refinement of `OutcomeContract` and of `ApprovalQueue`, liveness. |
| `PipelineClaims` | Sentences of the documents and comments the code does not live up to, as properties. |
| `MCPipeline` | Instances of the two for TLC. |
| `PipelineProofs` | Inductive invariants and theorems about `Pipeline`. |
| `Intake` | Operators: true sender, brand and prefilter of a mail, and the mailbox a reply leaves as. |
| `IntakeProofs` | Lemmas about them. |
| `Routing` | One mail from `parse_raw` to the reply, with `Intake`, `_coerce` and `decide_route`, under a configuration that changes when a process is started. |
| `MCRouting` | An instance for TLC. |
| `RoutingProofs` | Theorems about `Routing`. |
| `SlaSweep` | The SLA follow-up, by several sweepers at a time. |
| `MCSlaSweep` | An instance for TLC. |
| `SlaProofs` | Theorems about `SlaSweep`. |
| `Placement` | Abstract specification: the ways a mail may go between INBOX, the lanes, `Trash/` and nowhere. |
| `Mailbox` | The folders on the mail server, IMAP command by command, used by pollers, commands and people at once; the refinement of `Placement`. |
| `MailboxClaims` | A sentence of the documents about deletion that the code does not live up to. |
| `MCMailbox` | An instance for TLC. |
| `MailboxProofs` | Theorems about `Mailbox`. |
| `Records` | Contacts, threads, rows, attachments and interactions, statement by statement, by several workers. |
| `MCRecords` | An instance for TLC. |
| `RecordsProofs` | Theorems about `Records`. |
| `Scrape` | A run of `scrape_site.py`: crawl, report, prune. |
| `KnowledgeBase` | `ingest_kb.py` and the collection of a brand, composed with `Scrape`, whose files it reads. |
| `MCKnowledgeBase` | An instance for TLC. |
| `KnowledgeProofs` | Theorems about the two. |

How they fit together: `Pipeline` has a message's outcome and the gate, and takes
a mail's move and the writing of its records as single steps; `Mailbox` opens up
the move (`MoveOut`, `MoveSource`), `Records` what `Enrich` and `LogInbound` write,
`Routing` what `Parse` and `DraftAndRoute` decide, and `SlaSweep` what happens to
approvals that wait. `ApprovalQueue` stands between the last two: `Pipeline`
implements it, and `SlaSweep` takes its actions for what runs and commands do to the
table while a sweep is under way, so a second draft of a message, and a draft that is
decided twice, are in both. Each of these has as much of the graph as it needs: `Run` of
`Mailbox` and `Start`, `Settle` of `Records` are the gate and `set_folder`.

### Pipeline and the code

A *delivery* `u` is a copy of a message with a UID of its own, `MsgOf[u]` its
Message-ID. Two deliveries of one message are a redelivery or a message that
reaches both INBOX and the pipe.

| State | Code |
|---|---|
| `mailbox[u]` | where the delivery lies: not there yet, handed to the pipe, INBOX, a lane folder, or lost |
| `outbox[m]`, `replies[a]` | replies the SMTP server accepted: automatic ones, and those for approval `a` |
| `folder[m]`, `rowUid[m]` | columns of the `messages` row of `m` |
| `approvals[a]`, `audit`, `interactions` | the tables of those names |
| `pc`, `batch`, `cur`, `outcome` | a worker's place in `run_once` and the graph, the raws it has left, the graph's state |
| `opc`, `target`, `decision` | a command's place in `process_approval` |
| `cuts[m]` | history only: runs of `m` that ended between their outcome and `set_folder` |
| `misfiled` | history only: messages that were answered on a decision but whose row does not say Replied, because a command died before its `set_folder` or a run's `set_folder` came after it |

Each action is the stretch of one node that ends in one commit, one send or one
move; that is the granularity at which another process can come in.

| Action | Code |
|---|---|
| `ReadNew`, `EndPass` | `read_new` (a failed FETCH skips a message) and the end of a pass of `run_loop` |
| `PipeDeliver` | `exim_pipe_ingest.main` |
| `Parse` | `_parse` with the gate, `_prefilter`; the edge to `drop` |
| `Drop` | `_drop` and END |
| `Enrich` | `_classify`, `_enrich` up to the INSERT OR IGNORE of the messages row |
| `DraftAndRoute` | `_draft`, `_route`: any outcome the mode allows |
| `AutoSend`, `Enqueue`, `AuditOutcome` | `_auto_send`, `_enqueue_approval`, `_escalate`: the effect, then its audit row |
| `SetFolder`, `LogInbound`, `MoveOut`, `AuditFinalize` | `_finalize` |
| `Fail` | any call raises; `run_once` logs it and goes on |
| `Crash` | the process dies and starts again |
| `Invoke` ... `AuditDecision`, `Abort` | `App.resolve` and `process_approval`, one process per command |

`MoveResults` abstracts `transport.move`: done; nothing to do because the UID is
not in INBOX (no error in IMAP); an exception, which the callers swallow; or, in
the fallback, a COPY that was refused and a message expunged anyway.

Definitions named like `ProcessedWhenAnswered` or `LaneOfDrops` are wrong
variants of the definition after them. They are not used by the specification;
each shows that a property notices the mistake (`mutants` in `PROJECT.json`).

### Intake, Routing and the code

`Pipeline` leaves open which mail is junk and which outcome a draft gets; `Routing`
follows one mail and says so. A mail is a record of what the code distinguishes:
the first addresses of From, Reply-To and To, the addresses mentioned in the text
part with the pattern that would match each (labelled, in angle brackets, plain),
and four flags for headers, subject and an empty body. Addresses stand for their
case-folded form. `Automated` are the addresses `_addr_is_noreply` recognises,
`Names[b]` those that contain the key of brand `b` (the code tests substrings).

| Action | Code |
|---|---|
| `Receive` | `parse_raw` and `prefilter`: `TrueSender`, `BrandOf`, `Dropped` |
| `Answer`, `Classify`, `Route` | the triage model, `_coerce`, `decide_route` |
| `AutoSend`, `Enqueue` | `_auto_send` with `transport.send`, the two kinds of approvals |
| `Approve` | `process_approval` with send or edit, under a scenario of its own |
| `Finish` | the end of the mail, or of a run that raised |
| `Stop`, `Start` | the service is restarted and reads `.env` and the scenario |

The model's answer is a category and sentiment that may be no enum value, a flag,
and a confidence that is a number, a NaN, or unreadable. Confidences are integers
in a unit of which `One` make 1.0. `environ` is the kill switch in the environment
a process started with, `config` the scenario it loaded, so a kill switch that
somebody has just flipped stops nothing until the restart (WALKTHROUGH says
"instantly", TEST_PLAN "restart").

### SlaSweep and the code

`clock` counts the approvals created, `created[a]` is the number of `a`, and
`cutoff` the number up to which `follow_up_hours` have passed: only the order of
creation times and which of them are past matters. `overdue[t]` is the approval
whose deadline is in the thread's `sla_due` (`None`: the thread is `open`), and
`nudges[m]` counts the `sla_followup` rows of `m`. `asOf[s]` is the cutoff the list
of a sweep under way was made with. `List` is the query, `Check`
the look for an earlier row, `Flag` the UPDATE of the thread, `Audit` the row;
`Fail` is an exception or a crash anywhere in between. The sweep runs only when
`sla.enabled` is set. `Enqueue` and `Decide` are those of `ApprovalQueue`, with the
time of the row; that a message can have two approvals is the repeated outcome of
`Pipeline`.

### Mailbox and the code

| State | Code |
|---|---|
| `place[m]`, `deleted`, `seen` | the folders with a copy of `m`, the copies flagged `\Deleted`, and `\Seen` in INBOX |
| `day`, `arrived[m]` | the server's date, and `m`'s INTERNALDATE |
| `handled` | mail for which finalize has settled the row, so that the gate drops it from now on |
| `pc`, `batch`, `uid`, `lane`, `aged` | the next command of a client, the raws of its pass, the arguments of `move`, the answer to SEARCH BEFORE |
| `opened`, `forfeit`, `torn` | history only: what excuses a mail that is unseen, gone, or in two folders |

| Action | Code |
|---|---|
| `ReadNew` | SEARCH UNSEEN and the FETCHes of `read_new`, which use BODY.PEEK |
| `Run`, `EndPass` | the graph up to the move, and whether housekeeping follows the pass |
| `Move`, `Copy`, `Store`, `ExpungeInbox` | the four commands of `move`, in INBOX |
| `MarkProcessed` | the STORE of `mark_processed`, by the UID in INBOX |
| `Ask`, `Maintain` | an operator's decision, which moves a source, and the maintenance command |
| `Search`, `FlagAged`, `Purge` | `expunge_older_than` in `Trash/` |
| `Break`, `Crash` | the connection breaks and the caller swallows it; the process dies |
| `Open`, `FlagDeleted`, `ThrowAway`, `Restore` | people with their own mail clients (external) |

`Run` leaves open which mail the prefilter drops: any mail may pass through without
being handled, and it then stays in INBOX, as it does in the code.

A command that is refused is a fault, except MOVE, which servers without RFC 6851
always refuse. A UID names a mail only while it is in INBOX; in `Mailbox` a mail
that has left INBOX does not come back there.

### Records and the code

Each action is one query or one statement, in the order of `enrich`, `_enrich` and
`_finalize`: `FindContact`, `InsertContact`; `SeekThread`, `OpenThread`;
`RecordMessage`; `Offload`; `ClearRows`, `InsertRow`; `Settle`; `LogInteraction`.
`Start` is the gate, `Fail` an exception or a crash. `FindContact` stands for the
SELECT of `find_contact` and that of `upsert_contact` after it. A topic is a
brand with a normalised subject, `DirOf` and `NameOf` are what `_safe` makes of a
Message-ID and a file name: several names may be spelled the same. Between
`InsertRow` and `Settle` lies the outcome, which is `Pipeline`'s. The poller starts
what is in INBOX (`Mailed`), the pipe what it is handed (`Piped`), each delivery of
which is a process of its own; `Source` says which of the two a worker has.

### Scrape, KnowledgeBase and the code

`Urls` are canonical, `Links[u]` those links of `u` that look like pages, `within`
of a source what `_within_prefix` accepts, `NameOf` is `_filename_for`. A url is
taken from the queue by `PassOver` (seen, or its file was written already),
`WriteFile` or `Skip` (the fetch fails); `NextSource`, `Report`, `PruneFile` and
`DieScraping` are the rest of `main`; `spc` is `"off"` after a run that got to its end and
`"died"` after one that did not. `texts` are the files an ingestion has read,
one after the other while a crawl may be writing, and `vectors[n][i]` the version
that chunk `i` of file `n` in the collection is of. `Reset` may fail without a word,
as `ChromaKnowledge.reset` swallows every exception. What `retrieve` finds is any part of
`vectors`, at any moment.

## 3. Runs

| Run | Instance | Shows |
|---|---|---|
| `pipeline_retries` | 1 poller, 2 operators, 2 failures, 2 commands | `TypeOK`; `KeepsContract`: the pipeline implements `OutcomeContract`; `KeepsQueue`: and `ApprovalQueue`; `ResolvedWasSent` |
| `pipeline_concurrent` | poller and pipe on one message, 1 operator, 1 failure, 1 command | `OutcomeBeforeMove`, `ProcessedHasOutcome`, `AuditGapIsCut`, `LanesAreTrue`, `GateStaysClosed`, and `RepeatsAreCuts` with two workers |
| `pipeline_liveness` | 1 fair poller, a message and a junk message, 1 failure, 1 command | `MailIsHandled`, `RetriesEnd` |
| `routing` | 24 scenarios, kill switch, 96 answers with confidences around 0, the threshold and 1, mail of customers, forms, robots and nobody | `TypeOK`, `AutoSendIsEarned`, `DangerIsEscalated`, `NoRobotIsAnswered`, `FormCustomerIsHeard`, `ReplyKeepsMailbox` |
| `sla_sweep` | poller (fair) and command, 3 drafts of 2 messages in 1 thread, 1 failure | `TypeOK`, `NudgedOncePerSweeper`, `NudgeIsOnRecord`, `SweepMissesNobody`, `OverdueIsNudged` |
| `mailbox` | 2 mails, 2 lanes, a poller and an operator, 1 fault, 1 command, 2 acts of people, 1 day | `TypeOK`, `SeenWasHandled`, `DoubledIsTorn`, `KeepsPlaces`: the mailbox implements `Placement` |
| `records` | poller (fair) and pipe, 2 messages of a new customer, the second a reply, both in INBOX and both possibly handed to the pipe, 3 attachments with colliding names, 1 failure | `TypeOK`, `RepliesSplitNoThread`, `InteractionsFollowRows`, `AttachmentsAreOnRecord`, `RefsFindTheirBlob`, `AllSettle` |
| `knowledge_base` | 6 urls with a cycle, a second spelling and one outside the prefix, 2 sources, 1 change, 1 failure, 1 crawl, 2 ingestions | `TypeOK`, `CleanCrawlIsExact`, `StaysWithinPrefix`, `MirrorsCrawl`, `PagesAreWhole`, `RebuildIsExact`, `ScrapeEnds` |

The other runs each expect a violation: a sentence of the repository that the
code does not keep.

| Run | The sentence | What happens |
|---|---|---|
| `claim_failed_run_retried` | README: "After handling, a message is moved out of INBOX"; `run_agent.py`: "leaving in INBOX for retry" | a run that dies or fails after `set_folder` is not retried, its mail stays in INBOX |
| `claim_approved_source_moves` | `process_approval`: "move the source to Replied/" | the UID is that of INBOX, which the mail has left |
| `claim_one_outcome` | `exim_pipe_ingest.py`: "idempotency relies on messages.message_id" | poller and pipe both pass the gate before either writes it |
| `claim_nothing_destructive` | `DEPLOY_IONOS.md`: "Nothing is destructive [...] hard expunge only after `retention.trash_grace_days`" | the sweep goes by the day a mail arrived, so old mail is gone on the day it is thrown away |

Other divergences that were met and have no run of their own:

- `prefilter.py` says a dropped message is moved to `No-Action/`; the `drop` node
  ends the graph, and the message is dropped again in every pass.
- `ports/notification.py` speaks of a decision "against a pending approval";
  nothing looks at the status, and a second command is carried out again.
- `_coerce` is to coerce "defensively"; a confidence of NaN becomes 1.0.
- "We must never reply to [...] our own forwarders" (`prefilter.py`); a customer
  without Reply-To who quotes our address is taken for it.
- "`--prune` deletes kb files for pages that disappeared from the site"
  (`scrape_site.py`); it also deletes those whose fetch failed or that lie beyond
  `max_pages`, and files written by hand.
- A decision to discard moves nothing (`process_approval` only resolves the row), so
  discarded mail stays in the lane it waited in, where nobody is asked about it any
  more; and so does mail that was answered, by the UID above. `LanesAreTrue` says
  which of the mail in a waiting lane still waits for someone and which does not.
- A run that finalizes after a person has decided its draft overwrites Replied with
  Awaiting-Approval, and a command that dies between `resolve` and `set_folder` leaves
  the row as it was: the reply is out and the row says that it waits (`misfiled`).
- The fallback of `move` expunges a mail whose COPY was refused, and INBOX mail
  that people have flagged (`forfeit` in `Mailbox`).

### Bounds

- `MaxFaults` bounds exceptions, crashes and failed fetches together, and
  `MaxDecisions` the commands. Two failures are enough for a message to be cut
  off, retried and cut off again; one is enough for each of the other
  properties, whose counterexamples (under the mutants, and in the claims) need
  at most one. The theorems of section 4 have no such bounds.
- One message is enough for retries, with two deliveries in
  `pipeline_concurrent` for duplicates and the race of two workers: messages
  interact only through the worker that handles them. `pipeline_liveness` has two messages, so that junk can compete with mail.
- Three approval ids: one for each run that can reach `Enqueue` under the
  failures allowed. `Enqueue` would be blocked, not wrong, with fewer.
- In `routing` the two brands, two lists of identities and four bodies make each
  rule of `Intake` decide some mail, alone and against the next one.
- In `sla_sweep` two drafts of one message and a third behind them are enough for
  a skipped item, a second look and a shared thread; two sweepers for the race.
- In `mailbox` one fault, one command and two acts make every pair of clients meet
  between two commands of a move and of a purge, and `Grace` 0 with one day lets
  mail be both old and not. Two mails show what an EXPUNGE takes along.
- In `records` the second message finds the thread of the first, or does not
  because a run of it is still on the way; five threads are one for each run that
  can reach `OpenThread`. In `knowledge_base` one failure is a fetch, a reset or a
  death of either program; two ingestions load one version over another. There is one
  crawl, so what earlier runs left in `kb_path` is what `Initially` puts there; a run
  after one that died is covered by the proof, which has no such bound.
- Symmetry over approval ids, operators, pollers, mails and lanes is used in runs
  without liveness properties only.

Deadlock is checked except in `records`, where every message is settled and the
workers have nothing left to do, and in `knowledge_base`, where nobody need start
another run of either program.

### Fairness

`FairSpec` asks for weak fairness of each poller's `Work`: `run_loop` is an
endless loop around a `try`, and every call in it returns or raises (a call that
hangs for ever would break this, and the code sets no timeouts; that is an
assumption). Nothing is assumed of arriving mail, of operators or of the pipe.
Failures are bounded, so the liveness properties say "once failures stop". A
failing poller is always back in its loop; a crashed one is restarted by
systemd.

`MailIsHandled` and `RetriesEnd` assume that only the agent reads its INBOX:
`read_new` searches UNSEEN, and a message somebody opens first is never read.
`SeenWasHandled` shows that this is the only way for mail to get out of sight.

`FairSpec` of `SlaSweep` asks the same of each poller's sweep. That a sweep
follows every pass is an assumption: while `read_new` raises, it does not.

`FairSpec` of `Records` asks it of each poller, and not of the pipe, which is a
process that nobody starts again: `AllSettle` is about the mail in INBOX, and mail
that reached the pipe alone is run once, with nothing that comes back to it. That of `KnowledgeBase` asks only that a crawl
which was started goes on: each fetch has a timeout, so it returns or raises.

## 4. Proofs

`tlapm` checks the proofs of the seven modules named `...Proofs`
from nothing. The theorems hold for every set of deliveries, messages, workers,
operators, approval ids, mails, clients, attachments, urls and sources and for
every bound, under the `...Assumption` of each module, which fixes the types of
the constants, that the workers, threads and approval ids counted are finitely
many, and that `None` is none of the things it is told from.

| Theorem | Property | Argument |
|---|---|---|
| `TypeCorrect` | `TypeOK` | `Typing`: `TypeOK` strengthened by `Refs` — an approval that is not free is about a message that has a row, a worker in the graph has a current delivery, a command has a target — without which the steps that index by them would not be typed |
| `RepeatsOnlyAfterCuts` | `RepeatsAreCuts` | any number of workers. `CutsInv` counts, for each message, the runs `Settling` (between their outcome and `set_folder`) and the runs `Deciding` (past the gate, no outcome yet). While the gate lets the message through, its outcomes are exactly the cuts and the settling runs; once it does not, nobody joins the deciding ones, and outcomes and deciding runs together are at most cuts and workers. `RepeatsAreCuts` alone is not inductive: it says nothing of runs under way, each of which may add an outcome |
| `OneWorkerAnswersOnce` | | the poller alone, which is how `DEPLOY_IONOS.md` deploys the agent, as a hypothesis: with the pipe beside it the sentence is false (`claim_one_outcome`) |
| `ImplementsContract` | `KeepsContract` | any number of workers, which is `Parallel`: `AutoSend` and `Enqueue` are `Produce`, `Fail` and `Crash` are `Cut` or a stutter, everything else a stutter; `CutsInv` gives the guards |
| `ImplementsQueue` | `KeepsQueue` | `Enqueue` and `Resolve` are the only steps that write the table; `Typing` says that a command's approval is in it |
| `GateNeverReopens` | `GateStaysClosed` | of the three steps that write `folder`, `Enrich` leaves a row that is there alone, and the other two write a lane |
| `OutcomesComeFirst` | `OutcomeBeforeMove`, `ProcessedHasOutcome` | any number of workers. `OutcomeInv` adds that a worker past its outcome, and a command past its approval, are about messages with one; outcomes never shrink |
| `RecordedRepliesWereSent` | `ResolvedWasSent` | also of the rows filed under Replied. `RepliesInv` adds what a command has sent when it is past `send`, and a worker when it is past `AutoSend` |
| `LanesCanBeBelieved` | `LanesAreTrue` | `LaneInv` adds that the lane a run or a command past its outcome is about to write is true already (`RunLaneIsTrue`, `CommandLaneIsTrue`), and `RepliesInv` that a reply about to be filed was sent; the property alone does not see lanes in their hands. `Settled` is what no step of the others can undo: a message whose draft was queued waits for someone, was discarded or escalated by a person, is being filed by a command, is filed as Replied, or is in `misfiled`. `Waits` alone is undone by the `set_folder` of a command that replied |
| `AuditGapsAreCuts` | `AuditGapIsCut` | `AuditInv` adds that a message with an approval is accounted for: audited, cut off, or being audited |
| `RoutingIsSafe` | `AutoSendIsEarned`, `DangerIsEscalated` | `Faithful`: the classification is that of the answer at hand and the action that of the classification; `CoerceIsClassification` says what `_coerce` preserves |
| `GateClosesAfterOutcome` | `ProcessedHasOutcome` | a part of `OutcomesComeFirst` |
| `RoutingTypeCorrect` | `TypeOK` of `Routing` | the same |
| `RepliesAreSafe` | `NoRobotIsAnswered`, `FormCustomerIsHeard`, `ReplyKeepsMailbox` | `Faithful` also says that the mail at hand has passed the prefilter, that its brand occurs in its recipient, and that a reply goes to the true sender; `FirstIsAHit` (by well-foundedness of the positions) is what the lemmas about brands and identities rest on |
| `DangerIsAlwaysEscalated`, `FormCustomersAreHeard`, `RepliesKeepMailbox` | `DangerIsEscalated`, `FormCustomerIsHeard`, `ReplyKeepsMailbox` | parts of the theorems before |
| `SlaTypeCorrect` | `TypeOK` of `SlaSweep` | inductive as it stands |
| `NudgesAreBounded` | `NudgedOncePerSweeper` | `NudgeBound`: once a message has a row, its rows and the sweepers still about to write one are together at most all sweepers, for nobody joins them any more. The property alone does not count those on their way |
| `NudgesAreOnRecord` | `NudgeIsOnRecord` | `Record`: what a sweep holds was due when listed and stays due, and between `Flag` and `Audit` the thread is flagged |
| `SweepsMissNobody` | `SweepMissesNobody` | `Coverage`: a draft that was overdue when a sweep asked, and still is pending, has its message nudged, or is on the sweep's list, or in its hands; a row queued since is younger than `asOf`. The property alone looks at the end of a list only |
| `MailboxTypeCorrect` | `TypeOK` of `Mailbox` | `Typed` adds that a client inside a move has a mail and a lane |
| `SeenMailWasHandled` | `SeenWasHandled` | what a client moves or marks is handled: `MarkProcessed` flags no other mail |
| `DoubledMailIsTorn` | `DoubledIsTorn` | `Single`: a mail that is not torn has at most one copy outside INBOX, one in INBOX besides it only while a client is between COPY and EXPUNGE, and at the EXPUNGE that one is flagged |
| `ImplementsPlacement` | `KeepsPlaces` | `Keeping`: what SEARCH BEFORE returned is old and stays old, and a mail that is not forfeit has a copy that no EXPUNGE takes before its time: in INBOX and unflagged, or outside INBOX and unflagged or old; and one outside INBOX as soon as a client is about to flag and expunge the one there. The lemmas named `...IsPassage` then take one kind of step at a time |
| `RecordsTypeCorrect` | `TypeOK` of `Records` | with what a worker must hold at each statement; foreign keys are part of it |
| `RefsLeadToBlobs` | `RefsFindTheirBlob` | what a worker keeps in memory is on disk under a path that only attachments spelled the same share |
| `AttachmentsRecorded` | `AttachmentsAreOnRecord` | of a message that was never shared, the rows are those its one run has inserted: 1 for what is not in `todo`, 0 for the rest |
| `InteractionsInRowThread` | `InteractionsFollowRows` | the one run of a message that was neither shared nor cut off has the thread of its row |
| `RepliesStayTogether` | `RepliesSplitNoThread` | counting: threads opened by replies on a topic, and workers about to open one, are together at most the workers, for once a thread is there nobody joins them |
| `KnowledgeTypeCorrect` | `TypeOK` of `KnowledgeBase` | a source's queue is its seed until it has a page (`QueueStartsAtSeed`), and there is a source while the crawl is on |
| `CrawlStaysWithin` | `StaysWithinPrefix` | the queue is of the source's seed and prefix |
| `CleanCrawlsAreExact` | `CleanCrawlIsExact` | `CrawlSoFar`: files are of pages taken, taken and queued pages are reachable, the seeds of the sources behind are taken, and the links of a page taken are taken or, while its source is at work, still queued. When no queue is left, the pages taken follow the links, and the reachable ones are the least set that does (`ReachableIsLeast`), so no induction over the crawl is needed. `SourcesAreApart` is a condition of the property: a page whose file another source has written is passed over with its links |
| `PruneMirrorsCrawl` | `MirrorsCrawl` | `Accounted`: every file is as this run wrote it, or was there before and is still in `existing`; a run that gets to its end has left none of the latter. Of such runs none is left out: failed fetches, a source cut at `max_pages` and pages that change meanwhile are among them, and the live pages they missed are deleted |
| `PagesStayWhole`, `RebuildsAreExact` | `PagesAreWhole`, `RebuildIsExact` | `Rebuilding`: a collection that was dropped is empty until its run loads it, and only a finished run counts as a rebuild |

Only model-checked: the liveness properties (`MailIsHandled`, `RetriesEnd`,
`OverdueIsNudged`, `AllSettle`, `ScrapeEnds`), which need fairness and ENABLED. Of
`SweepMissesNobody` and `OverdueIsNudged`, which say the same of a sweep's end and of
every draft in the end, the first is proved.

No proof uses the bounds on failures and commands. That workers are finitely many is
what the counting arguments need.

## 5. Not modelled

- The wording of prompts and replies, the text of a draft and of an edited draft,
  MIME, HTML and JSON syntax, logging, embeddings and the ranking of `retrieve`:
  no decision of the code depends on them except through what the models take as
  given. An edit with an empty body sends the original draft (`process_approval`);
  this is visible in one line and left to a unit test.
- The digest, `list` and the quota warning: they read and print.
- `update.sh` and the other deployment scripts: shell scripts over git, pip and
  systemd that a person starts. A run of `update.sh` that stops at its tests has
  already advanced the tree, as its code says; nothing here models the restart
  that would then run it.
- Files that are half written: a crawl writes a page, and an attachment is
  written, in one step.
- `seed_test_emails.py`, which sends fixed samples.
- IMAP servers that renumber UIDs (UIDVALIDITY), which the code does not ask about.

What could be added: `Pipeline` with the move of `Mailbox` in place of
`MoveResults`, so that one theorem goes from the IMAP commands to
`OutcomeContract`; and the sweep composed with the passes of the poller.
