# LeadLens in TLA+

Models of LeadLens (`src/`), the configurations that check them with TLC, and
theorems about them checked by TLAPS. `PROJECT.json` maps every definition to
the lines it stands for and lists runs, mutants, findings, hazards and theorems.

## The system

| Part (source) | State it keeps | Operations | What makes it hard |
|---|---|---|---|
| Vapi webhook, outbound start (`outbound_agent.py`) | rows of `calls` | an event inserts or updates a row and sends a message, or adds `process` as a background task (`QUEUE_MODE=inline`); a trigger dials and stores `outbound_started` | two processes, events late, twice, out of order; an event before the start's own record; inline: two tasks at once, no retry |
| Call-centre bridge (`call_center_integration.py`) | rows of `calls`, the organization record | an event inserts a row and sends a message; `save_preflight` | insert then send, nothing repairs a lost send |
| Processing queue (`infra/main.tf`) | messages | send, receive, delete, visibility timeout, redrive | FIFO groups, expired receipts, five receives |
| Worker (`worker.py`) | the message in hand | `process`, `handle_processing_failure`, `run` | crash at every step, read-modify-write over rows others write |
| Privacy erasure (`dashboard.py`) | the row it read | deletes objects, then the row | runs in a thread beside everything |
| Database layer (`database.py`) | `calls`, `audit_events`, `organizations`, facts, documents | `get_item`, `put_item`, `update_item`, `delete_item` | `update_item` and conditional `put_item` are two accesses without a lock |
| Custom LLM (`llm_server.py`) | a cache and a task set per process, durable markers | claim a call's start, audit in the background, build the prompt's context | evictions, restarts, two processes, lost tasks |
| Rate limiter (`security.py`) | stamps per client and path | `check_rate_limit` | the edges of a sliding window |
| Knowledge base (`knowledge.py`) | document chunks | split, store, search | overlaps, sizes, an upload that fails half-way |
| Tenant policies (`tenant_policy.py`, `core.py`) | none (a file) | look-ups that validate the whole registry | one bad tenant disables all; the file changes between two look-ups of a call |
| Organization records (`learning.py`, bridge) | `organizations` | `save_preflight`, `generate_prompt_guidance`; read by `metrics` and the bridge | both rewrite the whole record from a snapshot |
| Supervisor reads, authentication, PII redaction, daily report, observability | none of their own | | not concurrent, stateless |

They interact through the `calls` row (webhooks, worker, erasure), the bucket
(worker, erasure), the queue (webhooks, worker), `audit_events` (the Custom LLM
processes among themselves), the organization record (its writers, `metrics`,
the bridge), and facts and document chunks (administrators, the Custom LLM).

What makes the parts correct: a queued row has a message; object keys lead to
published artefacts; no two workers are on one call while their receipts last; a message leaves only with
an outcome or with its receives spent; an inline task nothing failed for ends in
an analysed call; an erased call is gone; Vapi's calls and chat turns are served
only for approved tenants, and the bridge's for registered organizations, which
need no approval; an organization's fields are lost only to overlapping writers; a
call's start is announced once; requests beyond the limit wait until its window,
less at most a second, is over; a document is stored whole; a turn's context is
cut only when it is full, and a warning counts the facts that were cut.

## Modules

| Module | Models | Used by |
|---|---|---|
| `CallStore` | the calls table, the bucket, `update_item` and `put_item` | all of the pipeline |
| `ProcessingQueue` | the SQS FIFO queue (external, as the code uses it) | `Worker`, `Webhooks` |
| `Worker` | `worker.py` | `CallPipeline` |
| `Webhooks` | the three writers of call rows in the API processes | `CallPipeline` |
| `Erasure` | `erase_call` | `CallPipeline` |
| `CallPipeline` | all of these over one table, bucket and queue; the properties | `MCPipeline`, proofs |
| `JobContract` | abstract: what queue and worker promise together | refined by `CallPipeline` |
| `CallPipelineProofs` | `TypeCorrect`, `QueueCorrect`, `WorkersExclude`; the lemmas on how rows, messages and workers change | the next two |
| `ReportProofs` | what a row says of its call is so | `InlineProofs` |
| `ContractProofs` | the pipeline refines `JobContract`; no call fails before its retries are used | |
| `InlineWork`, `MCInline`, `InlineProofs` | `QUEUE_MODE=inline`: the handlers of `Webhooks` and the steps of `Worker`'s `process`, without queue and `run` | extends `CallPipeline` |
| `CallStarts`, `MCStarts`, `CallStartsProofs` | call starts of the Custom LLM endpoint | |
| `RateLimiter`, `RateLimiterProofs` | `check_rate_limit` | |
| `Knowledge` | `chunk_text`, `upload_document`, `retrieve_context` | `ContextBlock` |
| `ContextBlock`, `ContextBlockProofs` | the facts table and `build_context_block` over what `Knowledge` stored | |
| `TenantPolicies` | the policy file, its look-ups and their callers | `Organizations`, `Tenancy` |
| `Organizations` | the organization record and its two writers | `Tenancy` |
| `Tenancy`, `MCTenancy`, `TenancyProofs` | both together: calls come in through an approval or an organization, and completed calls become guidance | |

### How state and steps correspond

*Atomicity.* One action is one access to the database, the bucket, the queue or
an outside service, together with the computation that follows it. Every
transaction of `database.py` is such an access, so `update_item` is
`...Read` then `...Write` with the row kept in `seen`, and a conditional
`put_item` is `CheckAbsent` then `Insert`. Async handlers await only their body
and Vapi's answer, so an API process has one handler in its synchronous part;
`Dial` and `ResumeStart` are the two sides of the one await. `erase_call` is a
synchronous endpoint and runs in a thread of its own.

*Rows.* A row (`Item`) keeps what later code branches on: tenant, provider,
direction, status, whether there is a recording URL, `retry_count`, and whether
the object keys and the analysis are there (one update writes them all).
`recorded = FALSE` stands for an empty `recording_url`: it passes the worker's
None test and fails in the download, which the model joins into `Processable`.
Contact, campaign, transcript and analysis are left out.

*Statuses.* `VapiCallEvent.status` is free text, and the handler stores it in the
field that `process` tests and that the other parts write themselves. Events
may therefore carry any status, also `queued`, `completed`, `failed` or
`received` (`EventStatuses` may overlap `OwnStatuses`), and the worker takes such a
word for its own: an event that says completed and has a recording is passed over.
Nothing in the code prevents that, so the properties cannot deny it; when an
event writes one of the program's words, `mishaps` notes that word for its call,
and a property exempts exactly the calls noted with the word it is about.

*Failure.* Every step of `process` may raise (`StepFails`); a step that raises
after it took effect is its success followed by the failure of the next one.
`Crash` stops a worker anywhere; it also stands for exceptions that leave
`run`, such as a database error inside `handle_processing_failure`. `AckLost`
is a delete that happened but raised. `SendLost` covers a failed
`send_message`, an API process that dies before it, and a message that the
queue discards within its deduplication window.

*Inline mode.* `InlineWork` replaces the queue and `run` and keeps the rest: a
slot of `msgs` is a background task, the `Workers` are the threads of the
process's pool, `TaskSteps` are the steps of `process`, and where the worker
would handle a failure the task just ends (`TaskRaises`). `SendLost` is then an
audit that raises after `add_task`, which drops the task with its response.
`ProcessDies` ends every handler, task and erasure at once. There is one API
process (`InlineAssumption`): inline is the local mode.

*Organizations.* A record is abstracted to who wrote its fields last: the number
of the write that saved the profile, and the set of completed calls the guidance
summarises. `save_preflight` reads and writes the record; the guidance job first
queries the calls, then reads and writes. `overlapped` collects the tenants with
two writers busy at once, whose fields may be lost.

*A turn.* `ContextBlock` extends `Knowledge`: what a turn retrieves are chunks of
uploads that succeeded or failed, any few of them in any order. Texts are their
lengths there, and `facts` are the lengths of the tenant's fact lines in the order
of `get_facts`, so that an upsert replaces a line or inserts one anywhere.

*Policies.* `TenantPolicies` stands beside the pipeline, which takes every
tenant for approved. A call has a row (`Row`), whose status is only "completed" or
"open" (any other), and an attempt of the worker at it (`Attempt`); the file may be
edited between any two look-ups. "completed" is not final: a later event writes
its own status over it (`LaterEvent`), an attempt whose mail fails writes queued or
failed (`AttemptFails`), an erasure deletes the row (`Erase`), and an attempt
that goes on meanwhile brings it back without its tenant (`Complete`). An
update is one step here, and there is one attempt at a call at a time: what
stale rows and overlapping workers do is `CallPipeline`'s subject. An entry carries
how `validate_registry` ends on it (`Verdicts`): a `ValueError` makes
`tenant_by_id` answer None, an `HTTPException` passes it. A file that cannot be read
or parsed ends as one without tenants does, in a `ValueError`, and is modelled as
one.

*Time.* `RateLimiter` counts `time.time()` in ticks, `Resolution` of them to a
second, and `Second` is the `int(...)` that cuts a stamp to its second. Two
stamps that differ by the window may thus be up to a second closer than that in
real time, and the properties speak of real time.

*History.* `mishaps`, `outcomes`, `starts`, `served`, `accepted`, `inForce`,
`excused`, `past`, `interrupted`, `latest`, `overlapped` and `found` are read by
properties only. `mishaps` records for each call what
excuses a later surprise: a write over a row that is no longer the one read, an
erasure, a lost send, a lost answer to a delete, two workers at once (possible only
after a visibility timeout ended under one of them), and the program's own words
when an event wrote them. `excused` does the same for a tenant that was without
custom fields after its call was accepted. `past` says whether a call was ever
completed and whether that was undone. `issuer` is no history: it is the tenant
whose provider issued the call id, as `TenantOf` in the pipeline.

## Runs

The bounds of the pipeline runs: one call, two requests (three in
`Outbound` and `Inline`, one in the refuted ones), one or two messages, one or two processes
of each kind, `MaxRetry = MaxReceive = 2` (both are 5 in production; only their
equality and being above one matter: at 2 there is a first failure that is
retried and a last one that is not). Calls meet only in the queue, where a message
waits for the earlier ones of its group; the theorems hold for any number of them. `CHECK_DEADLOCK FALSE` everywhere, since a
behaviour ends when its requests, messages or time are used up; nothing in the
system blocks.

| Run | Shows |
|---|---|
| `Outbound` | two API processes, visibility timeouts that end under the worker, and progress events that say `queued` or `completed` themselves: types; a queued row has its message; events of a dialled call are admitted whatever came first; object keys lead to published artefacts; a mailed report stays reachable through later events; the refinement of `JobContract` |
| `Erase` | a call of the call centre, its recording at once or later, in two API processes beside privacy requests at any moment: a queued row has its message, a call announced without its recording is left alone, only an erasure costs a row its tenant; liveness: every message leaves, also one whose row was erased or came back without its tenant |
| `TwoWorkers` | one Vapi call and up to two messages of it, with visibility timeouts that may end under either worker: two workers are on it only when one outlived its receipt, it does not fail early, a queued row has its message, a live message's row has the recording |
| `Inline` | two tasks at once on one dialled call, beside its handlers, an erasure and the end of the process: what nothing failed for, and no event called completed, ends completed and mailed; liveness: a task once added leads there |
| `Tenancy` | look-ups fail closed: no Vapi call and no turn is served for a file with a fault in any entry; an analysis has its tenant's custom fields unless there was a fault since the call was first accepted; what was saved into an organization stays, and its guidance drops only calls that did not stay completed, unless writers overlap; guidance is the tenant's own |
| `Starts` | one announcement per process; claims are durable before they are cached; the cache is LRU |
| `RateLimiter` | what whole seconds leave of the sliding window, and no refusal below the limit |
| `ContextBlock` | chunks make up the text; only a single sentence makes a chunk oversized; retried uploads; a turn's context fits, cut facts are counted right, and nothing is cut while there is room |

`EarlyExpiry` says whether a visibility timeout (900 s) may end while its worker
still works. It may in every run of the pipeline but `DeadLetters` (and `Inline`,
which has no queue): that one is about crashes alone, so there the timeouts outlast
every processing. `TwoWorkers` and `Tenancy` declare their workers and writers
symmetric, which is sound because they check no liveness.

Two requests let an event be repeated and overtaken, and a second message find
the leftovers of the first (`retry_count`, keys, `completed`); the third of
`Outbound` is the dialling, and until its handler resumes the events behave as
those of an inbound call. Two processes are enough for a lost update, which
needs one reader and one writer. Three calls against a cache of two evict and
re-admit. Seven requests in eight seconds cross two windows of three,
and ticks of half a second put stamps early and late in their second. Two
entries let one of a file be at fault, out of order or a duplicate of the
other's assistant. In `Inline` the three requests are the dialling and two
events, so that two tasks of the call can run at once, or a progress event beside
one. Two writes of one organization are enough for one to take the other's field
away; the other tenant's calls are there to be kept out of its guidance (`issuer`
gives the one call of the run to either tenant). Three entries to choose from
are one with custom fields, one without that claims the first one's assistant, and
one that spoils the file. In
`ContextBlock` chunks of 2 and 4 words against sentences of up to three, and a
limit of 5 characters against facts of 1, 2, 3 and 6, put the facts at, just below
and just above the limit and on both sides of the two characters of the blank
line; found text goes up to twice the first limit.

### What the documentation says and the code does not

Each is a run that TLC refutes; `findings` quotes the sentences.

| Run | Statement refuted |
|---|---|
| `EraseObjects` | an erasure deletes the call's objects: those of an unfinished attempt stay, their keys were never recorded |
| `EraseRevive` | an erasure deletes the record: the worker's `update_item` writes one back |
| `DeadLetters` | failures are retried and then marked failed: crashes spend receives, and the message is set aside with the call queued |
| `ReportMail` | the report is mailed: not after a crash between completion and mail |

Seen while modelling, and not stated as runs:

- `README.md:17` says the worker only processes Vapi calls; `worker.py:34`
  accepts `call_center`, and the model processes such calls.
- `README.md:15` says an outbound start stores its record; when an event of the
  call was stored first, the conditional put of `outbound_agent.py:116` drops
  contact and campaign.
- `docs/CUSTOM_LLM_FINDINGS.md:33` says the first request of a call is audited;
  it may be twice, by two processes (`database.py:125` locks no missing row),
  or never, when the claim's answer or the background task is lost
  (`llm_server.py:203`).
- `docs/CUSTOM_LLM_FINDINGS.md:41` says facts near the limit are dropped; from
  two characters below it up to it they fit, and the warning of
  `llm_server.py:55` says 0.

## Fairness

`Erase` checks `FairSpec`, which assumes weak fairness of each worker's own steps, of `Receive` and
`Restart`, of visibility timeouts and of the redrive. The code justifies it:
`run` loops for ever, every outside call has a timeout, ECS restarts a stopped
worker, and SQS does the rest by itself. Nothing is assumed of providers, API
processes or administrators, and crashes may go on for ever: each costs a
receive. The number of messages is bounded, which a fair queue needs here;
with an endless supply the same holds for each message by FIFO order.

`Inline` checks `InlineSpec`: a handler goes on once its request is there, and a
thread runs its task to the end. Starlette schedules both without waiting for
anybody, and the outside calls have timeouts. Nothing is assumed of providers,
and the process may die at any time: the property then excuses the call.

## Proofs

`TypeCorrect`: `Spec => []TypeOK`. TypeOK is strengthened by `Custody`: a
worker that is busy holds a slot that was sent, so that the call it works on is
defined.

`WorkersExclude`: `OneWorkerPerCall` is not inductive. The strengthening says
that of one message group at most one message is in flight (`OneInFlight`) and that
no two workers were given the same receive of a message (`Receipts`); two workers
with receipts on one call would then hold the same receive of the same message.

`QueueCorrect`: `QueuedIsBacked` is not inductive either. The strengthening
`QueueInv` adds `HeldMessages` (a worker that is busy with a call nothing went wrong
for has its message in a queue still) and `SettledSafely` (when a worker on its
way to delete its message works on a call whose row says queued, something other
than that message backs the row). Both speak of calls with a sound queue
(`QueueSound`); a call that two workers are on at once is not one, so a step of one
worker need not be weighed against another's (`OverlapsAreNoted`). With them each action preserves each
part; the proof has one step per action. The constants are arbitrary: any statuses,
with or without early expiry; the assumptions used are the ASSUMEs of the modules.

`ContractKept`: `Spec => KeepsContract`, the safety part of the refinement of
`JobContract`. A step of the queue (`EveryQueueStep`) is a `Submit`, `Deliver`,
`Return`, `Settle` or `SetAside`, and one that concludes something leaves the
queue alone. Two guards of the contract need an invariant, `ContractInv`: a
verdict is only reached on a job that was delivered (`Taken`), and whoever is
about to delete a message has concluded something about its call (`Concluded`:
also a completed row was concluded, which is why a redelivered message may be
deleted at once). A row that an event called completed was concluded by nobody;
the contract has the provider's word for it as a step of its own (`Declare`), and
`Declared` adds it to the verdicts of the call.

`RetriesAreGranted`: a row that says failed, and no event said so, has had as many
deliveries as the retry limit. The argument charges every retry to a receive of its own
(`RetryInv`). `Spent` is the set of receives nobody still counts on: a worker
between its receive and its verdict holds one, and no two hold the same
(`ReceiptsDiffer`). No copy of a row, in the table or in anybody's hand, counts
more retries than are spent; a worker that writes a failure spends the receive
it held (`StopsCounting`), which makes room for the one retry it adds. A crash
spends a receive and adds none. Spent receives are never taken back
(`SpentGrows`), so stale copies stay covered however late they are written.

`OwnerKept`, `PublishedBeforeCompleted`, `MailedReachable`, `RecordingIsThere`,
`EventsAreAdmitted`: one invariant, `ReportInv`, carries them. A row is read in
one step and written back in another, by webhooks as by workers, so whatever is
to hold of rows must hold of every snapshot somebody carries, and must still
hold when it is written over a row that has changed meanwhile. `Genuine` is what
may be said of a row at any time: it has the tenant and direction of one of the
call's events or was erased, and before an erasure it says no more than the
bucket and the CRM confirm, but for a "completed" that `mishaps` shows to be an
event's. These only grow until an erasure begins (`Grows`),
so a snapshot that was genuine stays it (`StaysGenuine`). The rest of
`ReportInv` is about who carries what: handlers past their first access and
messages belong to a known call, a worker at a step has stored what the steps
before it store, and whoever mails leaves keys in the row. `EventsAreAdmitted`
assumes `OneDirection`: all events of a Vapi call give the same direction.

`ReceivedAlone`: a call some message tells of, or a handler is about to send one
for, has a row past "received", or an event of Vapi's has said that word
(`AnnouncedInv`). Such a row is only inserted, and
an insert that disturbs nothing finds no row, hence by the invariant no message.

`SettledAreAnalysed`, `InlineOwnerKept`, `InlinePublished`: a step of the inline
mode is one of the pipeline's, or only begins or ends handlers and tasks and
leaves every row alone (`PipelineSteps`, `Reshuffle`). So `ReportInv` holds there
too, and with it the last two. The first needs `InlineInv`: a row with a
recording that nothing went wrong for has somebody who will publish it, a handler
about to write or to add a task, a task nobody has taken, or a thread before its
completed update (`Promised`), and once completed somebody who will mail it
(`Mailing`). A task that finds the call completed may return at once, and another
may still overwrite completed with the row it read; the invariant survives, since
whoever writes is itself one that still has to add or finish a task. When nobody
is left, completed and mailed are what remains. The argument needs no bound on the
threads, and `InlineAssumption` (one process) does not occur in it.

`StartsOncePerProcess`: an announced call has its marker, markers are never
removed, and a process between SELECT and upsert has not announced the call:
`StartInv`. The cache does not occur in that argument.

`CallStartsTypes`, `CachedCallsAreMarked`, `CachesTheNewest`: `MarkInv`
is the first two together, with a claim under way being of a call
(`ClaimsAreOfCalls`): a call enters a cache only behind its marker. The last is about the order within the cache: `Recent` says that
it lists served calls by their last turn, leaves out no newer one than it holds,
and is full unless it holds all of them. Renewing a call keeps that with one
entry too many at most (`RenewedIsRecent`), and evicting the oldest takes it away
again (`EvictedIsRecent`). Distinct entries follow from the order.

`DocumentsAreWhole`, `LongChunksAreOneSentence`: `Split` says of a sequence of
chunks that each follows from the one before: it begins with the overlap, holds
the next sentences, at least one, and ends where another would not fit. It says
so of the chunks made so far and of every stored document (`DocumentInv`), and
the current chunk is such a `Piece` that has not ended. What follows a chunk is
unique (`PieceUnique`), so two splits of one text agree as far as both go
(`SplitAgrees`), and none goes on after the end of the text (`SplitEnds`). That
is why what a failed upload left is a beginning of the second one.

`BlockStaysInLimit`, `NothingIsCutEarly`, `WarningsCount`: a turn is one step, and
its four cases are arithmetic, once it is known that the joined lines grow with
every line (`LinesGrow`) and that the lines the warning counts are those that end
beyond the limit (`DroppedLines`). `NothingIsCutEarly` uses the assumption
`MaxContext >= Limit`, which 2000 and 1500 satisfy. These proofs meet a
recursive function, the length of joined texts (`Joined`); its values come from an
induction over a set of numbers (`SetInduction`, from the library's well-founded
order), which needs no operator for a parameter.

`WindowKept`: `BucketInv` says that a stamp missing from the bucket is out of
the window, and time being monotone stays so; hence a bucket below the limit
means that the `Limit`-th request before is out of the window
(`RoomMeansOldStamp`). What that says of real time is arithmetic of the cut
(`Division`, `Seconds`): whole seconds a window apart are more than the window
less one second apart. `RefusalsJustified` is the converse: the pruned bucket is
part of the current window's requests, and what is fresh by whole seconds is less
than a window old.

`ApprovedOnly`, `FieldsInForce`, `FieldsLostWithCause`, `FieldsStay`,
`OwnGuidanceOnly`, `GuidanceGrows`: the invariant of `TenancySpec` has two
halves. `PolicyInv` says that what the file grants now has been in force, and
`CallInv`, call by call, that a call not excused has a tenant the next look-up
finds with fields, that an attempt and a row hold no other fields than that
tenant was given, and that `past` knows what was completed. So an analysis
without fields belongs to an excused call, which is not visible in the call's row
and makes `LostFieldsHadACause` inductive; and it stays so while rows are
overwritten, deleted and written back. The argument rests on two facts about the
look-ups: the validation passes exactly for files that grant something
(`Validation`), and a look-up returns the first entry that matches (`Positions`).
`OrgInv` says that, without an overlap, a tenant has at most one writer, which
holds the record as it is stored, and that a summary under way covers the stored
one but for calls undone since. The halves meet in two places: what was completed
once stays completed or undone, and undone for good (`Once`, `Undone`), so a
summary that waits is overtaken in one direction only; and records are never
deleted while calls of the bridge live (`RegisteredStays`).

Every safety property of the passing runs is proved. Only model-checked are
`EveryMessageLeaves` and `TasksLeadToAnalysis`: liveness under fairness is out
of the prover's reach.

## Not modelled

What the exemptions above leave open is not promised: a call for which an event
writes one of the program's own statuses (it may be passed over, or shown as queued
with no message), a mailed report whose row was overwritten with an older copy, a
send or an answer that was lost, a message two workers were on at once.

Contents of transcripts, analyses, workbooks and mails;
signatures and tokens; reads that change nothing; a wall clock that steps back;
a queue purge or retention; two webhooks with one call id from different
tenants (call ids are Vapi's, `TenantOf` gives each its tenant). `legal_hold` is
read by `erase_call` but set nowhere, so `LegalHolds` is a constant.

## Plan

1. What `QueuedIsBacked` leaves of a call two workers were on at once, and
   `MailedStaysReachable` of one whose row was overwritten with an older copy.
2. `AnswerStream`: the streamed answer of the Custom LLM, if it comes to keep
   state; the daily report, if it comes to page.
