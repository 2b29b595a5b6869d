------------------------------- MODULE Worker -------------------------------
(***************************************************************************)
(* worker.py: the loop that receives one message at a time, runs process   *)
(* on its call and deletes the message, or runs handle_processing_failure  *)
(* and deletes it only when that answers False.  Each step is one access   *)
(* to the database, the bucket or an outside service; whatever another     *)
(* process does to the call may come between two steps.                    *)
(***************************************************************************)
EXTENDS ProcessingQueue

CONSTANTS
    Workers,    \* worker processes
    MaxRetry    \* WORKER_MAX_RETRY_COUNT

ASSUME WorkerAssumption == MaxRetry \in Nat \ {0}

VARIABLES
    job,        \* what each worker process is doing, and its local variables
    crm,        \* calls whose analysis reached the CRM
    mailed,     \* calls whose report was mailed
    outcomes    \* history: the ways in which workers were done with a call

workVars == <<job, crm, mailed, outcomes>>

ProcessSteps == {"load", "audio", "transcript", "report", "crm",
                 "mark_read", "mark_write", "email", "ack"}
HandlerSteps == {"fail_load", "fail_read", "fail_write", "drop"}
Outcomes     == {"completed", "failed", "missing"}

Job ==
    [pc      : {"idle", "down"} \cup ProcessSteps \cup HandlerSteps,
     slot    : Slots \cup {0},
     receipt : Nat,
     got     : Snapshot,    \* handle_processing_failure's `call'
     seen    : Snapshot]    \* the row update_item is about to rewrite

IdleJob == [pc |-> "idle", slot |-> 0, receipt |-> 0, got |-> NoItem, seen |-> NoItem]
DownJob == [IdleJob EXCEPT !.pc = "down"]

Busy(p)   == job[p].pc \notin {"idle", "down"}
CallOf(p) == msgs[job[p].slot].event.call
Holds(p, i) == Busy(p) /\ job[p].slot = i

Goto(p, pc)  == job' = [job EXCEPT ![p].pc = pc]
Finish(p)    == job' = [job EXCEPT ![p] = IdleJob]
Exit(p)      == job' = [job EXCEPT ![p] = DownJob]
Conclude(c, o) == outcomes' = [outcomes EXCEPT ![c] = @ \cup {o}]

(*--------------------------- the decisions taken ------------------------*)
SupportedProviders == {"vapi", "call_center"}

(* The checks process makes before it downloads anything.  An empty        *)
(* recording_url passes the code's None test and fails in the download     *)
(* instead, to the same effect.                                            *)
Processable(item) ==
    /\ item # NoItem
    /\ item.tenant # NoTenant
    /\ item.recorded
    /\ item.provider \in SupportedProviders

(* Mutant: process skips calls whose free-text status merely sounds final. *)
AlreadyEnded(item) == item # NoItem /\ item.status \in {"completed", "ended"}

AlreadyDone(item) == item # NoItem /\ item.status = "completed"

AfterLoad(item) ==
    IF AlreadyDone(item) THEN "ack"
    ELSE IF Processable(item) THEN "audio" ELSE "fail_load"

(* Mutant: the row is marked before the CRM is told.                       *)
StageAfterWithoutCrm(kind) ==
    CASE kind = "audio" -> "transcript"
      [] kind = "transcript" -> "report"
      [] kind = "report" -> "mark_read"

StageAfter(kind) ==
    CASE kind = "audio" -> "transcript"
      [] kind = "transcript" -> "report"
      [] kind = "report" -> "crm"

(* Mutant: the update forgets the object keys.                             *)
PublishedWithoutKeys(seen) == [Base(seen) EXCEPT !.status = "completed"]

Published(seen) == [Base(seen) EXCEPT !.status = "completed", !.keys = TRUE]

RetryCount(item) == item.retry + 1

(* Mutant: the last retry is not granted.                                  *)
ExhaustedEarly(n) == n + 1 >= MaxRetry

Exhausted(n) == n >= MaxRetry

(* Mutants: a call given up stays queued; a failure rewrites the row.      *)
FailedStillQueued(seen, n) == [Base(seen) EXCEPT !.retry = n, !.status = "queued"]
FailedAfresh(seen, n) ==
    [EmptyItem EXCEPT !.retry = n,
                      !.status = IF Exhausted(n) THEN "failed" ELSE "queued"]

Failed(seen, n) ==
    [Base(seen) EXCEPT !.retry = n,
                       !.status = IF Exhausted(n) THEN "failed" ELSE "queued"]

(*-------------------------------- run -----------------------------------*)
Overlaps(c) == \E q \in Workers : Busy(q) /\ CallOf(q) = c

Receive(p) ==
    /\ job[p].pc = "idle"
    /\ \E i \in Slots :
         LET c == msgs[i].event.call
         IN  /\ Take(i)
             /\ job' = [job EXCEPT ![p] = [IdleJob EXCEPT !.pc = "load", !.slot = i,
                                                          !.receipt = msgs'[i].receives]]
             /\ mishaps' = [mishaps EXCEPT ![c] =
                               @ \cup (IF Overlaps(c) THEN {"overlap"} ELSE {})]
    /\ UNCHANGED <<calls, objects, crm, mailed, outcomes>>

(*------------------------------ process ---------------------------------*)
Load(p) ==
    /\ job[p].pc = "load"
    /\ Goto(p, AfterLoad(calls[CallOf(p)]))
    /\ UNCHANGED <<storeVars, msgs, crm, mailed, outcomes>>

(* Download and store the audio; transcribe, analyse and store the         *)
(* transcript; store the workbook.                                         *)
StoreObject(p) ==
    /\ job[p].pc \in Kinds
    /\ PutObject(CallOf(p), job[p].pc)
    /\ Goto(p, StageAfter(job[p].pc))
    /\ UNCHANGED <<calls, mishaps, msgs, crm, mailed, outcomes>>

SyncCrm(p) ==
    /\ job[p].pc = "crm"
    /\ crm' = crm \cup {CallOf(p)}
    /\ Goto(p, "mark_read")
    /\ UNCHANGED <<storeVars, msgs, mailed, outcomes>>

MarkRead(p) ==
    /\ job[p].pc = "mark_read"
    /\ job' = [job EXCEPT ![p].pc = "mark_write", ![p].seen = calls[CallOf(p)]]
    /\ UNCHANGED <<storeVars, msgs, crm, mailed, outcomes>>

MarkWrite(p) ==
    /\ job[p].pc = "mark_write"
    /\ Upsert(CallOf(p), job[p].seen, Published(job[p].seen), {})
    /\ job' = [job EXCEPT ![p].pc = "email", ![p].seen = NoItem]
    /\ Conclude(CallOf(p), "completed")
    /\ UNCHANGED <<objects, msgs, crm, mailed>>

(* The call_processed audit, the presigned URL and the mail.               *)
SendReport(p) ==
    /\ job[p].pc = "email"
    /\ mailed' = mailed \cup {CallOf(p)}
    /\ Goto(p, "ack")
    /\ UNCHANGED <<storeVars, msgs, crm, outcomes>>

Ack(p) ==
    /\ job[p].pc = "ack"
    /\ ReceiptValid(job[p].slot, job[p].receipt)
    /\ Delete(job[p].slot)
    /\ Finish(p)
    /\ UNCHANGED <<storeVars, crm, mailed, outcomes>>

(* Any step of process, and the delete_message after it, may raise; a step *)
(* that raises after taking effect is its success followed by the failure  *)
(* of the next one.                                                        *)
StepFails(p) ==
    /\ job[p].pc \in ProcessSteps
    /\ job' = [job EXCEPT ![p].pc = "fail_load", ![p].seen = NoItem]
    /\ UNCHANGED <<storeVars, msgs, crm, mailed, outcomes>>

(* The delete took effect and its answer was lost.                         *)
AckLost(p) ==
    /\ job[p].pc = "ack"
    /\ ReceiptValid(job[p].slot, job[p].receipt)
    /\ Delete(job[p].slot)
    /\ mishaps' = [mishaps EXCEPT ![CallOf(p)] = @ \cup {"ack lost"}]
    /\ Goto(p, "fail_load")
    /\ UNCHANGED <<calls, objects, crm, mailed, outcomes>>

(*--------------------- handle_processing_failure ------------------------*)
FailLoad(p) ==
    /\ job[p].pc = "fail_load"
    /\ \/ /\ Exists(CallOf(p))
          /\ job' = [job EXCEPT ![p].pc = "fail_read", ![p].got = calls[CallOf(p)]]
          /\ UNCHANGED outcomes
       \/ /\ ~Exists(CallOf(p))
          /\ Goto(p, "drop")
          /\ Conclude(CallOf(p), "missing")
    /\ UNCHANGED <<storeVars, msgs, crm, mailed>>

FailRead(p) ==
    /\ job[p].pc = "fail_read"
    /\ job' = [job EXCEPT ![p].pc = "fail_write", ![p].seen = calls[CallOf(p)]]
    /\ UNCHANGED <<storeVars, msgs, crm, mailed, outcomes>>

(* With retries left the handler answers True: run goes on to the next     *)
(* message and leaves this one in flight.                                  *)
Requeue(p) ==
    LET n == RetryCount(job[p].got)
    IN  /\ job[p].pc = "fail_write"
        /\ ~Exhausted(n)
        /\ Upsert(CallOf(p), job[p].seen, Failed(job[p].seen, n), {})
        /\ Finish(p)
        /\ UNCHANGED <<objects, msgs, crm, mailed, outcomes>>

GiveUp(p) ==
    LET n == RetryCount(job[p].got)
    IN  /\ job[p].pc = "fail_write"
        /\ Exhausted(n)
        /\ Upsert(CallOf(p), job[p].seen, Failed(job[p].seen, n), {})
        /\ job' = [job EXCEPT ![p].pc = "drop", ![p].seen = NoItem]
        /\ Conclude(CallOf(p), "failed")
        /\ UNCHANGED <<objects, msgs, crm, mailed>>

(* The call_processing_failed audit reads call["tenant_id"]: a row without *)
(* one raises out of run, and so does a delete with a stale receipt.       *)
CanDrop(p) ==
    /\ ReceiptValid(job[p].slot, job[p].receipt)
    /\ job[p].got # NoItem => job[p].got.tenant # NoTenant

Drop(p) ==
    /\ job[p].pc = "drop"
    /\ CanDrop(p)
    /\ Delete(job[p].slot)
    /\ Finish(p)
    /\ UNCHANGED <<storeVars, crm, mailed, outcomes>>

DropRaises(p) ==
    /\ job[p].pc = "drop"
    /\ ~CanDrop(p)
    /\ Exit(p)
    /\ UNCHANGED <<storeVars, msgs, crm, mailed, outcomes>>

(*------------------------- process life cycle ---------------------------*)
(* The container is stopped, or an exception leaves run while it handles   *)
(* another one.                                                            *)
Crash(p) ==
    /\ Busy(p)
    /\ Exit(p)
    /\ UNCHANGED <<storeVars, msgs, crm, mailed, outcomes>>

(* ECS keeps the service at its desired count.                             *)
Restart(p) ==
    /\ job[p].pc = "down"
    /\ Finish(p)
    /\ UNCHANGED <<storeVars, msgs, crm, mailed, outcomes>>

(* What the loop does of its own accord.                                   *)
Proceed(p) ==
    \/ Load(p) \/ StoreObject(p) \/ SyncCrm(p) \/ MarkRead(p) \/ MarkWrite(p)
    \/ SendReport(p) \/ Ack(p) \/ StepFails(p) \/ AckLost(p)
    \/ FailLoad(p) \/ FailRead(p) \/ Requeue(p) \/ GiveUp(p)
    \/ Drop(p) \/ DropRaises(p)

WorkerStep(p) == Receive(p) \/ Proceed(p) \/ Crash(p) \/ Restart(p)

WorkInit ==
    /\ job      = [p \in Workers |-> IdleJob]
    /\ crm      = {}
    /\ mailed   = {}
    /\ outcomes = [c \in Calls |-> {}]

WorkTypeOK ==
    /\ job      \in [Workers -> Job]
    /\ crm      \subseteq Calls
    /\ mailed   \subseteq Calls
    /\ outcomes \in [Calls -> SUBSET Outcomes]
==============================================================================
