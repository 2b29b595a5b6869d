---------------------------- MODULE CallPipeline ----------------------------
(***************************************************************************)
(* The whole path of a call, from webhook to report: API processes         *)
(* (Webhooks), privacy requests (Erasure), the processing queue and the    *)
(* worker (Worker), all over one calls table and one bucket.               *)
(***************************************************************************)
EXTENDS Worker, Webhooks, Erasure

CONSTANT
    EarlyExpiry     \* may a visibility timeout end while its worker works?

ASSUME PipelineAssumption == EarlyExpiry \in BOOLEAN

vars == <<storeVars, msgs, workVars, apiVars, erasure>>

VisibilityTimeout(i) ==
    /\ EarlyExpiry \/ \A p \in Workers : ~Holds(p, i)
    /\ Expire(i)
    /\ UNCHANGED <<storeVars, workVars, apiVars, erasure>>

DeadLetter(i) ==
    /\ Redrive(i)
    /\ UNCHANGED <<storeVars, workVars, apiVars, erasure>>

WorkerActs(p) == WorkerStep(p) /\ UNCHANGED <<apiVars, erasure>>
ApiActs(p)    == ApiStep(p) /\ UNCHANGED <<workVars, erasure>>
DialOut       == (\E e \in Events : Dial(e)) /\ UNCHANGED <<workVars, erasure>>
EraserActs(t) == EraserStep(t) /\ UNCHANGED <<msgs, workVars, apiVars>>

Init == StoreInit /\ QueueInit /\ WorkInit /\ ApiInit /\ ErasureInit

Next ==
    \/ \E p \in Workers : WorkerActs(p)
    \/ \E p \in Apis : ApiActs(p)
    \/ DialOut
    \/ \E t \in Erasers : EraserActs(t)
    \/ \E i \in Slots : VisibilityTimeout(i) \/ DeadLetter(i)

Spec == Init /\ [][Next]_vars

(* run never blocks for good: every outside call has a timeout, receive is *)
(* retried for ever and ECS restarts a stopped container.  The queue ends  *)
(* visibility timeouts and redrives by itself.  Nothing is assumed of      *)
(* providers, API processes or administrators, and crashes may go on.      *)
Fairness ==
    /\ \A p \in Workers :
         /\ WF_vars((Proceed(p) \/ Restart(p)) /\ UNCHANGED <<apiVars, erasure>>)
         /\ WF_vars(Receive(p) /\ UNCHANGED <<apiVars, erasure>>)
    /\ \A i \in Slots : WF_vars(VisibilityTimeout(i)) /\ WF_vars(DeadLetter(i))

FairSpec == Spec /\ Fairness

(* report_url finds a report for a supervisor of the tenant.               *)
HasReport(c, t) == Exists(c) /\ calls[c].tenant = t /\ calls[c].keys

(*------------------------------ properties ------------------------------*)

(* Every variable keeps its shape.                                         *)
TypeOK == StoreTypeOK /\ QueueTypeOK /\ WorkTypeOK /\ ApiTypeOK /\ ErasureTypeOK

(* The message of a call in this state is still to come.                   *)
SendPending(c) == \E p \in Apis : Serving(p, "send") /\ EventOf(p).call = c

(* Nothing went wrong between the system and its queue for this call: no   *)
(* send or answer was lost, no two workers were on it at once, and         *)
(* "queued" was the program's word, not an event's.                        *)
QueueSound(c) == mishaps[c] \cap {"not sent", "ack lost", "overlap", "queued"} = {}

(* The message a worker is busy with is still in flight under its receipt. *)
HasReceipt(p) ==
    /\ msgs[job[p].slot].state = "inflight"
    /\ msgs[job[p].slot].receives = job[p].receipt

Backed(c) == SendPending(c) \/ \E i \in Slots : Kept(i) /\ Carries(i, c)

(* A row that says "queued" is no empty promise: some message for the call *)
(* is in the queue or the dead-letter queue, or about to be sent, whatever *)
(* webhooks, erasures, retries, expired receipts and crashes did to the    *)
(* row; unless a send or the answer to a delete was lost, two workers were *)
(* on the call at once, or an event of Vapi's said "queued".  (worker.py   *)
(* deletes a message only after it wrote another status.)                  *)
QueuedIsBacked ==
    \A c \in Calls : (HasStatus(c, "queued") /\ QueueSound(c)) => Backed(c)

(* Two workers are on the same call at once only if one of them outlived   *)
(* its receipt (its visibility timeout ended, or its delete happened and   *)
(* raised): message groups see to it, also when a deployment runs the old  *)
(* and the new worker and several messages tell of the call.               *)
OneWorkerPerCall ==
    \A p, q \in Workers :
        (p # q /\ Busy(p) /\ Busy(q) /\ CallOf(p) = CallOf(q))
            => ~HasReceipt(p) \/ ~HasReceipt(q)

(* What report_url and list_calls show is there: a completed row has its   *)
(* object keys, unless an event of Vapi's said "completed", and a row with *)
(* keys, whatever its status has become, has all three artefacts and a CRM *)
(* entry, as long as no erasure was begun.                                 *)
CompletedIsPublished ==
    \A c \in Calls :
        (Exists(c) /\ "erasing" \notin mishaps[c])
            => /\ calls[c].status = "completed" => calls[c].keys \/ "completed" \in mishaps[c]
               /\ calls[c].keys => objects[c] = Kinds /\ c \in crm

(* A row loses its tenant only to an erasure it survived (update_item      *)
(* writes a row back after the delete); no webhook or worker creates a row *)
(* that list_calls, report_url and erase_call cannot reach.                *)
OwnerLossNeedsErasure ==
    \A c \in Calls :
        (Exists(c) /\ calls[c].tenant # TenantOf[c])
            => calls[c].tenant = NoTenant /\ "erased" \in mishaps[c]

(* Once the report of a call was mailed its tenant's supervisors can open  *)
(* it, and erase_call finds the objects by the same keys, through every    *)
(* later event and failure, except a write based on an outdated row.       *)
MailedStaysReachable ==
    \A c \in mailed :
        \/ ~Exists(c)
        \/ HasReport(c, TenantOf[c])
        \/ mishaps[c] \cap {"stale write", "erased"} # {}

(* While a message of a call whose every event has a recording is in the   *)
(* queue, the row has the recording the worker will look for.              *)
LiveMessageHasRecording ==
    \A i \in Slots :
        (Live(i) /\ \A e \in Events : e.call = msgs[i].event.call => e.source # "start" /\ e.recorded)
            => LET c == msgs[i].event.call
               IN  "erased" \in mishaps[c] \/ (Exists(c) /\ calls[c].recorded)

(* A call-centre call first announced without its recording stays as it    *)
(* is: while its row says "received" no message was ever sent for it, so a *)
(* worker never fails, retries or gives up what it has no recording for,   *)
(* unless two processes handled its first events at once, an erased call   *)
(* is announced again, or an event of Vapi's said "received".              *)
ReceivedIsLeftAlone ==
    \A c \in Calls :
        (HasStatus(c, "received") /\ mishaps[c] \cap {"stale write", "erased", "received"} = {})
            => \A i \in Slots : ~Carries(i, c)

(* The receives of messages of a call: which message, and its how manieth. *)
Deliveries(c) ==
    {d \in Slots \X (1..MaxReceive) : Carries(d[1], c) /\ d[2] <= msgs[d[1]].receives}

(* A call is never given up early: before its row says "failed", messages  *)
(* of the call were taken up WORKER_MAX_RETRY_COUNT times, however many    *)
(* workers, messages and outdated rows had a part in counting; unless an   *)
(* event of Vapi's said "failed".                                          *)
FailedUsedItsRetries ==
    \A c \in Calls :
        HasStatus(c, "failed")
            => MaxRetry <= Cardinality(Deliveries(c)) \/ "failed" \in mishaps[c]

(* Whatever came first, the outbound start or an event, Vapi's events for  *)
(* the call are accepted: the tenant and direction test of                 *)
(* receive_vapi_call_event turns none away until an erasure.               *)
OwnEventsAdmitted ==
    \A e \in Events :
        (e.source = "vapi" /\ "erased" \notin mishaps[e.call])
            => Admits(calls[e.call], e)

(*--------------- statements of the documentation, refuted ---------------*)

(* README: erasing a call "deletes that call record and its audio,         *)
(* transcript, and report objects": with no worker on the call when its    *)
(* row is deleted, none of its objects is left.                            *)
ErasureLeavesNoObjects ==
    [][\A t \in Erasers :
         (EraseRow(t) /\ \A p \in Workers : Busy(p) => CallOf(p) # erasure[t].call)
            => objects[erasure[t].call] = {}]_vars

(* The same sentence, for the row: once erased it does not come back       *)
(* unless a webhook for the call is handled afterwards.                    *)
WorkersNeverRevive ==
    [][\A c \in Calls :
         (~Exists(c) /\ "erased" \in mishaps[c] /\ job' # job) => calls'[c] = NoItem]_vars

(* README: the worker "retries failures up to WORKER_MAX_RETRY_COUNT and   *)
(* then marks the call failed": no message ends in the dead-letter queue   *)
(* with its call still waiting for a retry.                                *)
DeadLettersAreNotQueued ==
    \A i \in Slots :
        msgs[i].state = "dead" => ~HasStatus(msgs[i].event.call, "queued")

(* README: the worker stores, analyses, syncs "and emails a presigned      *)
(* report URL": a message of a completed call is deleted after the mail.   *)
DeletedIsMailed ==
    \A i \in Slots :
        (msgs[i].state = "deleted" /\ HasStatus(msgs[i].event.call, "completed"))
            => msgs[i].event.call \in mailed

(*------------------------------ refinement ------------------------------*)

(* The promise of JobContract, with every message of the queue a job.      *)
Stage(state) ==
    CASE state = "unsent" -> "absent"
      [] state = "visible" -> "waiting"
      [] state = "inflight" -> "taken"
      [] state = "deleted" -> "settled"
      [] state = "dead" -> "set aside"

(* process takes an event's "completed" for its own.                        *)
Declared(c) == IF "completed" \in mishaps[c] THEN {"declared"} ELSE {}

Contract == INSTANCE JobContract WITH
    Jobs          <- Slots,
    Subjects      <- Calls,
    MaxDeliveries <- MaxReceive,
    Verdicts      <- Outcomes,
    stage         <- [i \in Slots |-> Stage(msgs[i].state)],
    deliveries    <- [i \in Slots |-> msgs[i].receives],
    subject       <- [i \in Slots |-> IF msgs[i].state = "unsent" THEN "nothing"
                                      ELSE msgs[i].event.call],
    verdicts      <- [c \in Calls |-> outcomes[c] \cup Declared(c)]

(* run deletes a message only after an outcome for its call was concluded  *)
(* (report published, retries exhausted, row found missing) or an event of *)
(* Vapi's said that it is completed, the redrive policy sets one aside     *)
(* only when its receives are spent, and none is ever taken from two       *)
(* states at once: the queue and the worker keep the safety part of        *)
(* JobContract.                                                            *)
KeepsContract == Contract!Spec

(* No message stays in the queue for ever, even when every processing of   *)
(* it crashes: each crash costs a receive, and receives are limited.       *)
EveryMessageLeaves == Contract!EveryJobLeaves
==============================================================================
