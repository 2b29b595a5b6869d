------------------------ MODULE CallPipelineProofs ------------------------
(***************************************************************************)
(* For every set of calls, events, processes and every bound: the pipeline *)
(* keeps its types, lets two workers at one call only when one of them     *)
(* outlived its receipt, and never leaves a call queued without a message. *)
(***************************************************************************)
EXTENDS CallPipeline, TLAPS

(* A worker that works on something works on a slot that was sent, and the *)
(* failure handler knows the row it counts the retry of.                   *)
Custody ==
    \A p \in Workers :
        /\ Busy(p) => job[p].slot \in Slots /\ msgs[job[p].slot].state # "unsent"
        /\ job[p].pc \in {"fail_read", "fail_write"} => job[p].got \in Item

TypeInv == TypeOK /\ Custody

(*--------------------------- the rows written ---------------------------*)

(* Every row the code writes is a row.                                     *)
LEMMA RowTypes ==
    ASSUME NEW seen \in Snapshot
    PROVE  /\ Base(seen) \in Item
           /\ Published(seen) \in Item
           /\ \A n \in Nat : Failed(seen, n) \in Item
           /\ \A e \in Events : Updated(seen, e) \in Item /\ NewItem(e) \in Item
<1>1. EmptyItem \in Item
  BY DEF EmptyItem, Item, Statuses, OwnStatuses, Providers, Directions
<1>2. Base(seen) \in Item
  BY <1>1 DEF Base, Snapshot
<1>3. Published(seen) \in Item
  BY <1>2 DEF Published, Item, Statuses, OwnStatuses
<1>4. ASSUME NEW n \in Nat PROVE Failed(seen, n) \in Item
  BY <1>2 DEF Failed, Item, Statuses, OwnStatuses
<1>5. ASSUME NEW e \in Events PROVE Updated(seen, e) \in Item
  <2>1. e \in Event
    BY WebhooksAssumption
  <2> QED BY <1>2, <2>1 DEF Updated, Item, Statuses, OwnStatuses, Event
<1>6. ASSUME NEW e \in Events PROVE NewItem(e) \in Item
  <2>1. e \in Event
    BY WebhooksAssumption
  <2>2. e.tenant \in Tenants /\ e.direction \in Directions /\ e.recorded \in BOOLEAN
        /\ e.status \in Statuses /\ e.source \in {"vapi", "call_center", "start"}
    BY <2>1 DEF Event, Statuses, Directions
  <2> QED BY <1>1, <2>2 DEF NewItem, Item, Statuses, OwnStatuses, Providers, Directions
<1> QED BY <1>2, <1>3, <1>4, <1>5, <1>6

LEMMA UpsertTypes ==
    ASSUME StoreTypeOK, NEW c \in Calls, NEW seen, NEW item \in Item,
           NEW said \in SUBSET Mishaps, Upsert(c, seen, item, said)
    PROVE  calls' \in [Calls -> Snapshot] /\ mishaps' \in [Calls -> SUBSET Mishaps]
BY DEF StoreTypeOK, Upsert, Snapshot, Mishaps

LEMMA OwnWordsTypes == \A e : OwnWords(e) \in SUBSET Mishaps
BY DEF OwnWords, Mishaps

(* Deleting a message that was sent leaves the queue well-formed.          *)
LEMMA DeleteTypes ==
    ASSUME QueueTypeOK, NEW i \in Slots, msgs[i].state # "unsent", Delete(i)
    PROVE  /\ QueueTypeOK'
           /\ \A j \in Slots : msgs[j].state # "unsent" => msgs'[j].state # "unsent"
BY DEF Delete, QueueTypeOK, Message, MessageStates

(* The updates worker steps make to their own locals.                      *)
LEMMA JobTypes ==
    /\ IdleJob \in Job /\ DownJob \in Job
    /\ \A j \in Job, seen \in Snapshot, pc \in ProcessSteps \cup HandlerSteps :
         [j EXCEPT !.pc = pc, !.seen = seen] \in Job
BY DEF IdleJob, DownJob, Job, Snapshot

(* What a busy worker's slot and call are.                                 *)
LEMMA BusyCall ==
    ASSUME TypeInv, NEW p \in Workers, Busy(p)
    PROVE  /\ job[p].slot \in Slots /\ msgs[job[p].slot].state # "unsent"
           /\ msgs[job[p].slot].event \in Events
           /\ CallOf(p) \in Calls
           /\ msgs[job[p].slot].event.tenant = TenantOf[CallOf(p)]
BY WebhooksAssumption DEF TypeInv, TypeOK, Custody, QueueTypeOK, CallOf, Event

(*---------------------------- type invariance ---------------------------*)

LEMMA InitType == Init => TypeInv
<1> SUFFICES ASSUME Init PROVE TypeInv
  OBVIOUS
<1>1. StoreTypeOK /\ QueueTypeOK
  BY QueueAssumption DEF Init, StoreInit, QueueInit, StoreTypeOK, QueueTypeOK, Snapshot,
     Message, MessageStates
<1>2. WorkTypeOK /\ Custody
  BY DEF Init, WorkInit, WorkTypeOK, Custody, Job, IdleJob, Busy, Snapshot
<1>3. ApiTypeOK
  BY WebhooksAssumption DEF Init, ApiInit, ApiTypeOK, Handler, IdleHandler, DialStates, Snapshot
<1>4. ErasureTypeOK
  BY DEF Init, ErasureInit, ErasureTypeOK, Erasing, IdleErasure
<1> QED BY <1>1, <1>2, <1>3, <1>4 DEF TypeInv, TypeOK

LEMMA WorkerType ==
    ASSUME TypeInv, NEW p \in Workers, WorkerActs(p)
    PROVE  TypeInv'
<1> USE DEF TypeInv, TypeOK
<1>0. ApiTypeOK' /\ ErasureTypeOK'
  BY DEF WorkerActs, apiVars, ApiTypeOK, ErasureTypeOK, EventOf
<1>1. CASE Receive(p)
  <2>1. PICK i \in Slots : Take(i) /\ job' = [job EXCEPT ![p] =
             [IdleJob EXCEPT !.pc = "load", !.slot = i, !.receipt = msgs'[i].receives]]
    BY <1>1 DEF Receive
  <2>2. QueueTypeOK' /\ msgs'[i].receives \in Nat /\ msgs'[i].state = "inflight"
    BY <2>1 DEF QueueTypeOK, Take, Receivable, Message, MessageStates
  <2>3. StoreTypeOK'
    <3>1. "overlap" \in Mishaps
      BY DEF Mishaps
    <3>2. PICK k \in Slots, noted \in SUBSET {"overlap"} :
              mishaps' = [mishaps EXCEPT ![msgs[k].event.call] = @ \cup noted]
      BY <1>1 DEF Receive
    <3>3. calls' = calls /\ objects' = objects
      BY <1>1 DEF Receive
    <3> QED BY <3>1, <3>2, <3>3 DEF StoreTypeOK
  <2>5. WorkTypeOK'
    BY <1>1, <2>1, <2>2 DEF Receive, WorkTypeOK, Job, IdleJob, Snapshot, ProcessSteps
  <2>4. Custody'
    BY <2>1, <2>2 DEF Custody, Busy, IdleJob, Take, QueueTypeOK, Message, WorkTypeOK, Job
  <2> QED BY <1>0, <2>2, <2>3, <2>4, <2>5
<1>2. CASE Proceed(p)
  <2>0. Busy(p) /\ CallOf(p) \in Calls /\ job[p].slot \in Slots
        /\ msgs[job[p].slot].state # "unsent"
    <3>1. Busy(p)
      BY <1>2 DEF Proceed, Busy, Load, StoreObject, SyncCrm, MarkRead, MarkWrite,
         SendReport, Ack, StepFails, AckLost, FailLoad, FailRead, Requeue, GiveUp, Drop,
         DropRaises, ProcessSteps, Kinds
    <3> QED BY <3>1, BusyCall
  <2>1. calls[CallOf(p)] \in Snapshot
    BY <2>0 DEF StoreTypeOK
  <2>2. CASE Load(p) \/ StepFails(p) \/ SendReport(p) \/ SyncCrm(p) \/ StoreObject(p)
    <3>1. StoreTypeOK' /\ QueueTypeOK'
      BY <2>0, <2>2 DEF Load, StepFails, SendReport, SyncCrm, StoreObject, PutObject,
         storeVars, StoreTypeOK, QueueTypeOK
    <3>2. WorkTypeOK'
      BY <2>0, <2>2 DEF Load, StepFails, SendReport, SyncCrm, StoreObject, AfterLoad,
         StageAfter, Goto, WorkTypeOK, Job, ProcessSteps, HandlerSteps, Snapshot, Kinds
    <3>3. Custody'
      BY <2>0, <2>2 DEF Load, StepFails, SendReport, SyncCrm, StoreObject, AfterLoad,
         StageAfter, Goto, WorkTypeOK, Job, Custody, Busy, Kinds
    <3> QED BY <1>0, <3>1, <3>2, <3>3
  <2>3. CASE MarkRead(p) \/ FailRead(p) \/ FailLoad(p)
    <3>1. StoreTypeOK' /\ QueueTypeOK'
      BY <2>3 DEF MarkRead, FailRead, FailLoad, storeVars, StoreTypeOK, QueueTypeOK
    <3>2. WorkTypeOK'
      BY <2>0, <2>1, <2>3 DEF MarkRead, FailRead, FailLoad, Goto, Conclude, WorkTypeOK, Job,
         ProcessSteps, HandlerSteps, Outcomes
    <3>3. Custody'
      BY <2>0, <2>1, <2>3 DEF MarkRead, FailRead, FailLoad, Goto, WorkTypeOK, Job,
         Custody, Busy, Snapshot, Exists
    <3> QED BY <1>0, <3>1, <3>2, <3>3
  <2>4. CASE MarkWrite(p)
    <3>1. job[p].seen \in Snapshot
      BY DEF WorkTypeOK, Job
    <3>2. StoreTypeOK'
      <4>1. Upsert(CallOf(p), job[p].seen, Published(job[p].seen), {}) /\ objects' = objects
        BY <2>4 DEF MarkWrite
      <4>2. Published(job[p].seen) \in Item
        BY <3>1, RowTypes
      <4> QED BY <2>0, <4>1, <4>2, UpsertTypes DEF StoreTypeOK
    <3>3. QueueTypeOK' /\ crm' \subseteq Calls /\ mailed' \subseteq Calls
          /\ outcomes' \in [Calls -> SUBSET Outcomes]
      BY <2>0, <2>4 DEF MarkWrite, Conclude, WorkTypeOK, Outcomes, QueueTypeOK
    <3>5. job' \in [Workers -> Job]
      BY <2>4, JobTypes DEF MarkWrite, WorkTypeOK, ProcessSteps, Snapshot
    <3>4. Custody'
      BY <2>0, <2>4 DEF MarkWrite, Custody, Busy, WorkTypeOK, Job
    <3> QED BY <1>0, <3>2, <3>3, <3>4, <3>5 DEF WorkTypeOK
  <2>5. CASE Requeue(p) \/ GiveUp(p)
    <3>1. job[p].seen \in Snapshot /\ job[p].got \in Item
      BY <2>5 DEF WorkTypeOK, Job, Custody, Requeue, GiveUp
    <3>2. RetryCount(job[p].got) \in Nat
      BY <3>1 DEF RetryCount, Item
    <3>3. StoreTypeOK'
      <4>1. Upsert(CallOf(p), job[p].seen, Failed(job[p].seen, RetryCount(job[p].got)), {})
            /\ objects' = objects
        BY <2>5 DEF Requeue, GiveUp
      <4>2. Failed(job[p].seen, RetryCount(job[p].got)) \in Item
        BY <3>1, <3>2, RowTypes
      <4>3. PICK item \in Item : Upsert(CallOf(p), job[p].seen, item, {})
        BY <4>1, <4>2
      <4>4. calls' \in [Calls -> Snapshot] /\ mishaps' \in [Calls -> SUBSET Mishaps]
        BY <2>0, <4>3, UpsertTypes
      <4> QED BY <4>1, <4>4 DEF StoreTypeOK
    <3>4. WorkTypeOK' /\ QueueTypeOK'
      BY <2>0, <2>5 DEF Requeue, GiveUp, Finish, IdleJob, Conclude, WorkTypeOK, Job,
         HandlerSteps, Snapshot, Outcomes, QueueTypeOK
    <3>5. Custody'
      BY <2>0, <2>5 DEF Requeue, GiveUp, Finish, IdleJob, Custody, Busy, WorkTypeOK, Job
    <3> QED BY <1>0, <3>3, <3>4, <3>5
  <2>6. CASE Ack(p) \/ Drop(p)
    <3>1. Delete(job[p].slot) /\ Finish(p) /\ UNCHANGED <<storeVars, crm, mailed, outcomes>>
      BY <2>6 DEF Ack, Drop
    <3>2. QueueTypeOK' /\ \A i \in Slots : msgs[i].state # "unsent" => msgs'[i].state # "unsent"
      BY <2>0, <3>1, DeleteTypes
    <3>3. StoreTypeOK' /\ WorkTypeOK'
      BY <3>1 DEF StoreTypeOK, storeVars, Finish, IdleJob, WorkTypeOK, Job, Snapshot
    <3>4. Custody'
      BY <3>1, <3>2 DEF Finish, IdleJob, Custody, Busy, WorkTypeOK
    <3> QED BY <1>0, <3>2, <3>3, <3>4
  <2>7. CASE AckLost(p)
    <3>1. QueueTypeOK' /\ \A i \in Slots : msgs[i].state # "unsent" => msgs'[i].state # "unsent"
      BY <2>0, <2>7, DeleteTypes DEF AckLost
    <3>2. StoreTypeOK'
      BY <2>0, <2>7 DEF AckLost, StoreTypeOK, Mishaps
    <3>3. WorkTypeOK'
      BY <2>7 DEF AckLost, Goto, WorkTypeOK, Job, HandlerSteps
    <3>4. Custody'
      BY <2>0, <2>7, <3>1 DEF AckLost, Goto, Custody, Busy, WorkTypeOK, Job
    <3> QED BY <1>0, <3>1, <3>2, <3>3, <3>4
  <2>8. CASE DropRaises(p)
    BY <1>0, <2>8 DEF DropRaises, Exit, DownJob, IdleJob, WorkTypeOK, Job, Custody, Busy,
       StoreTypeOK, QueueTypeOK, storeVars, Snapshot
  <2> QED BY <1>2, <2>2, <2>3, <2>4, <2>5, <2>6, <2>7, <2>8 DEF Proceed
<1>3. CASE Crash(p) \/ Restart(p)
  <2>1. StoreTypeOK' /\ QueueTypeOK'
    BY <1>3 DEF Crash, Restart, storeVars, StoreTypeOK, QueueTypeOK
  <2>2. WorkTypeOK'
    BY <1>3, JobTypes DEF Crash, Restart, Exit, Finish, WorkTypeOK
  <2>3. Custody'
    BY <1>3 DEF Crash, Restart, Exit, Finish, DownJob, IdleJob, WorkTypeOK, Custody, Busy
  <2> QED BY <1>0, <2>1, <2>2, <2>3
<1> QED BY <1>1, <1>2, <1>3 DEF WorkerActs, WorkerStep

LEMMA ApiType ==
    ASSUME TypeInv, NEW p \in Apis, ApiActs(p)
    PROVE  TypeInv'
<1> USE DEF TypeInv, TypeOK
<1>0. WorkTypeOK' /\ ErasureTypeOK'
  BY DEF ApiActs, workVars, WorkTypeOK, ErasureTypeOK
<1>1. CASE \E e \in Events : VapiEvent(p, e) \/ CallCenterEvent(p, e) \/ ResumeStart(p, e)
  <2>1. PICK e \in Events : VapiEvent(p, e) \/ CallCenterEvent(p, e) \/ ResumeStart(p, e)
    BY <1>1
  <2>2. StoreTypeOK' /\ QueueTypeOK' /\ Custody'
    BY <1>0, <2>1 DEF VapiEvent, CallCenterEvent, ResumeStart, ApiActs, workVars, storeVars,
       StoreTypeOK, QueueTypeOK, Custody, Busy
  <2>3. e.call \in Calls
    BY WebhooksAssumption DEF Event
  <2>4. ApiTypeOK'
    BY <2>1, <2>3, WebhooksAssumption DEF VapiEvent, CallCenterEvent, ResumeStart, Begin,
       Arrives, Serving, ApiTypeOK, Handler, ApiSteps, DialStates, Snapshot, EventOf
  <2> QED BY <1>0, <2>2, <2>4
<1>2. ASSUME api[p].pc # "idle"
      PROVE  EventOf(p) \in Events /\ EventOf(p).call \in Calls /\ calls[EventOf(p).call] \in Snapshot
  BY <1>2, WebhooksAssumption DEF ApiTypeOK, StoreTypeOK, Event
<1>3. CASE CheckAbsent(p) \/ UpdateRead(p) \/ ApiFails(p)
  <2>1. EventOf(p) \in Events /\ EventOf(p).call \in Calls /\ calls[EventOf(p).call] \in Snapshot
    BY <1>2, <1>3 DEF CheckAbsent, UpdateRead, ApiFails, Serving, ApiSteps
  <2>2. StoreTypeOK' /\ QueueTypeOK' /\ Custody'
    BY <1>0, <1>3 DEF CheckAbsent, UpdateRead, ApiFails, ApiActs, workVars, storeVars,
       StoreTypeOK, QueueTypeOK, Custody, Busy
  <2>3. ApiTypeOK'
    BY <1>3, <2>1 DEF CheckAbsent, UpdateRead, ApiFails, Continue, Respond, ApiGoto, Answered,
       AfterConflict, ApiTypeOK, Handler, IdleHandler, ApiSteps, DialStates, Snapshot, EventOf
  <2> QED BY <1>0, <2>2, <2>3
<1>4. CASE Insert(p) \/ UpdateWrite(p)
  <2>1. EventOf(p) \in Events /\ EventOf(p).call \in Calls
    BY <1>2, <1>4 DEF Insert, UpdateWrite, Serving
  <2>2. api[p].seen \in Snapshot /\ NoItem \in Snapshot
    BY DEF ApiTypeOK, Handler, Snapshot
  <2>3. StoreTypeOK'
    <3>1. PICK seen \in Snapshot, item \in Item, said \in SUBSET Mishaps :
              Upsert(EventOf(p).call, seen, item, said)
      <4>1. OwnWords(EventOf(p)) \in SUBSET Mishaps /\ {} \in SUBSET Mishaps
        BY OwnWordsTypes
      <4>2. NewItem(EventOf(p)) \in Item /\ Updated(api[p].seen, EventOf(p)) \in Item
        BY <2>1, <2>2, RowTypes
      <4> QED BY <1>4, <2>2, <4>1, <4>2 DEF Insert, UpdateWrite
    <3>2. calls' \in [Calls -> Snapshot] /\ mishaps' \in [Calls -> SUBSET Mishaps]
      BY <2>1, <3>1, UpsertTypes
    <3> QED BY <1>4, <3>2 DEF Insert, UpdateWrite, StoreTypeOK
  <2>4. QueueTypeOK' /\ Custody'
    BY <1>0, <1>4 DEF Insert, UpdateWrite, ApiActs, workVars, QueueTypeOK, Custody, Busy
  <2>5. AfterInsert(EventOf(p)) \in {"idle"} \cup ApiSteps
    <3>1. EventOf(p).source \in {"vapi", "call_center", "start"}
      BY <2>1, WebhooksAssumption DEF Event
    <3> QED BY <3>1 DEF AfterInsert, ApiSteps
  <2>6. ApiTypeOK'
    BY <1>4, <2>1, <2>5 DEF Insert, UpdateWrite, Continue, Respond, ApiGoto, Answered,
       ApiTypeOK, Handler, IdleHandler, ApiSteps, DialStates, Snapshot, EventOf
  <2> QED BY <1>0, <2>3, <2>4, <2>6
<1>5. CASE Send(p) \/ SendLost(p)
  <2>1. EventOf(p) \in Events /\ EventOf(p).call \in Calls
    BY <1>2, <1>5 DEF Send, SendLost, Serving
  <2>2. StoreTypeOK'
    <3>1. CASE Send(p)
      BY <3>1 DEF Send, storeVars, StoreTypeOK
    <3>2. CASE SendLost(p)
      <4>1. "not sent" \in Mishaps
        BY DEF Mishaps
      <4> QED BY <2>1, <3>2, <4>1 DEF SendLost, StoreTypeOK
    <3> QED BY <1>5, <3>1, <3>2
  <2>3. QueueTypeOK' /\ \A i \in Slots : msgs[i].state # "unsent" => msgs'[i].state # "unsent"
    <3>1. CASE SendLost(p)
      BY <3>1 DEF SendLost, QueueTypeOK
    <3>2. CASE Send(p)
      <4>1. PICK i \in Slots :
               msgs' = [msgs EXCEPT ![i] =
                          [state |-> "visible", event |-> EventOf(p), receives |-> 0]]
        BY <3>2 DEF Send, Accept
      <4> QED BY <2>1, <4>1, QueueAssumption DEF QueueTypeOK, Message, MessageStates
    <3> QED BY <1>5, <3>1, <3>2
  <2>4. Custody'
    BY <1>0, <2>3 DEF ApiActs, workVars, Custody, Busy
  <2>5. ApiTypeOK'
    <3>1. Respond(p) /\ UNCHANGED <<dials, requests>>
      BY <1>5 DEF Send, SendLost
    <3> QED BY <3>1 DEF Respond, ApiTypeOK, Handler, IdleHandler, Snapshot, EventOf
  <2> QED BY <1>0, <2>2, <2>3, <2>4, <2>5
<1> QED BY <1>1, <1>3, <1>4, <1>5 DEF ApiActs, ApiStep, HandlerStep, HandlerProceeds

LEMMA EraserType ==
    ASSUME TypeInv, NEW t \in Erasers, EraserActs(t)
    PROVE  TypeInv'
<1> USE DEF TypeInv, TypeOK
<1>1. WorkTypeOK' /\ ApiTypeOK' /\ QueueTypeOK' /\ Custody'
  BY DEF EraserActs, workVars, apiVars, WorkTypeOK, ApiTypeOK, QueueTypeOK, Custody, Busy, EventOf
<1>2. CASE \E c \in Calls : EraseBegin(t, c)
  <2>1. PICK c \in Calls : EraseBegin(t, c)
    BY <1>2
  <2>2. StoreTypeOK'
    BY <2>1 DEF EraseBegin, StoreTypeOK, Mishaps
  <2>3. FirstErasure(calls[c]) \in {"row"} \cup Kinds
    BY DEF FirstErasure, Kinds
  <2>4. ErasureTypeOK'
    BY <2>1, <2>3 DEF EraseBegin, ErasureTypeOK, Erasing
  <2> QED BY <1>1, <2>2, <2>4
<1>3. CASE EraseObject(t)
  BY <1>1, <1>3 DEF EraseObject, DeleteObject, EraserGoto, NextErasure, StoreTypeOK,
     ErasureTypeOK, Erasing, Kinds
<1>4. CASE EraseRow(t)
  BY <1>1, <1>4 DEF EraseRow, DeleteRow, EraserDone, IdleErasure, StoreTypeOK, ErasureTypeOK,
     Erasing,
     Snapshot, Mishaps
<1>5. CASE EraseFails(t)
  BY <1>1, <1>5 DEF EraseFails, EraserDone, IdleErasure, StoreTypeOK, ErasureTypeOK, Erasing,
     storeVars
<1> QED BY <1>2, <1>3, <1>4, <1>5 DEF EraserActs, EraserStep

LEMMA QueueType ==
    ASSUME TypeInv, NEW i \in Slots, VisibilityTimeout(i) \/ DeadLetter(i)
    PROVE  TypeInv'
<1> USE DEF TypeInv, TypeOK
<1>1. StoreTypeOK' /\ WorkTypeOK' /\ ApiTypeOK' /\ ErasureTypeOK'
  BY DEF VisibilityTimeout, DeadLetter, storeVars, workVars, apiVars, StoreTypeOK, WorkTypeOK,
     ApiTypeOK, ErasureTypeOK, EventOf
<1>2. QueueTypeOK' /\ \A j \in Slots : msgs[j].state # "unsent" => msgs'[j].state # "unsent"
  BY DEF VisibilityTimeout, DeadLetter, Expire, Redrive, QueueTypeOK, Message, MessageStates
<1>3. Custody'
  BY <1>2 DEF VisibilityTimeout, DeadLetter, workVars, Custody, Busy
<1> QED BY <1>1, <1>2, <1>3

LEMMA DialType ==
    ASSUME TypeInv, DialOut
    PROVE  TypeInv'
<1> USE DEF TypeInv, TypeOK
<1>1. PICK e \in Events : Dial(e)
  BY DEF DialOut
<1>2. StoreTypeOK' /\ QueueTypeOK' /\ WorkTypeOK' /\ ErasureTypeOK' /\ Custody'
  BY <1>1 DEF Dial, DialOut, storeVars, workVars, StoreTypeOK, QueueTypeOK, WorkTypeOK,
     ErasureTypeOK, Custody, Busy
<1>3. ApiTypeOK'
  <2>1. e.call \in Calls
    BY WebhooksAssumption DEF Event
  <2>2. requests' \in 0..MaxRequests
    BY <1>1, WebhooksAssumption DEF Dial, ApiTypeOK
  <2> QED BY <1>1, <2>1, <2>2 DEF Dial, ApiTypeOK, DialStates, EventOf
<1> QED BY <1>2, <1>3

LEMMA StutterType == TypeInv /\ UNCHANGED vars => TypeInv'
BY DEF TypeInv, TypeOK, vars, storeVars, workVars, apiVars, StoreTypeOK, QueueTypeOK, WorkTypeOK,
   ApiTypeOK, ErasureTypeOK, Custody, Busy, EventOf

LEMMA NextType == TypeInv /\ [Next]_vars => TypeInv'
BY WorkerType, ApiType, EraserType, QueueType, DialType, StutterType DEF Next

(* Every variable keeps its shape, for all constants.                      *)
THEOREM TypeCorrect == Spec => []TypeOK
<1>1. TypeInv => TypeOK
  BY DEF TypeInv
<1> QED BY <1>1, InitType, NextType, PTL DEF Spec

(*--------------------- the queue's inductive invariant ------------------*)

(* A worker's message is still in some queue.                              *)
HeldMessages ==
    \A p \in Workers : (Busy(p) /\ QueueSound(CallOf(p))) => Kept(job[p].slot)

(* That two workers are on one call was noted.                             *)
OverlapsAreNoted ==
    \A p, q \in Workers :
        (p # q /\ Busy(p) /\ Busy(q) /\ CallOf(p) = CallOf(q)) => "overlap" \in mishaps[CallOf(p)]

(* A worker that goes on to delete its message leaves no queued call       *)
(* behind, unless something other than that message backs it.              *)
Settling(p) == job[p].pc \in {"email", "ack", "drop"}

BackedBesides(c, k) ==
    SendPending(c) \/ \E i \in Slots : i # k /\ Kept(i) /\ Carries(i, c)

SettledSafely ==
    \A p \in Workers :
        (Settling(p) /\ QueueSound(CallOf(p)) /\ HasStatus(CallOf(p), "queued"))
            => BackedBesides(CallOf(p), job[p].slot)

QueueInv == HeldMessages /\ OverlapsAreNoted /\ SettledSafely /\ QueuedIsBacked

(* No two messages of a group are in flight, and no two workers were given *)
(* the same receipt.                                                       *)
OneInFlight ==
    \A i, j \in Slots :
        (i # j /\ msgs[i].state = "inflight" /\ msgs[j].state = "inflight") => ~SameGroup(i, j)

Receipts ==
    /\ \A p \in Workers : Busy(p) => job[p].receipt <= msgs[job[p].slot].receives
    /\ \A p, q \in Workers :
         (p # q /\ Busy(p) /\ Busy(q) /\ job[p].slot = job[q].slot)
             => job[p].receipt # job[q].receipt

ReceiptInv == OneInFlight /\ Receipts

(*------------------- what a step does to the queue ----------------------*)

Deleter(p) == Ack(p) \/ Drop(p) \/ AckLost(p)

SameTask(q) == job'[q].slot = job[q].slot /\ job'[q].receipt = job[q].receipt

(* The steps that leave the messages alone also give no worker a new one.  *)
Quiet ==
    /\ msgs' = msgs
    /\ \A q \in Workers : Busy(q)' => Busy(q) /\ SameTask(q)

Takes(p, i) ==
    /\ Take(i)
    /\ ~Busy(p)
    /\ \A q \in Workers \ {p} : job'[q] = job[q]
    /\ job'[p].slot = i /\ job'[p].receipt = msgs'[i].receives
    /\ \A q \in Workers :
         Busy(q) /\ CallOf(q) = msgs[i].event.call => "overlap" \in mishaps'[CallOf(q)]

Deletes(p) ==
    /\ Deleter(p)
    /\ Delete(job[p].slot)
    /\ \A q \in Workers \ {p} : job'[q] = job[q]
    /\ Busy(p)' => AckLost(p) /\ SameTask(p)

Queues(p) ==
    /\ Send(p)
    /\ Accept(EventOf(p))
    /\ job' = job

Shifts(i) == (VisibilityTimeout(i) \/ DeadLetter(i)) /\ job' = job

QueueStep ==
    \/ Quiet
    \/ \E p \in Workers, i \in Slots : Takes(p, i)
    \/ \E p \in Workers : Deletes(p)
    \/ \E p \in Apis : Queues(p)
    \/ \E i \in Slots : Shifts(i)

LEMMA WorkerQueueStep ==
    ASSUME TypeInv, NEW p \in Workers, WorkerActs(p)
    PROVE  QueueStep
<1> USE DEF TypeInv, TypeOK
<1>0. job \in [Workers -> Job]
  BY DEF WorkTypeOK
<1>1. CASE Receive(p)
  <2>1. PICK i \in Slots :
            /\ Take(i)
            /\ job' = [job EXCEPT ![p] =
                  [IdleJob EXCEPT !.pc = "load", !.slot = i, !.receipt = msgs'[i].receives]]
            /\ mishaps' = [mishaps EXCEPT ![msgs[i].event.call] =
                  @ \cup (IF Overlaps(msgs[i].event.call) THEN {"overlap"} ELSE {})]
    BY <1>1 DEF Receive
  <2>2. \A q \in Workers :
          Busy(q) /\ CallOf(q) = msgs[i].event.call => "overlap" \in mishaps'[CallOf(q)]
    <3>1. SUFFICES ASSUME NEW q \in Workers, Busy(q), CallOf(q) = msgs[i].event.call
                   PROVE  "overlap" \in mishaps'[CallOf(q)]
      OBVIOUS
    <3>2. CallOf(q) \in Calls
      BY <3>1, BusyCall
    <3>3. mishaps' = [mishaps EXCEPT ![CallOf(q)] = @ \cup {"overlap"}]
      BY <2>1, <3>1 DEF Overlaps
    <3> QED BY <3>2, <3>3 DEF StoreTypeOK
  <2>3. Takes(p, i)
    BY <1>0, <1>1, <2>1, <2>2 DEF Receive, Takes, Busy, IdleJob
  <2> QED BY <2>3 DEF QueueStep
<1>2. CASE Deleter(p)
  <2>1. Delete(job[p].slot)
    BY <1>2 DEF Deleter, Ack, Drop, AckLost
  <2>2. CASE Ack(p) \/ Drop(p)
    <3>1. job' = [job EXCEPT ![p] = IdleJob]
      BY <2>2 DEF Ack, Drop, Finish
    <3>2. ~Busy(p)' /\ \A q \in Workers \ {p} : job'[q] = job[q]
      BY <1>0, <3>1 DEF Busy, IdleJob
    <3> QED BY <1>2, <2>1, <3>2 DEF Deletes, QueueStep
  <2>3. CASE AckLost(p)
    <3>1. SameTask(p) /\ \A q \in Workers \ {p} : job'[q] = job[q]
      BY <1>0, <2>3 DEF AckLost, Goto, Job, SameTask
    <3> QED BY <1>2, <2>1, <2>3, <3>1 DEF Deletes, QueueStep
  <2> QED BY <1>2, <2>2, <2>3 DEF Deleter
<1>3. CASE Load(p) \/ StoreObject(p) \/ SyncCrm(p) \/ MarkRead(p) \/ MarkWrite(p) \/ SendReport(p)
           \/ StepFails(p)
  BY <1>0, <1>3 DEF Load, StoreObject, SyncCrm, MarkRead, MarkWrite, SendReport, StepFails, Goto,
     Job, Quiet, SameTask, QueueStep, Busy, ProcessSteps, Kinds, storeVars
<1>4. CASE FailLoad(p) \/ FailRead(p) \/ Requeue(p) \/ GiveUp(p) \/ DropRaises(p)
  BY <1>0, <1>4 DEF FailLoad, FailRead, Requeue, GiveUp, DropRaises, Goto, Finish, Exit, IdleJob,
     DownJob, Job, Quiet, SameTask, QueueStep, Busy, storeVars
<1>5. CASE Crash(p) \/ Restart(p)
  BY <1>0, <1>5 DEF Crash, Restart, Finish, Exit, IdleJob, DownJob, Job, Quiet, SameTask, QueueStep, Busy,
     storeVars
<1> QED BY <1>1, <1>2, <1>3, <1>4, <1>5 DEF WorkerActs, WorkerStep, Proceed, Deleter

LEMMA EveryQueueStep ==
    ASSUME TypeInv, Next
    PROVE  QueueStep
<1>1. CASE \E p \in Workers : WorkerActs(p)
  BY <1>1, WorkerQueueStep
<1>2. CASE \E p \in Apis : ApiActs(p)
  <2>1. PICK p \in Apis : ApiActs(p)
    BY <1>2
  <2>2. CASE Send(p)
    BY <2>1, <2>2 DEF ApiActs, workVars, Send, Queues, QueueStep
  <2>3. CASE ~Send(p)
    BY <2>1, <2>3 DEF ApiActs, ApiStep, HandlerStep, HandlerProceeds, workVars, VapiEvent,
       CallCenterEvent, ResumeStart,
       CheckAbsent, Insert, UpdateRead, UpdateWrite, SendLost, ApiFails, Quiet, SameTask, QueueStep, Busy
  <2> QED BY <2>2, <2>3
<1>3. CASE DialOut
  BY <1>3 DEF DialOut, Dial, workVars, Quiet, SameTask, QueueStep, Busy
<1>4. CASE \E t \in Erasers : EraserActs(t)
  BY <1>4 DEF EraserActs, workVars, Quiet, SameTask, QueueStep, Busy
<1>5. CASE \E i \in Slots : VisibilityTimeout(i) \/ DeadLetter(i)
  BY <1>5 DEF VisibilityTimeout, DeadLetter, workVars, Shifts, QueueStep
<1> QED BY <1>1, <1>2, <1>3, <1>4, <1>5 DEF Next

LEMMA UpsertMonotone ==
    ASSUME TypeInv, NEW c, NEW seen, NEW item, NEW said, Upsert(c, seen, item, said)
    PROVE  \A d \in Calls : mishaps[d] \subseteq mishaps'[d]
BY DEF Upsert, TypeInv, TypeOK, StoreTypeOK

(* Sent messages keep their content, and no step undoes a mishap.          *)
LEMMA Monotone ==
    ASSUME TypeInv, Next
    PROVE  /\ \A i \in Slots : msgs[i].state # "unsent" =>
                msgs'[i].state # "unsent" /\ msgs'[i].event = msgs[i].event
           /\ \A c \in Calls : mishaps[c] \subseteq mishaps'[c] /\ (QueueSound(c)' => QueueSound(c))
<1> USE DEF TypeInv, TypeOK
<1>1. \A i \in Slots : msgs[i].state # "unsent" =>
          msgs'[i].state # "unsent" /\ msgs'[i].event = msgs[i].event
  <2>1. CASE Quiet
    BY <2>1 DEF Quiet
  <2>2. CASE \E p \in Workers, i \in Slots : Takes(p, i)
    BY <2>2 DEF Takes, Take, Receivable, QueueTypeOK, Message
  <2>3. CASE \E p \in Workers : Deletes(p)
    BY <2>3 DEF Deletes, Delete, QueueTypeOK, Message
  <2>4. CASE \E p \in Apis : Queues(p)
    BY <2>4 DEF Queues, Accept, QueueTypeOK, Message
  <2>5. CASE \E i \in Slots : Shifts(i)
    BY <2>5 DEF Shifts, VisibilityTimeout, DeadLetter, Expire, Redrive, QueueTypeOK, Message
  <2> QED BY <2>1, <2>2, <2>3, <2>4, <2>5, EveryQueueStep DEF QueueStep
<1>2. \A c \in Calls : mishaps[c] \subseteq mishaps'[c]
  <2>1. CASE \E p \in Workers : WorkerActs(p)
    <3>1. PICK p \in Workers : WorkerActs(p)
      BY <2>1
    <3>2. CASE MarkWrite(p) \/ Requeue(p) \/ GiveUp(p)
      BY <3>2, UpsertMonotone DEF MarkWrite, Requeue, GiveUp
    <3>3. CASE AckLost(p)
      BY <3>3 DEF AckLost, StoreTypeOK
    <3>5. CASE Receive(p)
      BY <3>5 DEF Receive, StoreTypeOK
    <3>4. CASE ~(MarkWrite(p) \/ Requeue(p) \/ GiveUp(p) \/ AckLost(p) \/ Receive(p))
      <4>1. mishaps' = mishaps
        BY <3>1, <3>4 DEF WorkerActs, WorkerStep, Proceed, Load, StoreObject, SyncCrm,
           MarkRead, SendReport, Ack, StepFails, FailLoad, FailRead, Drop, DropRaises, Crash,
           Restart, storeVars
      <4> QED BY <4>1
    <3> QED BY <3>2, <3>3, <3>4, <3>5
  <2>2. CASE \E p \in Apis : ApiActs(p)
    <3>1. PICK p \in Apis : ApiActs(p)
      BY <2>2
    <3>2. CASE Insert(p) \/ UpdateWrite(p)
      BY <3>2, UpsertMonotone DEF Insert, UpdateWrite
    <3>3. CASE SendLost(p)
      BY <3>3 DEF SendLost, StoreTypeOK
    <3>4. CASE ~(Insert(p) \/ UpdateWrite(p) \/ SendLost(p))
      <4>1. mishaps' = mishaps
        BY <3>1, <3>4 DEF ApiActs, ApiStep, HandlerStep, HandlerProceeds, VapiEvent,
           CallCenterEvent, ResumeStart, CheckAbsent,
           UpdateRead, Send, ApiFails, storeVars
      <4> QED BY <4>1
    <3> QED BY <3>2, <3>3, <3>4
  <2>3. CASE \E t \in Erasers : EraserActs(t)
    BY <2>3 DEF EraserActs, EraserStep, EraseBegin, EraseObject, EraseRow, DeleteRow, EraseFails,
       storeVars,
       StoreTypeOK
  <2>4. CASE DialOut \/ \E i \in Slots : VisibilityTimeout(i) \/ DeadLetter(i)
    BY <2>4 DEF DialOut, Dial, VisibilityTimeout, DeadLetter, storeVars
  <2> QED BY <2>1, <2>2, <2>3, <2>4 DEF Next
<1>3. \A c \in Calls : QueueSound(c)' => QueueSound(c)
  BY <1>2 DEF QueueSound
<1> QED BY <1>1, <1>2, <1>3

(* A worker that stays busy stays with its message, and its call.          *)
LEMMA SameCall ==
    ASSUME TypeInv, Next, NEW p \in Workers, Busy(p), job'[p].slot = job[p].slot
    PROVE  CallOf(p)' = CallOf(p) /\ CallOf(p) \in Calls
BY BusyCall, Monotone DEF CallOf

(*------------------------ one worker per call ---------------------------*)

LEMMA HeldMessagesStep ==
    ASSUME TypeInv, TypeInv', HeldMessages, OverlapsAreNoted, Next
    PROVE  HeldMessages'
<1> SUFFICES ASSUME NEW q \in Workers, Busy(q)', QueueSound(CallOf(q))'
             PROVE  Kept(job[q].slot)'
  BY DEF HeldMessages
<1>0. msgs \in [Slots -> Message]
  BY DEF TypeInv, TypeOK, QueueTypeOK
<1>1. ASSUME Busy(q), job'[q].slot = job[q].slot
      PROVE  /\ Kept(job[q].slot) /\ job[q].slot \in Slots
             /\ QueueSound(CallOf(q)) /\ CallOf(q) = CallOf(q)'
  BY <1>1, SameCall, Monotone, BusyCall DEF HeldMessages
<1>2. CASE Quiet
  BY <1>1, <1>2 DEF Quiet, SameTask, Kept
<1>3. CASE \E p \in Workers, i \in Slots : Takes(p, i)
  <2>1. PICK p \in Workers, i \in Slots : Takes(p, i)
    BY <1>3
  <2>2. msgs'[i].state = "inflight" /\ \A j \in Slots \ {i} : msgs'[j] = msgs[j]
    BY <1>0, <2>1 DEF Takes, Take, Message
  <2>3. CASE q = p
    BY <2>1, <2>2, <2>3 DEF Takes, Kept
  <2>4. CASE q # p
    <3>1. Busy(q) /\ job'[q].slot = job[q].slot
      BY <2>1, <2>4 DEF Takes, Busy
    <3> QED BY <1>1, <2>2, <3>1 DEF Kept
  <2> QED BY <2>3, <2>4
<1>4. CASE \E p \in Workers : Deletes(p)
  <2>1. PICK p \in Workers : Deletes(p)
    BY <1>4
  <2>2. Busy(p) /\ job[p].slot \in Slots /\ CallOf(p) \in Calls
    BY <2>1, BusyCall DEF Deletes, Deleter, Ack, Drop, AckLost, Busy
  <2>3. q # p
    <3>1. SUFFICES ASSUME q = p PROVE FALSE
      OBVIOUS
    <3>2. AckLost(p) /\ CallOf(q)' = CallOf(p)
      BY <2>1, <2>2, <3>1, SameCall DEF Deletes, SameTask
    <3>3. "ack lost" \in mishaps'[CallOf(p)]
      BY <2>2, <3>2 DEF AckLost, TypeInv, TypeOK, StoreTypeOK
    <3> QED BY <3>2, <3>3 DEF QueueSound
  <2>4. Busy(q) /\ job'[q].slot = job[q].slot
    BY <2>1, <2>3 DEF Deletes, Busy
  <2>5. job[q].slot # job[p].slot
    BY <1>1, <2>2, <2>3, <2>4 DEF OverlapsAreNoted, QueueSound, CallOf
  <2>6. msgs'[job[q].slot] = msgs[job[q].slot]
    BY <1>0, <1>1, <2>1, <2>2, <2>4, <2>5 DEF Deletes, Delete
  <2> QED BY <1>1, <2>4, <2>6 DEF Kept
<1>5. CASE \E p \in Apis : Queues(p)
  <2>1. Busy(q) /\ job'[q].slot = job[q].slot
    BY <1>5 DEF Queues, Busy
  <2>2. msgs'[job[q].slot] = msgs[job[q].slot]
    BY <1>0, <1>1, <1>5, <2>1, BusyCall DEF Queues, Accept
  <2> QED BY <1>1, <2>1, <2>2 DEF Kept
<1>6. CASE \E i \in Slots : Shifts(i)
  <2>1. PICK i \in Slots : Shifts(i)
    BY <1>6
  <2>2. Busy(q) /\ job'[q].slot = job[q].slot
    BY <2>1 DEF Shifts, Busy
  <2>3. CASE VisibilityTimeout(i)
    BY <1>0, <1>1, <2>2, <2>3 DEF VisibilityTimeout, Expire, Holds, Kept, Message
  <2>4. CASE DeadLetter(i)
    BY <1>0, <1>1, <2>2, <2>4 DEF DeadLetter, Redrive, Kept, Message
  <2> QED BY <2>1, <2>3, <2>4 DEF Shifts
<1> QED BY <1>2, <1>3, <1>4, <1>5, <1>6, EveryQueueStep DEF QueueStep

LEMMA OverlapsStep ==
    ASSUME TypeInv, OverlapsAreNoted, Next
    PROVE  OverlapsAreNoted'
<1> SUFFICES ASSUME NEW p \in Workers, NEW q \in Workers, p # q, Busy(p)', Busy(q)',
                    CallOf(p)' = CallOf(q)'
             PROVE  "overlap" \in mishaps'[CallOf(p)']
  BY DEF OverlapsAreNoted
<1>1. ASSUME Busy(p), job'[p].slot = job[p].slot, Busy(q), job'[q].slot = job[q].slot
      PROVE  "overlap" \in mishaps'[CallOf(p)']
  <2>1. CallOf(p)' = CallOf(p) /\ CallOf(q)' = CallOf(q) /\ CallOf(p) \in Calls
    BY <1>1, SameCall
  <2> QED BY <1>1, <2>1, Monotone DEF OverlapsAreNoted
<1>2. ASSUME NEW r \in Workers, NEW s \in Workers, NEW i \in Slots, r # s, Takes(r, i),
             Busy(s)', CallOf(s)' = CallOf(r)'
      PROVE  "overlap" \in mishaps'[CallOf(s)']
  <2>1. Busy(s) /\ job'[s].slot = job[s].slot
    BY <1>2 DEF Takes, Busy
  <2>2. CallOf(s)' = CallOf(s)
    BY <2>1, SameCall
  <2>3. CallOf(r)' = msgs[i].event.call
    <3>1. msgs[i].state = "visible"
      BY <1>2 DEF Takes, Take, Receivable
    <3>2. msgs'[i].event = msgs[i].event
      BY <3>1, Monotone
    <3> QED BY <1>2, <3>2 DEF Takes, CallOf
  <2> QED BY <1>2, <2>1, <2>2, <2>3 DEF Takes
<1>3. CASE Quiet
  BY <1>1, <1>3 DEF Quiet, SameTask
<1>4. CASE \E r \in Workers, i \in Slots : Takes(r, i)
  <2>1. PICK r \in Workers, i \in Slots : Takes(r, i)
    BY <1>4
  <2>2. CASE r = p
    BY <1>2, <2>1, <2>2
  <2>3. CASE r = q
    BY <1>2, <2>1, <2>3
  <2>4. CASE r # p /\ r # q
    BY <1>1, <2>1, <2>4 DEF Takes, Busy
  <2> QED BY <2>2, <2>3, <2>4
<1>5. CASE \E r \in Workers : Deletes(r)
  <2>1. PICK r \in Workers : Deletes(r)
    BY <1>5
  <2>2. Busy(r)
    BY <2>1 DEF Deletes, Deleter, Ack, Drop, AckLost, Busy
  <2>3. \A s \in Workers : Busy(s)' => Busy(s) /\ job'[s].slot = job[s].slot
    BY <2>1, <2>2 DEF Deletes, SameTask, Busy
  <2> QED BY <1>1, <2>3
<1>6. CASE (\E r \in Apis : Queues(r)) \/ (\E i \in Slots : Shifts(i))
  BY <1>1, <1>6 DEF Queues, Shifts, Busy
<1> QED BY <1>3, <1>4, <1>5, <1>6, EveryQueueStep DEF QueueStep

(* The message groups: a message is taken while nothing of its group is in *)
(* flight, and a message is given its group once.                          *)
LEMMA OneInFlightStep ==
    ASSUME TypeInv, OneInFlight, Next
    PROVE  OneInFlight'
<1> SUFFICES ASSUME NEW i \in Slots, NEW j \in Slots, i # j,
                    msgs'[i].state = "inflight", msgs'[j].state = "inflight"
             PROVE  msgs'[i].event.tenant # msgs'[j].event.tenant
  BY DEF OneInFlight, SameGroup
<1>0. msgs \in [Slots -> Message]
  BY DEF TypeInv, TypeOK, QueueTypeOK
<1>1. ASSUME NEW k \in Slots, NEW l \in Slots, k # l, msgs'[k].state = "inflight",
             msgs'[l].state = "inflight", NEW p \in Workers, Takes(p, k)
      PROVE  msgs'[k].event.tenant # msgs'[l].event.tenant
  <2>1. msgs[k].state = "visible" /\ msgs[l].state = "inflight"
    BY <1>0, <1>1 DEF Takes, Take, Receivable
  <2>2. msgs'[k].event = msgs[k].event /\ msgs'[l].event = msgs[l].event
    BY <2>1, Monotone
  <2>3. msgs[k].event.tenant # msgs[l].event.tenant
    BY <1>1, <2>1 DEF Takes, Take, Receivable, Live, SameGroup
  <2> QED BY <2>2, <2>3
<1>2. ASSUME msgs[i].state = "inflight", msgs[j].state = "inflight"
      PROVE  msgs'[i].event.tenant # msgs'[j].event.tenant
  BY <1>2, Monotone DEF OneInFlight, SameGroup
<1>3. CASE \E p \in Workers, k \in Slots : Takes(p, k)
  <2>1. PICK p \in Workers, k \in Slots : Takes(p, k)
    BY <1>3
  <2>2. \A l \in Slots \ {k} : msgs'[l] = msgs[l]
    BY <1>0, <2>1 DEF Takes, Take
  <2>3. CASE k = i
    BY <1>1, <2>1, <2>3
  <2>4. CASE k = j
    BY <1>1, <2>1, <2>4
  <2>5. CASE k # i /\ k # j
    BY <1>2, <2>2, <2>5
  <2> QED BY <2>3, <2>4, <2>5
<1>4. CASE ~\E p \in Workers, k \in Slots : Takes(p, k)
  <2>1. \A l \in Slots : msgs'[l].state = "inflight" => msgs[l].state = "inflight"
    <3>1. CASE Quiet
      BY <3>1 DEF Quiet
    <3>2. CASE \E p \in Workers : Deletes(p)
      BY <1>0, <3>2 DEF Deletes, Delete, Message
    <3>3. CASE \E p \in Apis : Queues(p)
      BY <1>0, <3>3 DEF Queues, Accept, Message
    <3>4. CASE \E l \in Slots : Shifts(l)
      BY <1>0, <3>4 DEF Shifts, VisibilityTimeout, DeadLetter, Expire, Redrive, Message
    <3> QED BY <1>4, <3>1, <3>2, <3>3, <3>4, EveryQueueStep DEF QueueStep
  <2> QED BY <1>2, <2>1
<1> QED BY <1>3, <1>4

(* Receives only grow, and every receive of a message has a receipt of its *)
(* own.                                                                    *)
LEMMA ReceiptsStep ==
    ASSUME TypeInv, TypeInv', Receipts, Next
    PROVE  Receipts'
<1>0. /\ msgs \in [Slots -> Message] /\ msgs' \in [Slots -> Message]
      /\ job \in [Workers -> Job] /\ job' \in [Workers -> Job]
  BY DEF TypeInv, TypeOK, QueueTypeOK, WorkTypeOK
<1>1. \A p \in Workers :
        /\ Busy(p) => job[p].slot \in Slots /\ job[p].receipt \in Nat
                      /\ msgs[job[p].slot].state # "unsent"
        /\ Busy(p)' => job'[p].slot \in Slots /\ job'[p].receipt \in Nat
  BY <1>0 DEF TypeInv, Custody, Job
<1>2. \A i \in Slots : msgs[i].receives \in Nat /\ msgs'[i].receives \in Nat
  BY <1>0, QueueAssumption DEF Message
<1>3. \A i \in Slots : msgs[i].state # "unsent" => msgs[i].receives <= msgs'[i].receives
  <2>1. CASE Quiet
    BY <1>2, <2>1 DEF Quiet
  <2>2. ASSUME NEW p \in Workers, NEW k \in Slots, Takes(p, k)
        PROVE  \A i \in Slots : msgs[i].receives <= msgs'[i].receives
    <3>1. /\ msgs'[k].receives = msgs[k].receives + 1
          /\ \A i \in Slots \ {k} : msgs'[i] = msgs[i]
      BY <1>0, <2>2 DEF Takes, Take, Message
    <3> QED BY <1>2, <3>1
  <2>3. CASE \E p \in Workers : Deletes(p)
    <3>1. \A i \in Slots : msgs'[i].receives = msgs[i].receives
      BY <1>0, <2>3 DEF Deletes, Delete, Message
    <3> QED BY <1>2, <3>1
  <2>4. CASE \E p \in Apis : Queues(p)
    <3>1. \A i \in Slots : msgs[i].state # "unsent" => msgs'[i] = msgs[i]
      BY <1>0, <2>4 DEF Queues, Accept, Message
    <3> QED BY <1>2, <3>1
  <2>5. CASE \E i \in Slots : Shifts(i)
    <3>1. \A i \in Slots : msgs'[i].receives = msgs[i].receives
      BY <1>0, <2>5 DEF Shifts, VisibilityTimeout, DeadLetter, Expire, Redrive, Message
    <3> QED BY <1>2, <3>1
  <2> QED BY <2>1, <2>2, <2>3, <2>4, <2>5, EveryQueueStep DEF QueueStep
(* A worker either goes on with its receipt or got a larger one.           *)
<1>4. CASE \E p \in Workers, k \in Slots : Takes(p, k)
  <2>1. PICK p \in Workers, k \in Slots : Takes(p, k)
    BY <1>4
  <2>2. msgs'[k].receives = msgs[k].receives + 1 /\ msgs[k].state # "unsent"
    BY <1>0, <2>1 DEF Takes, Take, Receivable, Message
  <2>3. job'[p].slot = k /\ job'[p].receipt = msgs[k].receives + 1
    BY <2>1, <2>2 DEF Takes
  <2>4. \A q \in Workers \ {p} : job'[q] = job[q] /\ (Busy(q)' <=> Busy(q))
    BY <2>1 DEF Takes, Busy
  <2>5. \A q \in Workers \ {p} : Busy(q) => job[q].receipt <= msgs[job[q].slot].receives
    BY DEF Receipts
  <2>6. ASSUME NEW q \in Workers, Busy(q)' PROVE job'[q].receipt <= msgs'[job'[q].slot].receives
    <3>1. CASE q = p
      BY <1>2, <2>2, <2>3, <3>1
    <3>2. CASE q # p
      <4>1. /\ job[q].slot \in Slots /\ job[q].receipt \in Nat
            /\ job[q].receipt <= msgs[job[q].slot].receives
            /\ msgs[job[q].slot].receives <= msgs'[job[q].slot].receives
        BY <1>1, <1>3, <2>4, <2>5, <2>6, <3>2
      <4>2. job[q].receipt <= msgs'[job[q].slot].receives
        BY <1>2, <4>1
      <4> QED BY <2>4, <3>2, <4>2
    <3> QED BY <3>1, <3>2
  <2>7. ASSUME NEW q \in Workers, q # p, Busy(q)', job'[q].slot = k
        PROVE  job'[q].receipt # job'[p].receipt
    <3>1. /\ job'[q].receipt = job[q].receipt /\ job[q].receipt \in Nat
          /\ job[q].receipt <= msgs[k].receives
      BY <1>1, <2>4, <2>5, <2>7
    <3> QED BY <1>2, <2>3, <3>1
  <2>8. ASSUME NEW q \in Workers, NEW r \in Workers, q # r, Busy(q)', Busy(r)',
               job'[q].slot = job'[r].slot
        PROVE  job'[q].receipt # job'[r].receipt
    <3>1. CASE q = p
      BY <2>3, <2>7, <2>8, <3>1
    <3>2. CASE r = p
      BY <2>3, <2>7, <2>8, <3>2
    <3>3. CASE q # p /\ r # p
      BY <2>4, <2>8, <3>3 DEF Receipts
    <3> QED BY <3>1, <3>2, <3>3
  <2> QED BY <2>6, <2>8 DEF Receipts
<1>5. CASE ~\E p \in Workers, k \in Slots : Takes(p, k)
  <2>1. \A q \in Workers :
          Busy(q)' => Busy(q) /\ job'[q].slot = job[q].slot /\ job'[q].receipt = job[q].receipt
    <3>1. CASE Quiet
      BY <3>1 DEF Quiet, SameTask
    <3>2. ASSUME NEW p \in Workers, Deletes(p), NEW q \in Workers, Busy(q)'
          PROVE  Busy(q) /\ job'[q].slot = job[q].slot /\ job'[q].receipt = job[q].receipt
      <4>1. Busy(p)
        BY <3>2 DEF Deletes, Deleter, Ack, Drop, AckLost, Busy
      <4> QED BY <3>2, <4>1 DEF Deletes, SameTask, Busy
    <3>3. CASE (\E p \in Apis : Queues(p)) \/ (\E i \in Slots : Shifts(i))
      BY <3>3 DEF Queues, Shifts, Busy
    <3> QED BY <1>5, <3>1, <3>2, <3>3, EveryQueueStep DEF QueueStep
  <2>2. ASSUME NEW q \in Workers, Busy(q)' PROVE job'[q].receipt <= msgs'[job'[q].slot].receives
    <3>1. /\ job[q].slot \in Slots /\ job[q].receipt \in Nat
          /\ job[q].receipt <= msgs[job[q].slot].receives
          /\ msgs[job[q].slot].receives <= msgs'[job[q].slot].receives
      BY <1>1, <1>3, <2>1, <2>2 DEF Receipts
    <3>2. job[q].receipt <= msgs'[job[q].slot].receives
      BY <1>2, <3>1
    <3> QED BY <2>1, <2>2, <3>2
  <2>3. ASSUME NEW q \in Workers, NEW r \in Workers, q # r, Busy(q)', Busy(r)',
               job'[q].slot = job'[r].slot
        PROVE  job'[q].receipt # job'[r].receipt
    BY <2>1, <2>3 DEF Receipts
  <2> QED BY <2>2, <2>3 DEF Receipts
<1> QED BY <1>4, <1>5

(*------------------------- queued calls are backed ----------------------*)

(* The statuses the code writes: only a retry, a call-centre insert with a *)
(* recording and an event that says so write "queued".                     *)
LEMMA StatusesWritten ==
    ASSUME NEW seen \in Snapshot
    PROVE  /\ Published(seen).status = "completed"
           /\ \A n : Exhausted(n) => Failed(seen, n).status = "failed"
           /\ \A e \in Events :
                /\ Updated(seen, e).status = e.status
                /\ NewItem(e).status = "queued" =>
                      \/ e.source = "call_center" /\ e.recorded
                      \/ e.source = "vapi" /\ "queued" \in OwnWords(e)
<1>1. Base(seen) \in Item /\ EmptyItem \in Item
  <2>1. NoItem \in Snapshot
    BY DEF Snapshot
  <2> QED BY <2>1, RowTypes DEF Base
<1>2. Published(seen).status = "completed"
  BY <1>1 DEF Published, Item
<1>3. ASSUME NEW n, Exhausted(n) PROVE Failed(seen, n).status = "failed"
  BY <1>1, <1>3 DEF Failed, Item
<1>4. ASSUME NEW e \in Events
      PROVE  /\ Updated(seen, e).status = e.status
             /\ NewItem(e).status = "queued" =>
                   \/ e.source = "call_center" /\ e.recorded
                   \/ e.source = "vapi" /\ "queued" \in OwnWords(e)
  <2>1. e.source \in {"vapi", "call_center", "start"}
    BY WebhooksAssumption DEF Event
  <2>2. Updated(seen, e).status = e.status
    BY <1>1 DEF Updated, Item
  <2>3. NewItem(e).status = CASE e.source = "start" -> "outbound_started"
                              [] e.source = "call_center" ->
                                   IF e.recorded THEN "queued" ELSE "received"
                              [] e.source = "vapi" -> e.status
    BY <1>1 DEF NewItem, Item
  <2> QED BY <2>1, <2>2, <2>3 DEF OwnWords, OwnStatuses
<1> QED BY <1>2, <1>3, <1>4

(* How a row comes to say "queued".                                        *)
LEMMA BecomesQueued ==
    ASSUME TypeInv, Next, NEW c \in Calls, HasStatus(c, "queued")'
    PROVE  \/ HasStatus(c, "queued")
           \/ SendPending(c)'
           \/ ~QueueSound(c)'
           \/ \E p \in Workers : Requeue(p) /\ CallOf(p) = c
<1> USE DEF TypeInv, TypeOK
<1>1. CASE calls'[c] = calls[c]
  BY <1>1 DEF HasStatus, Exists
<1>2. ASSUME NEW p \in Workers, WorkerActs(p), calls'[c] # calls[c]
      PROVE  Requeue(p) /\ CallOf(p) = c
  <2>1. MarkWrite(p) \/ Requeue(p) \/ GiveUp(p)
    BY <1>2 DEF WorkerActs, WorkerStep, Proceed, Receive, Load, StoreObject, SyncCrm,
       MarkRead, SendReport, Ack, StepFails, AckLost, FailLoad, FailRead, Drop, DropRaises, Crash,
       Restart, storeVars
  <2>2. job[p].seen \in Snapshot
    BY DEF WorkTypeOK, Job
  <2>3. PICK item : /\ calls' = [calls EXCEPT ![CallOf(p)] = item]
                    /\ Requeue(p) \/ item.status # "queued"
    BY <2>1, <2>2, StatusesWritten DEF MarkWrite, Requeue, GiveUp, Upsert
  <2>4. CallOf(p) = c /\ calls'[c] = item
    BY <1>2, <2>3 DEF StoreTypeOK
  <2> QED BY <2>3, <2>4 DEF HasStatus
<1>3. ASSUME NEW p \in Apis, ApiActs(p), calls'[c] # calls[c]
      PROVE  SendPending(c)' \/ ~QueueSound(c)'
  <2>1. Insert(p) \/ UpdateWrite(p)
    BY <1>3 DEF ApiActs, ApiStep, HandlerStep, HandlerProceeds, VapiEvent, CallCenterEvent,
       ResumeStart, CheckAbsent, UpdateRead,
       Send, SendLost, ApiFails, storeVars
  <2>2. EventOf(p) \in Events /\ api[p].seen \in Snapshot
    BY <2>1 DEF Insert, UpdateWrite, Serving, ApiTypeOK, Handler
  <2>3. EventOf(p).call \in Calls
    BY <2>2, WebhooksAssumption DEF Event
  <2>4. CASE Insert(p)
    <3>1. EventOf(p).call = c /\ calls'[c] = NewItem(EventOf(p))
          /\ (EventOf(p).source = "vapi" => OwnWords(EventOf(p)) \subseteq mishaps'[c])
      BY <1>3, <2>3, <2>4 DEF Insert, Upsert, StoreTypeOK
    <3>2. NewItem(EventOf(p)).status = "queued"
      BY <3>1 DEF HasStatus
    <3>3. \/ EventOf(p).source = "call_center" /\ EventOf(p).recorded
          \/ EventOf(p).source = "vapi" /\ "queued" \in OwnWords(EventOf(p))
      BY <2>2, <3>2, StatusesWritten
    <3>4. CASE EventOf(p).source = "call_center" /\ EventOf(p).recorded
      <4>1. api'[p].pc = "send" /\ api'[p].event = EventOf(p)
        BY <2>4, <3>4 DEF Insert, AfterInsert, Continue, ApiGoto, ApiTypeOK, Handler, EventOf
      <4> QED BY <3>1, <4>1 DEF SendPending, Serving, EventOf
    <3> QED BY <3>1, <3>3, <3>4 DEF QueueSound
  <2>5. CASE UpdateWrite(p)
    <3>1. EventOf(p).call = c /\ calls'[c] = Updated(api[p].seen, EventOf(p))
          /\ OwnWords(EventOf(p)) \subseteq mishaps'[c]
      BY <1>3, <2>3, <2>5 DEF UpdateWrite, Upsert, StoreTypeOK
    <3>2. EventOf(p).status = "queued"
      BY <2>2, <3>1, StatusesWritten DEF HasStatus
    <3> QED BY <3>1, <3>2 DEF OwnWords, OwnStatuses, QueueSound
  <2> QED BY <2>1, <2>4, <2>5
<1>4. ASSUME NEW t \in Erasers, EraserActs(t), calls'[c] # calls[c]
      PROVE  FALSE
  <2>1. calls'[c] = NoItem
    BY <1>4 DEF EraserActs, EraserStep, EraseBegin, EraseObject, EraseRow, DeleteRow, EraseFails,
       storeVars,
       StoreTypeOK
  <2> QED BY <2>1 DEF HasStatus, Exists
<1>5. ASSUME DialOut \/ \E i \in Slots : VisibilityTimeout(i) \/ DeadLetter(i)
      PROVE  calls' = calls
  BY <1>5 DEF DialOut, Dial, VisibilityTimeout, DeadLetter, storeVars
<1> QED BY <1>1, <1>2, <1>3, <1>4, <1>5 DEF Next

(* How the backing of a call goes: only by the deletion of its message.    *)
LEMMA StaysBacked ==
    ASSUME TypeInv, Next, NEW c \in Calls, NEW k, QueueSound(c)',
           k \in Slots => msgs[k].state # "unsent", BackedBesides(c, k)
    PROVE  \/ BackedBesides(c, k)'
           \/ \E p \in Workers : Deleter(p) /\ CallOf(p) = c /\ job[p].slot # k
<1> USE DEF TypeInv, TypeOK
<1>0. msgs \in [Slots -> Message]
  BY DEF QueueTypeOK
<1>1. ASSUME NEW p \in Apis, Serving(p, "send"), EventOf(p).call = c
      PROVE  BackedBesides(c, k)'
  <2>1. CASE Send(p)
    <3>1. PICK i \in Slots :
            /\ msgs[i].state = "unsent"
            /\ msgs' = [msgs EXCEPT ![i] =
                         [state |-> "visible", event |-> EventOf(p), receives |-> 0]]
      BY <2>1 DEF Send, Accept
    <3>2. i # k /\ msgs'[i].state = "visible" /\ msgs'[i].event = EventOf(p)
      BY <1>0, <3>1
    <3> QED BY <1>1, <3>2 DEF BackedBesides, Kept, Carries
  <2>2. CASE SendLost(p)
    <3>1. "not sent" \in mishaps'[c]
      BY <1>1, <2>2 DEF SendLost, StoreTypeOK
    <3> QED BY <3>1 DEF QueueSound
  <2>3. CASE ~Send(p) /\ ~SendLost(p)
    <3>1. api'[p] = api[p]
      <4>1. ASSUME NEW q \in Apis, ApiActs(q) PROVE api'[p] = api[p]
        <5>1. q # p
          BY <1>1, <2>3, <4>1 DEF ApiActs, ApiStep, HandlerStep, HandlerProceeds, VapiEvent,
             CallCenterEvent, ResumeStart,
             CheckAbsent, Insert, UpdateRead, UpdateWrite, ApiFails, Arrives, Serving, ApiSteps
        <5> QED BY <4>1, <5>1 DEF ApiActs, ApiStep, HandlerStep, HandlerProceeds, VapiEvent,
           CallCenterEvent, ResumeStart,
             CheckAbsent, Insert, UpdateRead, UpdateWrite, Send, SendLost, ApiFails, Begin,
             Continue, Respond, ApiGoto, ApiTypeOK
      <4>2. ASSUME ~\E q \in Apis : ApiActs(q) PROVE api' = api
        BY <4>2 DEF Next, WorkerActs, DialOut, Dial, EraserActs, VisibilityTimeout, DeadLetter,
           apiVars
      <4> QED BY <4>1, <4>2
    <3> QED BY <1>1, <3>1 DEF BackedBesides, SendPending, Serving, EventOf
  <2> QED BY <2>1, <2>2, <2>3
<1>2. ASSUME NEW i \in Slots, i # k, Kept(i), Carries(i, c)
      PROVE  \/ BackedBesides(c, k)'
             \/ \E p \in Workers : Deleter(p) /\ CallOf(p) = c /\ job[p].slot # k
  <2>1. Carries(i, c)'
    BY <1>2, Monotone DEF Carries
  <2>2. CASE Kept(i)'
    BY <1>2, <2>1, <2>2 DEF BackedBesides
  <2>3. CASE ~Kept(i)'
    <3>1. PICK p \in Workers : Deletes(p) /\ job[p].slot = i
      <4>1. ~Quiet
        BY <1>2, <2>3 DEF Quiet, Kept
      <4>2. ASSUME NEW p \in Workers, NEW j \in Slots, Takes(p, j) PROVE FALSE
        BY <1>0, <1>2, <2>3, <4>2 DEF Takes, Take, Receivable, Kept, Message
      <4>3. ASSUME NEW p \in Apis, Queues(p) PROVE FALSE
        BY <1>0, <1>2, <2>3, <4>3 DEF Queues, Accept, Kept, Message
      <4>4. ASSUME NEW j \in Slots, Shifts(j) PROVE FALSE
        BY <1>0, <1>2, <2>3, <4>4 DEF Shifts, VisibilityTimeout, DeadLetter, Expire, Redrive,
           Kept, Message
      <4>5. ASSUME NEW p \in Workers, Deletes(p) PROVE job[p].slot = i
        BY <1>0, <1>2, <2>3, <4>5 DEF Deletes, Delete, Kept, Message
      <4> QED BY <4>1, <4>2, <4>3, <4>4, <4>5, EveryQueueStep DEF QueueStep
    <3> QED BY <1>2, <3>1 DEF Deletes, CallOf, Carries
  <2> QED BY <2>2, <2>3
<1> QED BY <1>1, <1>2 DEF BackedBesides, SendPending

(* A worker's locals are its own.                                          *)
LEMMA JobChange ==
    ASSUME TypeInv, Next, NEW p \in Workers, job'[p] # job[p]
    PROVE  WorkerActs(p)
<1>0. job \in [Workers -> Job]
  BY DEF TypeInv, TypeOK, WorkTypeOK
<1>1. PICK q \in Workers : WorkerActs(q)
  BY DEF Next, ApiActs, DialOut, EraserActs, VisibilityTimeout, DeadLetter, workVars
<1>2. \E x : job' = [job EXCEPT ![q] = x]
  BY <1>0, <1>1 DEF WorkerActs, WorkerStep, Proceed, Receive, Load, StoreObject, SyncCrm,
     MarkRead, MarkWrite, SendReport, Ack, StepFails, AckLost, FailLoad, FailRead, Requeue,
     GiveUp, Drop, DropRaises, Crash, Restart, Goto, Finish, Exit
<1> QED BY <1>0, <1>1, <1>2

(* And so is what a handler knows.                                         *)
LEMMA ApiChange ==
    ASSUME TypeInv, Next, NEW p \in Apis, api'[p] # api[p]
    PROVE  ApiActs(p)
<1>0. api \in [Apis -> Handler]
  BY DEF TypeInv, TypeOK, ApiTypeOK
<1>1. PICK q \in Apis : ApiActs(q)
  BY DEF Next, WorkerActs, DialOut, Dial, EraserActs, VisibilityTimeout, DeadLetter, apiVars
<1>2. \E x : api' = [api EXCEPT ![q] = x]
  BY <1>0, <1>1 DEF ApiActs, ApiStep, HandlerStep, HandlerProceeds, VapiEvent, CallCenterEvent,
     ResumeStart, CheckAbsent, Insert, UpdateRead, UpdateWrite, Send, SendLost, ApiFails, Begin,
     Continue, Respond, ApiGoto
<1> QED BY <1>0, <1>1, <1>2

(* Who writes a row, and what.                                             *)
LEMMA RowWritten ==
    ASSUME TypeInv, Next, NEW c \in Calls, calls'[c] # calls[c]
    PROVE  \/ calls'[c] = NoItem
           \/ \E p \in Workers :
                /\ MarkWrite(p) /\ CallOf(p) = c
                /\ calls'[c] = Published(job[p].seen)
           \/ \E p \in Workers :
                /\ Requeue(p) \/ GiveUp(p)
                /\ CallOf(p) = c
                /\ calls'[c] = Failed(job[p].seen, RetryCount(job[p].got))
           \/ \E p \in Apis :
                /\ EventOf(p) \in Events /\ EventOf(p).call = c
                /\ \/ Insert(p) /\ calls'[c] = NewItem(EventOf(p))
                   \/ UpdateWrite(p) /\ calls'[c] = Updated(api[p].seen, EventOf(p))
<1>0. calls \in [Calls -> Snapshot]
  BY DEF TypeInv, TypeOK, StoreTypeOK
<1>1. ASSUME NEW d, NEW seen, NEW item, NEW said, Upsert(d, seen, item, said)
      PROVE  d = c /\ calls'[c] = item
  BY <1>0, <1>1 DEF Upsert
<1>2. ASSUME NEW p \in Workers, WorkerActs(p)
      PROVE  \/ MarkWrite(p) /\ CallOf(p) = c /\ calls'[c] = Published(job[p].seen)
             \/ /\ Requeue(p) \/ GiveUp(p)
                /\ CallOf(p) = c
                /\ calls'[c] = Failed(job[p].seen, RetryCount(job[p].got))
  <2>1. MarkWrite(p) \/ Requeue(p) \/ GiveUp(p)
    BY <1>2 DEF WorkerActs, WorkerStep, Proceed, Receive, Load, StoreObject, SyncCrm, MarkRead,
       SendReport, Ack, StepFails, AckLost, FailLoad, FailRead, Drop, DropRaises, Crash, Restart,
       storeVars
  <2>2. MarkWrite(p) => CallOf(p) = c /\ calls'[c] = Published(job[p].seen)
    BY <1>1 DEF MarkWrite
  <2>3. Requeue(p) \/ GiveUp(p) =>
           CallOf(p) = c /\ calls'[c] = Failed(job[p].seen, RetryCount(job[p].got))
    BY <1>1 DEF Requeue, GiveUp
  <2> QED BY <2>1, <2>2, <2>3
<1>3. ASSUME NEW p \in Apis, ApiActs(p)
      PROVE  /\ EventOf(p) \in Events /\ EventOf(p).call = c
             /\ \/ Insert(p) /\ calls'[c] = NewItem(EventOf(p))
                \/ UpdateWrite(p) /\ calls'[c] = Updated(api[p].seen, EventOf(p))
  <2>1. Insert(p) \/ UpdateWrite(p)
    BY <1>3 DEF ApiActs, ApiStep, HandlerStep, HandlerProceeds, VapiEvent, CallCenterEvent,
       ResumeStart, CheckAbsent, UpdateRead, Send, SendLost, ApiFails, storeVars
  <2>2. EventOf(p) \in Events
    BY <2>1 DEF Insert, UpdateWrite, Serving, TypeInv, TypeOK, ApiTypeOK
  <2>3. Insert(p) => EventOf(p).call = c /\ calls'[c] = NewItem(EventOf(p))
    BY <1>1 DEF Insert
  <2>4. UpdateWrite(p) => EventOf(p).call = c /\ calls'[c] = Updated(api[p].seen, EventOf(p))
    BY <1>1 DEF UpdateWrite
  <2> QED BY <2>1, <2>2, <2>3, <2>4
<1>4. ASSUME NEW t \in Erasers, EraserActs(t) PROVE calls'[c] = NoItem
  BY <1>0, <1>4 DEF EraserActs, EraserStep, EraseBegin, EraseObject, EraseRow, DeleteRow,
     EraseFails, storeVars
<1>5. ~DialOut /\ \A i \in Slots : ~VisibilityTimeout(i) /\ ~DeadLetter(i)
  BY DEF DialOut, Dial, VisibilityTimeout, DeadLetter, storeVars
<1> QED BY <1>2, <1>3, <1>4, <1>5 DEF Next

(* Who starts to settle its message has just seen or written a row that is *)
(* not queued.                                                             *)
LEMMA StartsSettling ==
    ASSUME TypeInv, Next, NEW p \in Workers, Settling(p)', HasStatus(CallOf(p), "queued")'
    PROVE  Settling(p) /\ job'[p].slot = job[p].slot
<1> USE DEF TypeInv, TypeOK
<1>0. job \in [Workers -> Job]
  BY DEF WorkTypeOK
<1>1. CASE job'[p] = job[p]
  BY <1>1 DEF Settling
<1>2. CASE job'[p] # job[p]
  <2>1. WorkerActs(p)
    BY <1>2, JobChange
  <2>2. CASE Receive(p) \/ Crash(p) \/ Restart(p)
    <3>1. CASE Receive(p)
      <4>1. PICK i \in Slots : job' = [job EXCEPT ![p] =
               [IdleJob EXCEPT !.pc = "load", !.slot = i, !.receipt = msgs'[i].receives]]
        BY <3>1 DEF Receive
      <4>2. job'[p].pc = "load"
        BY <1>0, <4>1 DEF IdleJob
      <4> QED BY <4>2 DEF Settling
    <3>2. CASE Crash(p) \/ Restart(p)
      <4>1. job'[p] \in {IdleJob, DownJob}
        BY <1>0, <3>2 DEF Crash, Restart, Exit, Finish
      <4> QED BY <4>1 DEF IdleJob, DownJob, Settling
    <3> QED BY <2>2, <3>1, <3>2
  <2>3. CASE Proceed(p)
    <3>0. Busy(p)
      BY <2>3 DEF Proceed, Busy, Load, StoreObject, SyncCrm, MarkRead, MarkWrite, SendReport, Ack,
         StepFails, AckLost, FailLoad, FailRead, Requeue, GiveUp, Drop, DropRaises, ProcessSteps,
         Kinds
    <3>1. CASE Load(p)
      <4>1. job'[p].slot = job[p].slot /\ job'[p].pc = AfterLoad(calls[CallOf(p)])
            /\ calls' = calls
        BY <1>0, <3>1 DEF Load, Goto, storeVars, Job
      <4>2. CallOf(p)' = CallOf(p)
        BY <3>0, <4>1, SameCall
      <4> QED BY <4>1, <4>2 DEF AfterLoad, AlreadyDone, Settling, HasStatus, Exists
    <3>2. CASE StoreObject(p) \/ SyncCrm(p) \/ MarkRead(p) \/ StepFails(p) \/ FailRead(p)
               \/ AckLost(p)
      BY <1>0, <3>2 DEF StoreObject, SyncCrm, MarkRead, StepFails, FailRead, AckLost, Goto,
         StageAfter, Kinds, Settling, Job
    <3>3. CASE Requeue(p) \/ Ack(p) \/ Drop(p) \/ DropRaises(p)
      BY <1>0, <3>3 DEF Requeue, Ack, Drop, DropRaises, Finish, Exit, IdleJob, DownJob, Settling
    <3>4. CASE SendReport(p)
      BY <1>0, <3>4 DEF SendReport, Goto, Settling, Job
    <3>5. CASE FailLoad(p)
      <4>1. job'[p].slot = job[p].slot /\ calls' = calls
            /\ (job'[p].pc = "fail_read" \/ ~Exists(CallOf(p)))
        BY <1>0, <3>5 DEF FailLoad, Goto, storeVars, Job
      <4>2. CallOf(p)' = CallOf(p)
        BY <3>0, <4>1, SameCall
      <4> QED BY <4>1, <4>2 DEF Settling, HasStatus, Exists
    <3>6. CASE MarkWrite(p) \/ GiveUp(p)
      <4>1. job'[p].slot = job[p].slot
        BY <1>0, <3>6 DEF MarkWrite, GiveUp, Job
      <4>2. CallOf(p)' = CallOf(p) /\ CallOf(p) \in Calls /\ job[p].seen \in Snapshot
        BY <1>0, <3>0, <4>1, SameCall DEF Job
      <4>3. calls'[CallOf(p)].status # "queued"
        BY <3>6, <4>2, StatusesWritten DEF MarkWrite, GiveUp, Upsert, StoreTypeOK
      <4> QED BY <4>2, <4>3 DEF HasStatus
    <3> QED BY <2>3, <3>1, <3>2, <3>3, <3>4, <3>5, <3>6 DEF Proceed
  <2> QED BY <2>1, <2>2, <2>3 DEF WorkerActs, WorkerStep
<1> QED BY <1>1, <1>2

LEMMA SettledSafelyStep ==
    ASSUME TypeInv, QueueInv, Next
    PROVE  SettledSafely'
<1> SUFFICES ASSUME NEW p \in Workers, Settling(p)', QueueSound(CallOf(p))',
                    HasStatus(CallOf(p), "queued")'
             PROVE  BackedBesides(CallOf(p), job[p].slot)'
  BY DEF SettledSafely
<1>1. Settling(p) /\ Busy(p) /\ job'[p].slot = job[p].slot
  BY StartsSettling DEF Settling, Busy
<1>2. /\ CallOf(p)' = CallOf(p) /\ CallOf(p) \in Calls
      /\ QueueSound(CallOf(p))
      /\ job[p].slot \in Slots /\ msgs[job[p].slot].state # "unsent"
  BY <1>1, SameCall, BusyCall, Monotone
(* Nobody else works on the call.                                          *)
<1>3. ASSUME NEW q \in Workers, Busy(q), CallOf(q) = CallOf(p) PROVE q = p
  BY <1>1, <1>2, <1>3 DEF QueueInv, OverlapsAreNoted, QueueSound
<1>4. CASE SendPending(CallOf(p))'
  BY <1>4 DEF BackedBesides
<1>5. CASE HasStatus(CallOf(p), "queued")
  <2>1. BackedBesides(CallOf(p), job[p].slot)
    BY <1>1, <1>2, <1>5 DEF QueueInv, SettledSafely
  <2>2. ASSUME NEW q \in Workers, Deleter(q), CallOf(q) = CallOf(p), job[q].slot # job[p].slot
        PROVE  FALSE
    <3>1. Busy(q)
      BY <2>2 DEF Deleter, Ack, Drop, AckLost, Busy
    <3> QED BY <1>3, <2>2, <3>1
  <2>3. BackedBesides(CallOf(p), job[p].slot)' 
        \/ \E q \in Workers : Deleter(q) /\ CallOf(q) = CallOf(p) /\ job[q].slot # job[p].slot
    <3> DEFINE c == CallOf(p)  k == job[p].slot
    <3>1. BackedBesides(c, k) /\ c \in Calls /\ QueueSound(c)' /\ c' = c /\ k' = k
          /\ msgs[k].state # "unsent"
      BY <1>1, <1>2, <2>1
    <3>2. \A d \in Calls, j \in Slots :
             (QueueSound(d)' /\ msgs[j].state # "unsent" /\ BackedBesides(d, j)) =>
               \/ SendPending(d)' \/ \E i \in Slots : i # j /\ Kept(i)' /\ Carries(i, d)'
               \/ \E q \in Workers : Deleter(q) /\ CallOf(q) = d /\ job[q].slot # j
      BY StaysBacked DEF BackedBesides
    <3> QED BY <1>1, <1>2, <3>1, <3>2 DEF BackedBesides, SendPending, Carries
  <2> QED BY <2>2, <2>3
<1>6. CASE \E q \in Workers : Requeue(q) /\ CallOf(q) = CallOf(p)
  <2>1. PICK q \in Workers : Requeue(q) /\ CallOf(q) = CallOf(p)
    BY <1>6
  <2>2. q = p
    BY <1>3, <2>1 DEF Requeue, Busy
  <2> QED BY <1>1, <2>1, <2>2 DEF Requeue, Settling
<1>7. \A d \in Calls : HasStatus(d, "queued")' =>
         \/ HasStatus(d, "queued") \/ SendPending(d)' \/ ~QueueSound(d)'
         \/ \E q \in Workers : Requeue(q) /\ CallOf(q) = d
  BY BecomesQueued
<1>8. HasStatus(CallOf(p), "queued") \/ SendPending(CallOf(p))'
      \/ \E q \in Workers : Requeue(q) /\ CallOf(q) = CallOf(p)
  <2>1. PICK d \in Calls : d = CallOf(p)
    BY <1>2
  <2>2. HasStatus(d, "queued")'
    BY <1>2, <2>1 DEF HasStatus, Exists
  <2>3. SendPending(d)' => SendPending(CallOf(p))'
    BY <1>2, <2>1 DEF SendPending
  <2>4. QueueSound(d)'
    BY <1>2, <2>1 DEF QueueSound
  <2> QED BY <1>7, <2>1, <2>2, <2>3, <2>4
<1> QED BY <1>4, <1>5, <1>6, <1>8

LEMMA QueuedIsBackedStep ==
    ASSUME TypeInv, QueueInv, Next
    PROVE  QueuedIsBacked'
<1> SUFFICES ASSUME NEW c \in Calls, HasStatus(c, "queued")', QueueSound(c)'
             PROVE  Backed(c)'
  BY DEF QueuedIsBacked
<1>0. QueueSound(c)
  BY Monotone
<1>1. CASE SendPending(c)'
  BY <1>1 DEF Backed
<1>2. CASE HasStatus(c, "queued")
  <2>1. BackedBesides(c, 0)
    BY <1>0, <1>2 DEF QueueInv, QueuedIsBacked, Backed, BackedBesides, Slots
  <2>2. CASE BackedBesides(c, 0)'
    BY <2>2 DEF BackedBesides, Backed
  <2>3. ASSUME NEW p \in Workers, Deleter(p), CallOf(p) = c
        PROVE  Backed(c)'
    <3>1. Busy(p) /\ job[p].slot \in Slots /\ msgs[job[p].slot].state # "unsent"
      BY <2>3, BusyCall DEF Deleter, Ack, Drop, AckLost, Busy
    <3>2. ~AckLost(p)
      <4>1. ASSUME AckLost(p) PROVE "ack lost" \in mishaps'[c]
        BY <2>3, <4>1 DEF AckLost, TypeInv, TypeOK, StoreTypeOK
      <4> QED BY <4>1 DEF QueueSound
    <3>3. BackedBesides(c, job[p].slot)
      BY <1>0, <1>2, <2>3, <3>2 DEF QueueInv, SettledSafely, Settling, Deleter, Ack, Drop
    <3>4. ASSUME NEW q \in Workers, Deleter(q), CallOf(q) = c, job[q].slot # job[p].slot
          PROVE  FALSE
      BY <1>0, <2>3, <3>1, <3>4 DEF QueueInv, OverlapsAreNoted, QueueSound, Deleter, Ack, Drop, AckLost, Busy
    <3>5. \/ SendPending(c)' \/ \E i \in Slots : Kept(i)' /\ Carries(i, c)'
          \/ \E q \in Workers : Deleter(q) /\ CallOf(q) = c /\ job[q].slot # job[p].slot
      BY <3>1, <3>3, StaysBacked DEF BackedBesides
    <3> QED BY <3>4, <3>5 DEF Backed
  <2>4. \/ BackedBesides(c, 0)'
        \/ \E p \in Workers : Deleter(p) /\ CallOf(p) = c /\ job[p].slot # 0
    BY <2>1, StaysBacked DEF Slots
  <2> QED BY <2>2, <2>3, <2>4
<1>3. CASE \E p \in Workers : Requeue(p) /\ CallOf(p) = c
  <2>1. PICK p \in Workers : Requeue(p) /\ CallOf(p) = c
    BY <1>3
  <2>2. Busy(p) /\ job[p].slot \in Slots /\ msgs[job[p].slot].state # "unsent"
    BY <2>1, BusyCall DEF Requeue, Busy
  <2>3. Kept(job[p].slot) /\ Carries(job[p].slot, c) /\ msgs' = msgs
    BY <1>0, <2>1, <2>2 DEF QueueInv, HeldMessages, Carries, CallOf, Requeue
  <2> QED BY <2>2, <2>3 DEF Backed, Kept, Carries
<1> QED BY <1>1, <1>2, <1>3, BecomesQueued

LEMMA InitQueueInv == Init => QueueInv
BY DEF Init, StoreInit, WorkInit, QueueInv, HeldMessages, OverlapsAreNoted, SettledSafely,
   QueuedIsBacked, Settling, Busy, IdleJob, HasStatus, Exists

LEMMA NextQueueInv == TypeInv /\ TypeInv' /\ QueueInv /\ [Next]_vars => QueueInv'
<1> SUFFICES ASSUME TypeInv, TypeInv', QueueInv, [Next]_vars PROVE QueueInv'
  OBVIOUS
<1>1. CASE Next
  BY <1>1, HeldMessagesStep, OverlapsStep, SettledSafelyStep, QueuedIsBackedStep DEF QueueInv
<1>2. CASE UNCHANGED vars
  <2>1. calls' = calls /\ mishaps' = mishaps /\ msgs' = msgs /\ job' = job /\ api' = api
    BY <1>2 DEF vars, storeVars, workVars, apiVars
  <2>2. HeldMessages' /\ OverlapsAreNoted'
    BY <2>1 DEF QueueInv, HeldMessages, OverlapsAreNoted, Busy, QueueSound, CallOf, Kept
  <2>3. SettledSafely' /\ QueuedIsBacked'
    <3>1. /\ \A c : SendPending(c)' <=> SendPending(c)
          /\ \A i : Kept(i)' <=> Kept(i)
          /\ \A i, c : Carries(i, c)' <=> Carries(i, c)
      BY <2>1 DEF Kept, SendPending, Carries, Serving, EventOf
    <3>2. SettledSafely'
      BY <2>1, <3>1 DEF QueueInv, SettledSafely, Settling, HasStatus, Exists, QueueSound, CallOf,
         BackedBesides
    <3>3. QueuedIsBacked'
      BY <2>1, <3>1 DEF QueueInv, QueuedIsBacked, HasStatus, Exists, QueueSound, Backed
    <3> QED BY <3>2, <3>3
  <2> QED BY <2>2, <2>3 DEF QueueInv
<1> QED BY <1>1, <1>2

LEMMA QueueInvariant == Spec => [](TypeInv /\ QueueInv)
<1>1. Init => TypeInv /\ QueueInv
  BY InitType, InitQueueInv
<1>2. TypeInv /\ QueueInv /\ [Next]_vars => TypeInv' /\ QueueInv'
  BY NextType, NextQueueInv
<1> QED BY <1>1, <1>2, PTL DEF Spec

(* The queue never forgets a call that is waiting: for any number of       *)
(* calls, tenants, API and worker processes, messages and retries, through *)
(* crashes, expired receipts, late and repeated webhooks and erasures.     *)
THEOREM QueueCorrect == Spec => []QueuedIsBacked
<1>1. QueueInv => QueuedIsBacked
  BY DEF QueueInv
<1> QED BY <1>1, QueueInvariant, PTL

LEMMA ReceiptInvariant == Spec => [](TypeInv /\ ReceiptInv)
<1>1. Init => TypeInv /\ ReceiptInv
  BY InitType DEF Init, QueueInit, WorkInit, ReceiptInv, OneInFlight, Receipts, Busy, IdleJob
<1>2. TypeInv /\ TypeInv' /\ ReceiptInv /\ UNCHANGED vars => ReceiptInv'
  BY DEF vars, workVars, ReceiptInv, OneInFlight, Receipts, Busy, SameGroup
<1>3. TypeInv /\ ReceiptInv /\ [Next]_vars => TypeInv' /\ ReceiptInv'
  BY <1>2, NextType, OneInFlightStep, ReceiptsStep DEF ReceiptInv
<1> QED BY <1>1, <1>3, PTL DEF Spec

(* However many workers run, as during a deployment, and whether or not a  *)
(* visibility timeout may end under a working worker: two workers are on   *)
(* one call only if one of them no longer has the receipt of its message.  *)
THEOREM WorkersExclude == Spec => []OneWorkerPerCall
<1>1. TypeInv /\ ReceiptInv => OneWorkerPerCall
  <2> SUFFICES ASSUME TypeInv, ReceiptInv, NEW p \in Workers, NEW q \in Workers, p # q,
                      Busy(p), Busy(q), CallOf(p) = CallOf(q), HasReceipt(p), HasReceipt(q)
               PROVE  FALSE
    BY DEF OneWorkerPerCall
  <2>1. /\ job[p].slot \in Slots /\ job[q].slot \in Slots
        /\ SameGroup(job[p].slot, job[q].slot)
    BY BusyCall DEF SameGroup
  <2>2. job[p].slot = job[q].slot
    BY <2>1 DEF ReceiptInv, OneInFlight, HasReceipt
  <2> QED BY <2>2 DEF ReceiptInv, Receipts, HasReceipt
<1> QED BY <1>1, ReceiptInvariant, PTL
=============================================================================
