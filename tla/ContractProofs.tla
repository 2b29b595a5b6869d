---------------------------- MODULE ContractProofs ----------------------------
(***************************************************************************)
(* For every set of calls, processes and messages and every bound: the     *)
(* queue and the workers keep the safety part of JobContract, and no call  *)
(* is given up before its messages used up their retries.                  *)
(***************************************************************************)
EXTENDS CallPipelineProofs, FiniteSetTheorems

(* What the contract calls the verdicts of a call.                         *)
Verdicts(c) == outcomes[c] \cup Declared(c)

(* A worker has taken up its message, and whoever is about to delete it    *)
(* has a verdict about the call.                                           *)
Taken ==
    /\ \A i \in Slots : msgs[i].state = "unsent" => msgs[i].receives = 0
    /\ \A p \in Workers : Busy(p) => msgs[job[p].slot].receives > 0

Concluded ==
    /\ \A p \in Workers : Settling(p) => Verdicts(CallOf(p)) # {}
    /\ \A c \in Calls : HasStatus(c, "completed") => Verdicts(c) # {}

ContractInv == Taken /\ Concluded

LEMMA InitContract == Init => ContractInv
BY DEF Init, StoreInit, QueueInit, WorkInit, ContractInv, Taken, Concluded, Settling, Busy, IdleJob,
   HasStatus, Exists

(* Receives are counted, never given back.                                 *)
LEMMA ReceivesGrow ==
    ASSUME TypeInv, Taken, Next
    PROVE  /\ \A i \in Slots : msgs[i].state # "unsent" => msgs'[i].receives >= msgs[i].receives
           /\ Taken'
<1> USE DEF TypeInv, TypeOK
<1>0. msgs \in [Slots -> Message] /\ \A i \in Slots : msgs[i].receives \in Nat
  BY DEF QueueTypeOK, Message
<1>1. CASE Quiet
  <2>1. \A p \in Workers : Busy(p)' => Busy(p) /\ job'[p].slot = job[p].slot
    BY <1>1 DEF Quiet, SameTask
  <2> QED BY <1>0, <1>1, <2>1 DEF Quiet, Taken
<1>2. ASSUME NEW p \in Workers, NEW i \in Slots, Takes(p, i)
      PROVE  /\ \A j \in Slots : msgs[j].state # "unsent" => msgs'[j].receives >= msgs[j].receives
             /\ Taken'
  <2>1. /\ msgs'[i].state = "inflight" /\ msgs'[i].receives = msgs[i].receives + 1
        /\ \A j \in Slots \ {i} : msgs'[j] = msgs[j]
    BY <1>0, <1>2 DEF Takes, Take, Message
  <2>2. \A j \in Slots : msgs'[j].receives >= msgs[j].receives
    BY <1>0, <2>1
  <2>3. ASSUME NEW q \in Workers, Busy(q)' PROVE msgs'[job'[q].slot].receives > 0
    <3>1. CASE q = p
      BY <1>0, <1>2, <2>1, <3>1 DEF Takes
    <3>2. CASE q # p
      <4>1. Busy(q) /\ job'[q].slot = job[q].slot /\ job[q].slot \in Slots
        BY <1>2, <2>3, <3>2, BusyCall DEF Takes, Busy
      <4>2. msgs'[job[q].slot].receives >= msgs[job[q].slot].receives
        BY <2>2, <4>1
      <4>3. msgs[job[q].slot].receives > 0 /\ msgs[job[q].slot].receives \in Nat
        BY <1>0, <4>1 DEF Taken
      <4>4. msgs'[job[q].slot].receives \in Nat
        BY <1>0, <2>1, <4>1
      <4> QED BY <4>1, <4>2, <4>3, <4>4
    <3> QED BY <3>1, <3>2
  <2>4. \A j \in Slots : msgs'[j].state = "unsent" => msgs'[j].receives = 0
    BY <2>1 DEF Taken
  <2> QED BY <2>2, <2>3, <2>4 DEF Taken
<1>3. ASSUME \A j \in Slots : msgs[j].state # "unsent"
                => msgs'[j].receives = msgs[j].receives /\ msgs'[j].state # "unsent",
             \A j \in Slots : msgs'[j].state = "unsent" => msgs'[j] = msgs[j],
             \A p \in Workers : Busy(p)' => Busy(p) /\ job'[p].slot = job[p].slot
      PROVE  /\ \A j \in Slots : msgs[j].state # "unsent" => msgs'[j].receives >= msgs[j].receives
             /\ Taken'
  <2>1. ASSUME NEW p \in Workers, Busy(p)' PROVE msgs'[job'[p].slot].receives > 0
    BY <1>3, <2>1, BusyCall DEF Taken
  <2>2. \A j \in Slots : msgs'[j].state = "unsent" => msgs'[j].receives = 0
    BY <1>3 DEF Taken
  <2> QED BY <1>0, <1>3, <2>1, <2>2 DEF Taken
<1>4. CASE \E p \in Workers : Deletes(p)
  <2>1. PICK p \in Workers : Deletes(p)
    BY <1>4
  <2>2. Busy(p) /\ job[p].slot \in Slots /\ msgs[job[p].slot].state # "unsent"
    BY <2>1, BusyCall DEF Deletes, Deleter, Ack, Drop, AckLost, Busy
  <2>3. /\ \A j \in Slots : msgs[j].state # "unsent"
             => msgs'[j].receives = msgs[j].receives /\ msgs'[j].state # "unsent"
        /\ \A j \in Slots : msgs'[j].state = "unsent" => msgs'[j] = msgs[j]
    BY <1>0, <2>1, <2>2 DEF Deletes, Delete, Message
  <2>4. \A q \in Workers : Busy(q)' => Busy(q) /\ job'[q].slot = job[q].slot
    BY <2>1, <2>2 DEF Deletes, SameTask, Busy
  <2> QED BY <1>3, <2>3, <2>4
<1>5. CASE \E p \in Apis : Queues(p)
  <2>1. PICK p \in Apis : Queues(p)
    BY <1>5
  <2>2. PICK i \in Slots :
          /\ msgs[i].state = "unsent"
          /\ msgs' = [msgs EXCEPT ![i] = [state |-> "visible", event |-> EventOf(p), receives |-> 0]]
    BY <2>1 DEF Queues, Accept
  <2>3. /\ \A j \in Slots : msgs[j].state # "unsent"
             => msgs'[j].receives = msgs[j].receives /\ msgs'[j].state # "unsent"
        /\ \A j \in Slots : msgs'[j].state = "unsent" => msgs'[j] = msgs[j]
    BY <1>0, <2>2
  <2>4. \A q \in Workers : Busy(q)' => Busy(q) /\ job'[q].slot = job[q].slot
    BY <2>1 DEF Queues, Busy
  <2> QED BY <1>3, <2>3, <2>4
<1>6. CASE \E i \in Slots : Shifts(i)
  <2>1. PICK i \in Slots : Shifts(i)
    BY <1>6
  <2>2. /\ \A j \in Slots : msgs[j].state # "unsent"
             => msgs'[j].receives = msgs[j].receives /\ msgs'[j].state # "unsent"
        /\ \A j \in Slots : msgs'[j].state = "unsent" => msgs'[j] = msgs[j]
    BY <1>0, <2>1 DEF Shifts, VisibilityTimeout, DeadLetter, Expire, Redrive, Message
  <2>3. \A q \in Workers : Busy(q)' => Busy(q) /\ job'[q].slot = job[q].slot
    BY <2>1 DEF Shifts, Busy
  <2> QED BY <1>3, <2>2, <2>3
<1> QED BY <1>1, <1>2, <1>4, <1>5, <1>6, EveryQueueStep DEF QueueStep

(*------------------------------ conclusions -----------------------------*)

(* What concludes, and where a completed row comes from.                   *)
LEMMA OutcomesGrow ==
    ASSUME TypeInv, Next
    PROVE  \/ outcomes' = outcomes
           \/ \E p \in Workers, o \in Outcomes :
                /\ MarkWrite(p) \/ GiveUp(p) \/ FailLoad(p)
                /\ Busy(p) /\ CallOf(p) \in Calls
                /\ Conclude(CallOf(p), o)
<1>1. ASSUME NEW p \in Workers, WorkerActs(p)
      PROVE  \/ outcomes' = outcomes
             \/ \E o \in Outcomes :
                  /\ MarkWrite(p) \/ GiveUp(p) \/ FailLoad(p)
                  /\ Busy(p) /\ CallOf(p) \in Calls
                  /\ Conclude(CallOf(p), o)
  <2>1. CASE MarkWrite(p) \/ GiveUp(p) \/ FailLoad(p)
    <3>1. Busy(p) /\ CallOf(p) \in Calls
      BY <2>1, BusyCall DEF MarkWrite, GiveUp, FailLoad, Busy
    <3>2. outcomes' = outcomes \/ \E o \in Outcomes : Conclude(CallOf(p), o)
      BY <2>1 DEF MarkWrite, GiveUp, FailLoad, Outcomes
    <3> QED BY <2>1, <3>1, <3>2
  <2>2. CASE ~MarkWrite(p) /\ ~GiveUp(p) /\ ~FailLoad(p)
    BY <1>1, <2>2 DEF WorkerActs, WorkerStep, Proceed, Receive, Load, StoreObject, SyncCrm, MarkRead,
       SendReport, Ack, StepFails, AckLost, FailRead, Requeue, Drop, DropRaises, Crash, Restart
  <2> QED BY <2>1, <2>2
<1>2. CASE ~\E p \in Workers : WorkerActs(p)
  BY <1>2 DEF Next, ApiActs, DialOut, EraserActs, VisibilityTimeout, DeadLetter, workVars
<1> QED BY <1>1, <1>2

(* Only an event of Vapi's declares, and its step does nothing else that   *)
(* the contract sees.                                                      *)
LEMMA DeclaredBy ==
    ASSUME TypeInv, Next
    PROVE  /\ \A c \in Calls : Declared(c) \subseteq Declared(c)'
           /\ \/ \A c \in Calls : Declared(c)' = Declared(c)
              \/ /\ msgs' = msgs /\ outcomes' = outcomes
                 /\ \E d \in Calls : /\ Declared(d)' = {"declared"}
                                     /\ \A c \in Calls \ {d} : Declared(c)' = Declared(c)
<1> USE DEF TypeInv, TypeOK
<1>1. \A c \in Calls : Declared(c) \subseteq Declared(c)'
  BY Monotone DEF Declared
<1>2. ASSUME NEW said, \A c \in Calls : "completed" \in mishaps'[c] <=> "completed" \in mishaps[c]
      PROVE  \A c \in Calls : Declared(c)' = Declared(c)
  BY <1>2 DEF Declared
<1>3. ASSUME NEW p \in Workers, WorkerActs(p)
      PROVE  \A c \in Calls : "completed" \in mishaps'[c] <=> "completed" \in mishaps[c]
  <2>1. CASE MarkWrite(p) \/ Requeue(p) \/ GiveUp(p)
    <3>1. PICK d, seen, item : Upsert(d, seen, item, {})
      BY <2>1 DEF MarkWrite, Requeue, GiveUp
    <3> QED BY <3>1 DEF Upsert, StoreTypeOK
  <2>2. CASE Receive(p)
    <3>1. PICK i \in Slots, noted \in SUBSET {"overlap"} :
            mishaps' = [mishaps EXCEPT ![msgs[i].event.call] = @ \cup noted]
      BY <2>2 DEF Receive
    <3> QED BY <3>1 DEF StoreTypeOK
  <2>3. CASE AckLost(p)
    BY <2>3 DEF AckLost, StoreTypeOK
  <2>4. CASE ~(MarkWrite(p) \/ Requeue(p) \/ GiveUp(p) \/ Receive(p) \/ AckLost(p))
    BY <1>3, <2>4 DEF WorkerActs, WorkerStep, Proceed, Load, StoreObject, SyncCrm, MarkRead,
       SendReport, Ack, StepFails, FailLoad, FailRead, Drop, DropRaises, Crash, Restart, storeVars
  <2> QED BY <2>1, <2>2, <2>3, <2>4
<1>4. ASSUME NEW p \in Apis, ApiActs(p), ~Insert(p), ~UpdateWrite(p)
      PROVE  \A c \in Calls : "completed" \in mishaps'[c] <=> "completed" \in mishaps[c]
  <2>1. CASE SendLost(p)
    BY <2>1 DEF SendLost, StoreTypeOK
  <2>2. CASE ~SendLost(p)
    BY <1>4, <2>2 DEF ApiActs, ApiStep, HandlerStep, HandlerProceeds, VapiEvent, CallCenterEvent,
       ResumeStart, CheckAbsent, UpdateRead, Send, ApiFails, storeVars
  <2> QED BY <2>1, <2>2
<1>5. ASSUME NEW p \in Apis, ApiActs(p), Insert(p) \/ UpdateWrite(p)
      PROVE  /\ msgs' = msgs /\ outcomes' = outcomes
             /\ \E d \in Calls : \A c \in Calls \ {d} : Declared(c)' = Declared(c)
  <2>1. EventOf(p).call \in Calls
    BY <1>5, WebhooksAssumption DEF Insert, UpdateWrite, Serving, ApiTypeOK, Event
  <2>2. PICK seen, item, said : Upsert(EventOf(p).call, seen, item, said)
    BY <1>5 DEF Insert, UpdateWrite
  <2>3. \A c \in Calls \ {EventOf(p).call} : mishaps'[c] = mishaps[c]
    BY <2>2 DEF Upsert, StoreTypeOK
  <2>4. \A c \in Calls \ {EventOf(p).call} : Declared(c)' = Declared(c)
    BY <2>3 DEF Declared
  <2>5. msgs' = msgs /\ outcomes' = outcomes
    BY <1>5 DEF ApiActs, Insert, UpdateWrite, workVars
  <2> QED BY <2>1, <2>4, <2>5
<1>6. ASSUME NEW t \in Erasers, EraserActs(t)
      PROVE  \A c \in Calls : "completed" \in mishaps'[c] <=> "completed" \in mishaps[c]
  BY <1>6 DEF EraserActs, EraserStep, EraseBegin, EraseObject, EraseRow, EraseFails, storeVars,
     StoreTypeOK
<1>7. ASSUME DialOut \/ \E i \in Slots : VisibilityTimeout(i) \/ DeadLetter(i)
      PROVE  mishaps' = mishaps
  BY <1>7 DEF DialOut, Dial, VisibilityTimeout, DeadLetter, storeVars
<1>8. \/ \A c \in Calls : Declared(c)' = Declared(c)
      \/ \E p \in Apis : ApiActs(p) /\ (Insert(p) \/ UpdateWrite(p))
  BY <1>2, <1>3, <1>4, <1>6, <1>7 DEF Next
<1>9. ASSUME NEW p \in Apis, ApiActs(p), Insert(p) \/ UpdateWrite(p),
             ~\A c \in Calls : Declared(c)' = Declared(c)
      PROVE  /\ msgs' = msgs /\ outcomes' = outcomes
             /\ \E d \in Calls : /\ Declared(d)' = {"declared"}
                                 /\ \A c \in Calls \ {d} : Declared(c)' = Declared(c)
  <2>1. PICK d \in Calls : \A c \in Calls \ {d} : Declared(c)' = Declared(c)
    BY <1>5, <1>9
  <2>2. Declared(d)' # Declared(d)
    BY <1>9, <2>1
  <2>3. Declared(d)' = {"declared"}
    BY <1>1, <2>2 DEF Declared
  <2> QED BY <1>5, <1>9, <2>1, <2>3
<1> QED BY <1>1, <1>8, <1>9

LEMMA BecomesCompleted ==
    ASSUME TypeInv, Next, NEW c \in Calls, HasStatus(c, "completed")', ~HasStatus(c, "completed")
    PROVE  \/ \E p \in Workers : MarkWrite(p) /\ CallOf(p) = c
           \/ Declared(c)' # {}
<1> USE DEF TypeInv, TypeOK
<1>0. calls'[c] # calls[c] /\ calls'[c] # NoItem /\ calls'[c].status = "completed"
  BY DEF HasStatus, Exists
<1>1. ASSUME NEW p \in Workers, Requeue(p) \/ GiveUp(p),
             calls'[c] = Failed(job[p].seen, RetryCount(job[p].got))
      PROVE  FALSE
  <2>1. Base(job[p].seen) \in Item
    BY RowTypes DEF WorkTypeOK, Job
  <2> QED BY <1>0, <1>1, <2>1 DEF Failed, Item
<1>2. ASSUME NEW p \in Apis, EventOf(p) \in Events, EventOf(p).call = c, Insert(p),
             calls'[c] = NewItem(EventOf(p))
      PROVE  Declared(c)' # {}
  <2> DEFINE e == EventOf(p)
  <2>1. EmptyItem \in Item /\ e.source \in {"vapi", "call_center", "start"}
    <3>1. NoItem \in Snapshot
      BY DEF Snapshot
    <3> QED BY <1>2, <3>1, RowTypes, WebhooksAssumption DEF Base, Event
  <2>2. NewItem(e).status = CASE e.source = "start" -> "outbound_started"
                              [] e.source = "call_center" ->
                                   IF e.recorded THEN "queued" ELSE "received"
                              [] e.source = "vapi" -> e.status
    BY <2>1 DEF NewItem, Item
  <2>3. e.source = "vapi" /\ e.status = "completed"
    BY <1>0, <1>2, <2>1, <2>2
  <2>4. "completed" \in mishaps'[c]
    BY <1>2, <2>3 DEF Insert, Upsert, OwnWords, OwnStatuses, StoreTypeOK
  <2> QED BY <2>4 DEF Declared
<1>3. ASSUME NEW p \in Apis, EventOf(p) \in Events, EventOf(p).call = c, UpdateWrite(p),
             calls'[c] = Updated(api[p].seen, EventOf(p))
      PROVE  Declared(c)' # {}
  <2>1. Base(api[p].seen) \in Item
    BY RowTypes DEF ApiTypeOK, Handler
  <2>2. EventOf(p).status = "completed"
    BY <1>0, <1>3, <2>1 DEF Updated, Item
  <2>3. "completed" \in mishaps'[c]
    BY <1>3, <2>2 DEF UpdateWrite, Upsert, OwnWords, OwnStatuses, StoreTypeOK
  <2> QED BY <2>3 DEF Declared
<1> QED BY <1>0, <1>1, <1>2, <1>3, RowWritten

LEMMA ConcludedStep ==
    ASSUME TypeInv, TypeInv', Concluded, Next
    PROVE  Concluded'
<1> USE DEF TypeInv, TypeOK
<1>0. outcomes \in [Calls -> SUBSET Outcomes] /\ job \in [Workers -> Job]
  BY DEF WorkTypeOK
<1>1. \A c \in Calls : Verdicts(c) \subseteq Verdicts(c)'
  <2>1. \A c \in Calls : outcomes[c] \subseteq outcomes'[c]
    BY <1>0, OutcomesGrow DEF Conclude
  <2> QED BY <2>1, DeclaredBy DEF Verdicts
<1>2. ASSUME NEW p \in Workers, MarkWrite(p) \/ GiveUp(p) PROVE outcomes'[CallOf(p)] # {}
  <2>1. CallOf(p) \in Calls
    BY <1>2, BusyCall DEF MarkWrite, GiveUp, Busy
  <2> QED BY <1>0, <1>2, <2>1 DEF MarkWrite, GiveUp, Conclude
<1>3. ASSUME NEW c \in Calls, HasStatus(c, "completed")' PROVE Verdicts(c)' # {}
  <2>1. CASE HasStatus(c, "completed")
    BY <1>1, <2>1 DEF Concluded
  <2>2. CASE ~HasStatus(c, "completed")
    BY <1>2, <1>3, <2>2, BecomesCompleted DEF Verdicts
  <2> QED BY <2>1, <2>2
<1>4. ASSUME NEW p \in Workers, Settling(p)', NEW c, c = CallOf(p)' PROVE Verdicts(c)' # {}
  <2>1. CASE Busy(p) /\ job'[p].slot = job[p].slot
    <3>1. CallOf(p)' = CallOf(p) /\ CallOf(p) \in Calls
      BY <2>1, SameCall
    <3>2. CASE Settling(p)
      BY <1>1, <1>4, <3>1, <3>2 DEF Concluded
    <3>3. CASE MarkWrite(p) \/ GiveUp(p)
      BY <1>2, <1>4, <3>1, <3>3 DEF Verdicts
    <3>4. CASE Load(p)
      <4>1. job'[p].pc = AfterLoad(calls[CallOf(p)])
        BY <1>0, <3>4 DEF Load, Goto, Job
      <4>2. HasStatus(CallOf(p), "completed")
        BY <1>4, <4>1 DEF AfterLoad, AlreadyDone, Settling, HasStatus, Exists
      <4> QED BY <1>1, <1>4, <3>1, <4>2 DEF Concluded
    <3>5. CASE FailLoad(p)
      <4>1. CASE Exists(CallOf(p))
        BY <1>0, <1>4, <3>5, <4>1 DEF FailLoad, Settling, Job
      <4>2. CASE ~Exists(CallOf(p))
        BY <1>0, <1>4, <3>1, <3>5, <4>2 DEF FailLoad, Conclude, Verdicts
      <4> QED BY <4>1, <4>2
    <3>6. CASE StoreObject(p) \/ SyncCrm(p) \/ MarkRead(p) \/ StepFails(p) \/ FailRead(p) \/ AckLost(p)
      <4>1. CASE StoreObject(p)
        <5>1. job'[p].pc = StageAfter(job[p].pc) /\ job[p].pc \in Kinds
          BY <1>0, <4>1 DEF StoreObject, Goto, Job
        <5>2. StageAfter(job[p].pc) \in {"transcript", "report", "crm"}
          BY <5>1 DEF StageAfter, Kinds
        <5> QED BY <1>4, <5>1, <5>2 DEF Settling
      <4>2. CASE SyncCrm(p) \/ MarkRead(p) \/ StepFails(p) \/ FailRead(p) \/ AckLost(p)
        <5>0. p \in DOMAIN job /\ DOMAIN job[p] = {"pc", "slot", "receipt", "got", "seen"}
          BY <1>0 DEF Job
        <5>2. SyncCrm(p) => job'[p].pc = "mark_read"
          BY <5>0 DEF SyncCrm, Goto
        <5>3. MarkRead(p) => job'[p].pc = "mark_write"
          BY <5>0 DEF MarkRead
        <5>4. StepFails(p) => job'[p].pc = "fail_load"
          BY <5>0 DEF StepFails
        <5>5. FailRead(p) => job'[p].pc = "fail_write"
          BY <5>0 DEF FailRead
        <5>6. AckLost(p) => job'[p].pc = "fail_load"
          BY <5>0 DEF AckLost, Goto
        <5>1. job'[p].pc \in {"mark_read", "mark_write", "fail_load", "fail_write"}
          BY <4>2, <5>2, <5>3, <5>4, <5>5, <5>6
        <5> QED BY <1>4, <5>1 DEF Settling
      <4> QED BY <3>6, <4>1, <4>2
    <3>7. CASE Requeue(p) \/ Receive(p) \/ Crash(p) \/ Restart(p)
      <4>1. CASE Receive(p)
        BY <2>1, <4>1 DEF Receive, Busy
      <4>2. CASE Requeue(p) \/ Crash(p) \/ Restart(p)
        <5>1. job'[p] \in {IdleJob, DownJob}
          BY <1>0, <4>2 DEF Requeue, Crash, Restart, Finish, Exit
        <5> QED BY <1>4, <5>1 DEF IdleJob, DownJob, Settling
      <4> QED BY <3>7, <4>1, <4>2
    <3>8. CASE SendReport(p) \/ Ack(p) \/ Drop(p) \/ DropRaises(p)
      BY <3>2, <3>8 DEF SendReport, Ack, Drop, DropRaises, Settling
    <3>9. CASE job'[p] = job[p]
      BY <1>4, <3>2, <3>9 DEF Settling
    <3> QED BY <3>2, <3>3, <3>4, <3>5, <3>6, <3>7, <3>8, <3>9, JobChange DEF WorkerActs, WorkerStep,
            Proceed
  <2>2. CASE ~(Busy(p) /\ job'[p].slot = job[p].slot)
    <3>1. Busy(p)'
      BY <1>4 DEF Settling, Busy
    <3>2. Takes(p, job'[p].slot) \/ \E i \in Slots : Takes(p, i)
      <4>1. ~Quiet
        BY <2>2, <3>1 DEF Quiet, SameTask
      <4>2. ASSUME NEW q \in Workers, Deletes(q) PROVE FALSE
        <5>1. Busy(q)
          BY <4>2 DEF Deletes, Deleter, Ack, Drop, AckLost, Busy
        <5> QED BY <2>2, <3>1, <4>2, <5>1 DEF Deletes, SameTask, Busy
      <4>3. ASSUME NEW q \in Workers, NEW i \in Slots, Takes(q, i) PROVE q = p
        BY <2>2, <3>1, <4>3 DEF Takes, Busy
      <4>4. ~(\E q \in Apis : Queues(q)) /\ ~\E i \in Slots : Shifts(i)
        BY <2>2, <3>1 DEF Queues, Shifts, Busy
      <4> QED BY <4>1, <4>2, <4>3, <4>4, EveryQueueStep DEF QueueStep
    <3>3. ~Busy(p)
      BY <3>2 DEF Takes
    <3>4. WorkerActs(p)
      BY <3>1, <3>3, JobChange DEF Busy
    <3>5. Receive(p) \/ Restart(p)
      BY <3>3, <3>4 DEF WorkerActs, WorkerStep, Proceed, Busy, Load, StoreObject, SyncCrm, MarkRead,
         MarkWrite, SendReport, Ack, StepFails, AckLost, FailLoad, FailRead, Requeue, GiveUp, Drop,
         DropRaises, ProcessSteps, Kinds, Crash
    <3>6. job'[p].pc \in {"load", "idle"}
      <4>1. CASE Receive(p)
        <5>1. PICK i \in Slots : job' = [job EXCEPT ![p] =
                 [IdleJob EXCEPT !.pc = "load", !.slot = i, !.receipt = msgs'[i].receives]]
          BY <4>1 DEF Receive
        <5> QED BY <1>0, <5>1 DEF IdleJob
      <4>2. CASE Restart(p)
        BY <1>0, <4>2 DEF Restart, Finish, IdleJob
      <4> QED BY <3>5, <4>1, <4>2
    <3> QED BY <1>4, <3>6 DEF Settling
  <2> QED BY <2>1, <2>2
<1>5. \A p \in Workers : Settling(p)' => Verdicts(CallOf(p))' # {}
  BY <1>4 DEF Verdicts, Declared
<1> QED BY <1>3, <1>5 DEF Concluded

LEMMA NextContract == TypeInv /\ TypeInv' /\ ContractInv /\ [Next]_vars => ContractInv'
<1> SUFFICES ASSUME TypeInv, TypeInv', ContractInv, [Next]_vars PROVE ContractInv'
  OBVIOUS
<1>1. CASE Next
  BY <1>1, ReceivesGrow, ConcludedStep DEF ContractInv
<1>2. CASE UNCHANGED vars
  BY <1>2 DEF vars, storeVars, workVars, ContractInv, Taken, Concluded, Verdicts, Declared,
     Settling, Busy, CallOf, HasStatus, Exists
<1> QED BY <1>1, <1>2

(*------------------------------ refinement ------------------------------*)

(* The state of the contract that a state of the queue stands for.         *)
SubjectOf(m) == IF m.state = "unsent" THEN "nothing" ELSE m.event.call
StageMap     == [i \in Slots |-> Stage(msgs[i].state)]
DeliveryMap  == [i \in Slots |-> msgs[i].receives]
SubjectMap   == [i \in Slots |-> IF msgs[i].state = "unsent" THEN "nothing"
                                 ELSE msgs[i].event.call]
VerdictMap   == [c \in Calls |-> Verdicts(c)]

(* What a step does to one message, seen message by message.               *)
LEMMA SlotChange ==
    ASSUME NEW i \in Slots, NEW m, msgs \in [Slots -> Message], msgs' = [msgs EXCEPT ![i] = m]
    PROVE  \A j \in Slots : msgs'[j] = IF j = i THEN m ELSE msgs[j]
OBVIOUS

LEMMA SameMaps ==
    \A i \in Slots : /\ StageMap[i] = Stage(msgs[i].state)
                     /\ DeliveryMap[i] = msgs[i].receives
                     /\ SubjectMap[i] = SubjectOf(msgs[i])
BY DEF StageMap, DeliveryMap, SubjectMap, SubjectOf

LEMMA StageValues ==
    /\ Stage("unsent") = "absent" /\ Stage("visible") = "waiting" /\ Stage("inflight") = "taken"
    /\ Stage("deleted") = "settled" /\ Stage("dead") = "set aside"
BY DEF Stage

LEMMA RefinesInit == Init => Contract!Init
BY DEF Init, StoreInit, QueueInit, WorkInit, Contract!Init, Stage, Declared

(* Whoever deletes a message holds a receipt for it, so that it is in      *)
(* flight, or already deleted.                                             *)
LEMMA DeletedWasTaken ==
    ASSUME TypeInv, NEW p \in Workers, Deletes(p)
    PROVE  /\ Busy(p) /\ job[p].slot \in Slots /\ Settling(p)
           /\ msgs[job[p].slot].state \in {"inflight", "deleted"}
<1>1. job[p].pc \in {"ack", "drop"} /\ ReceiptValid(job[p].slot, job[p].receipt)
  BY DEF Deletes, Deleter, Ack, Drop, AckLost, CanDrop
<1> QED BY <1>1, BusyCall DEF Busy, Settling, ReceiptValid

(* A step that changes the verdicts leaves the messages alone, and is one  *)
(* worker's conclusion or one declaration.                                 *)
LEMMA VerdictChange ==
    ASSUME TypeInv, Next, VerdictMap' # VerdictMap
    PROVE  /\ msgs' = msgs
           /\ \/ \E p \in Workers, o \in Outcomes :
                   /\ Busy(p) /\ CallOf(p) \in Calls
                   /\ VerdictMap' = [VerdictMap EXCEPT ![CallOf(p)] = @ \cup {o}]
              \/ \E c \in Calls : VerdictMap' = [VerdictMap EXCEPT ![c] = @ \cup {"declared"}]
<1>0. outcomes \in [Calls -> SUBSET Outcomes]
  BY DEF TypeInv, TypeOK, WorkTypeOK
<1>1. \A c \in Calls : Verdicts(c)' = outcomes'[c] \cup Declared(c)'
  BY DEF Verdicts
<1>2. CASE outcomes' = outcomes
  <2>1. ~\A c \in Calls : Declared(c)' = Declared(c)
    BY <1>1, <1>2 DEF VerdictMap, Verdicts
  <2>2. msgs' = msgs
    BY <2>1, DeclaredBy
  <2>3. PICK d \in Calls : /\ Declared(d)' = {"declared"}
                           /\ \A c \in Calls \ {d} : Declared(c)' = Declared(c)
    BY <2>1, DeclaredBy
  <2>4. Declared(d) \subseteq {"declared"}
    BY DEF Declared
  <2>5. \A c \in Calls : Verdicts(c)' = IF c = d THEN Verdicts(c) \cup {"declared"} ELSE Verdicts(c)
    BY <1>1, <1>2, <2>3, <2>4 DEF Verdicts
  <2>6. VerdictMap' = [VerdictMap EXCEPT ![d] = @ \cup {"declared"}]
    BY <2>5 DEF VerdictMap
  <2> QED BY <2>2, <2>6
<1>3. CASE outcomes' # outcomes
  <2>1. PICK p \in Workers, o \in Outcomes :
          /\ MarkWrite(p) \/ GiveUp(p) \/ FailLoad(p)
          /\ Busy(p) /\ CallOf(p) \in Calls
          /\ Conclude(CallOf(p), o)
    BY <1>3, OutcomesGrow
  <2>2. msgs' = msgs
    BY <2>1 DEF MarkWrite, GiveUp, FailLoad
  <2>3. \A c \in Calls : Declared(c)' = Declared(c)
    BY <1>3, DeclaredBy
  <2>4. PICK d \in Calls : d = CallOf(p)
    BY <2>1
  <2>5. \A c \in Calls : Verdicts(c)' = IF c = d THEN Verdicts(c) \cup {o} ELSE Verdicts(c)
    BY <1>0, <1>1, <2>1, <2>3, <2>4 DEF Verdicts, Conclude
  <2>6. VerdictMap' = [VerdictMap EXCEPT ![d] = @ \cup {o}]
    BY <2>5 DEF VerdictMap
  <2> QED BY <2>1, <2>2, <2>4, <2>6
<1> QED BY <1>2, <1>3

LEMMA RefinesStep ==
    ASSUME TypeInv, TypeInv', ContractInv, [Next]_vars
    PROVE  [Contract!Next]_(Contract!vars)
<1> USE DEF TypeInv, TypeOK
<1>0. /\ msgs \in [Slots -> Message] /\ outcomes \in [Calls -> SUBSET Outcomes]
      /\ \A i \in Slots : msgs[i].receives \in Nat
  BY DEF QueueTypeOK, WorkTypeOK, Message
<1>1. CASE msgs' = msgs /\ VerdictMap' = VerdictMap
  BY <1>1 DEF Contract!vars, VerdictMap, Verdicts
<1>2. ASSUME msgs' = msgs, VerdictMap' # VerdictMap PROVE Contract!Next
  <2>1. Next
    BY <1>2 DEF vars, workVars, storeVars, VerdictMap, Verdicts, Declared
  <2>2. ASSUME NEW p \in Workers, NEW o \in Outcomes, Busy(p), CallOf(p) \in Calls,
               VerdictMap' = [VerdictMap EXCEPT ![CallOf(p)] = @ \cup {o}]
        PROVE  Contract!Next
    <3>1. job[p].slot \in Slots /\ SubjectMap[job[p].slot] = CallOf(p) /\ DeliveryMap[job[p].slot] > 0
      BY <2>2, BusyCall, SameMaps DEF SubjectOf, CallOf, ContractInv, Taken
    <3>2. Contract!Conclude(CallOf(p), o)
      BY <1>2, <2>2, <3>1 DEF Contract!Conclude, StageMap, DeliveryMap, SubjectMap, VerdictMap, Verdicts
    <3> QED BY <2>2, <3>2 DEF Contract!Next
  <2>3. ASSUME NEW c \in Calls, VerdictMap' = [VerdictMap EXCEPT ![c] = @ \cup {"declared"}]
        PROVE  Contract!Next
    <3>1. Contract!Declare(c)
      BY <1>2, <2>3 DEF Contract!Declare, VerdictMap, Verdicts
    <3> QED BY <3>1 DEF Contract!Next
  <2> QED BY <1>2, <2>1, <2>2, <2>3, VerdictChange
<1>3. ASSUME msgs' # msgs PROVE [Contract!Next]_(Contract!vars)
  <2>1. Next /\ VerdictMap' = VerdictMap
    BY <1>3, VerdictChange DEF vars
  <2>2. ASSUME NEW p \in Workers, NEW i \in Slots, Takes(p, i) PROVE Contract!Deliver(i)
    <3> DEFINE m == [msgs[i] EXCEPT !.state = "inflight", !.receives = msgs[i].receives + 1]
    <3>1. msgs[i].state = "visible" /\ msgs[i].receives < MaxReceive /\ msgs' = [msgs EXCEPT ![i] = m]
      BY <1>0, <2>2 DEF Takes, Take, Receivable
    <3>2. /\ m.state = "inflight" /\ m.receives = msgs[i].receives + 1 /\ m.event = msgs[i].event
      BY <1>0 DEF Message
    <3>3. /\ StageMap[i] = "waiting" /\ StageMap' = [StageMap EXCEPT ![i] = "taken"]
          /\ DeliveryMap[i] < MaxReceive
          /\ DeliveryMap' = [DeliveryMap EXCEPT ![i] = DeliveryMap[i] + 1]
          /\ SubjectMap' = SubjectMap
      <4> HIDE DEF m
      <4>1. \A j \in Slots : msgs'[j] = IF j = i THEN m ELSE msgs[j]
        BY <1>0, <3>1, SlotChange
      <4>2. StageMap' = [StageMap EXCEPT ![i] = "taken"]
        BY <3>2, <4>1, StageValues DEF StageMap
      <4>3. DeliveryMap' = [DeliveryMap EXCEPT ![i] = DeliveryMap[i] + 1]
        BY <3>2, <4>1 DEF DeliveryMap
      <4>4. SubjectMap' = SubjectMap
        BY <3>1, <3>2, <4>1 DEF SubjectMap
      <4> QED BY <3>1, <4>2, <4>3, <4>4, SameMaps, StageValues DEF SubjectOf
    <3> QED BY <2>1, <3>3 DEF Contract!Deliver, StageMap, DeliveryMap, SubjectMap,
       VerdictMap, Verdicts
  <2>3. ASSUME NEW p \in Workers, Deletes(p) PROVE Contract!Settle(job[p].slot)
    <3> DEFINE i == job[p].slot
               m == [msgs[i] EXCEPT !.state = "deleted"]
    <3>1. i \in Slots /\ msgs' = [msgs EXCEPT ![i] = m]
      BY <2>3, DeletedWasTaken DEF Deletes, Delete
    <3>2. m.state = "deleted" /\ m.receives = msgs[i].receives /\ m.event = msgs[i].event
      BY <1>0, <3>1 DEF Message
    <3>3. msgs[i].state = "inflight"
      <4>1. CASE msgs[i].state = "deleted"
        <5>1. m = msgs[i]
          BY <1>0, <3>1, <4>1 DEF Message
        <5> QED BY <1>0, <1>3, <3>1, <5>1
      <4> QED BY <2>3, <4>1, DeletedWasTaken
    <3>4. Verdicts(msgs[i].event.call) # {}
      BY <2>3, DeletedWasTaken DEF ContractInv, Concluded, CallOf
    <3>6. /\ SubjectMap[i] = msgs[i].event.call /\ SubjectMap[i] \in Calls
          /\ VerdictMap[SubjectMap[i]] # {}
      <4>1. Busy(p) /\ msgs[i].state # "unsent"
        BY <2>3, <3>3 DEF Deletes, Deleter, Ack, Drop, AckLost, Busy
      <4>2. msgs[i].event.call \in Calls
        BY <2>3, <4>1, BusyCall DEF CallOf
      <4> QED BY <3>1, <3>4, <4>1, <4>2 DEF SubjectMap, VerdictMap, SubjectOf
    <3>5. /\ StageMap[i] = "taken" /\ StageMap' = [StageMap EXCEPT ![i] = "settled"]
          /\ DeliveryMap' = DeliveryMap /\ SubjectMap' = SubjectMap
          /\ SubjectMap[i] = msgs[i].event.call
      <4> HIDE DEF m, i
      <4>1. \A j \in Slots : msgs'[j] = IF j = i THEN m ELSE msgs[j]
        BY <1>0, <3>1, SlotChange
      <4>2. StageMap' = [StageMap EXCEPT ![i] = "settled"]
        BY <3>2, <4>1, StageValues DEF StageMap
      <4>3. DeliveryMap' = DeliveryMap
        BY <3>2, <4>1 DEF DeliveryMap
      <4>4. SubjectMap' = SubjectMap
        BY <3>1, <3>2, <3>3, <4>1 DEF SubjectMap
      <4> QED BY <3>1, <3>3, <4>2, <4>3, <4>4, SameMaps, StageValues DEF SubjectOf
    <3> QED BY <2>1, <3>6, <3>5 DEF Contract!Settle, StageMap, DeliveryMap, SubjectMap,
       VerdictMap, Verdicts
  <2>4. ASSUME NEW p \in Apis, Queues(p)
        PROVE  \E i \in Slots, c \in Calls : Contract!Submit(i, c)
    <3>1. PICK c \in Calls : c = EventOf(p).call
      BY <2>4, WebhooksAssumption DEF Queues, Send, Serving, ApiTypeOK, Event
    <3> DEFINE m == [state |-> "visible", event |-> EventOf(p), receives |-> 0]
    <3>2. PICK i \in Slots : msgs[i].state = "unsent" /\ msgs' = [msgs EXCEPT ![i] = m]
      BY <2>4 DEF Queues, Accept
    <3>3. msgs[i].receives = 0
      BY <3>2 DEF ContractInv, Taken
    <3>4. m.state = "visible" /\ m.receives = 0 /\ m.event = EventOf(p)
      OBVIOUS
    <3>5. /\ StageMap[i] = "absent" /\ StageMap' = [StageMap EXCEPT ![i] = "waiting"]
          /\ DeliveryMap' = DeliveryMap
          /\ SubjectMap' = [SubjectMap EXCEPT ![i] = c]
      <4> HIDE DEF m
      <4>1. \A j \in Slots : msgs'[j] = IF j = i THEN m ELSE msgs[j]
        BY <1>0, <3>2, SlotChange
      <4>2. StageMap' = [StageMap EXCEPT ![i] = "waiting"]
        BY <3>4, <4>1, StageValues DEF StageMap
      <4>3. DeliveryMap' = DeliveryMap
        BY <3>3, <3>4, <4>1 DEF DeliveryMap
      <4>4. SubjectMap' = [SubjectMap EXCEPT ![i] = c]
        BY <3>1, <3>4, <4>1 DEF SubjectMap
      <4> QED BY <3>2, <4>2, <4>3, <4>4, SameMaps, StageValues
    <3>6. Contract!Submit(i, c)
      BY <2>1, <3>5 DEF Contract!Submit, StageMap, DeliveryMap, SubjectMap,
       VerdictMap, Verdicts
    <3> QED BY <3>6
  <2>5. ASSUME NEW i \in Slots, Shifts(i) PROVE Contract!Return(i) \/ Contract!SetAside(i)
    <3>1. CASE VisibilityTimeout(i)
      <4> DEFINE m == [msgs[i] EXCEPT !.state = "visible"]
      <4>1. msgs[i].state = "inflight" /\ msgs' = [msgs EXCEPT ![i] = m]
        BY <3>1 DEF VisibilityTimeout, Expire
      <4>2. m.state = "visible" /\ m.receives = msgs[i].receives /\ m.event = msgs[i].event
        BY <1>0 DEF Message
      <4>3. /\ StageMap[i] = "taken" /\ StageMap' = [StageMap EXCEPT ![i] = "waiting"]
            /\ DeliveryMap' = DeliveryMap /\ SubjectMap' = SubjectMap
        <5> HIDE DEF m
        <5>1. \A j \in Slots : msgs'[j] = IF j = i THEN m ELSE msgs[j]
          BY <1>0, <4>1, SlotChange
        <5>2. StageMap' = [StageMap EXCEPT ![i] = "waiting"]
          BY <4>2, <5>1, StageValues DEF StageMap
        <5>3. DeliveryMap' = DeliveryMap
          BY <4>2, <5>1 DEF DeliveryMap
        <5>4. SubjectMap' = SubjectMap
          BY <4>1, <4>2, <5>1 DEF SubjectMap
        <5> QED BY <4>1, <5>2, <5>3, <5>4, SameMaps, StageValues DEF SubjectOf
      <4> QED BY <2>1, <4>3 DEF Contract!Return, StageMap, DeliveryMap, SubjectMap,
       VerdictMap, Verdicts
    <3>2. CASE DeadLetter(i)
      <4> DEFINE m == [msgs[i] EXCEPT !.state = "dead"]
      <4>1. msgs[i].state = "visible" /\ msgs[i].receives = MaxReceive /\ msgs' = [msgs EXCEPT ![i] = m]
        BY <3>2 DEF DeadLetter, Redrive
      <4>2. m.state = "dead" /\ m.receives = msgs[i].receives /\ m.event = msgs[i].event
        BY <1>0 DEF Message
      <4>3. /\ StageMap[i] = "waiting" /\ StageMap' = [StageMap EXCEPT ![i] = "set aside"]
            /\ DeliveryMap[i] = MaxReceive
            /\ DeliveryMap' = DeliveryMap /\ SubjectMap' = SubjectMap
        <5> HIDE DEF m
        <5>1. \A j \in Slots : msgs'[j] = IF j = i THEN m ELSE msgs[j]
          BY <1>0, <4>1, SlotChange
        <5>2. StageMap' = [StageMap EXCEPT ![i] = "set aside"]
          BY <4>2, <5>1, StageValues DEF StageMap
        <5>3. DeliveryMap' = DeliveryMap
          BY <4>2, <5>1 DEF DeliveryMap
        <5>4. SubjectMap' = SubjectMap
          BY <4>1, <4>2, <5>1 DEF SubjectMap
        <5> QED BY <4>1, <5>2, <5>3, <5>4, SameMaps, StageValues DEF SubjectOf
      <4> QED BY <2>1, <4>3 DEF Contract!SetAside, StageMap, DeliveryMap, SubjectMap,
       VerdictMap, Verdicts
    <3> QED BY <2>5, <3>1, <3>2 DEF Shifts
  <2>6. Contract!Next
    <3>1. \/ \E p \in Workers, i \in Slots : Takes(p, i)
          \/ \E p \in Workers : Deletes(p)
          \/ \E p \in Apis : Queues(p)
          \/ \E i \in Slots : Shifts(i)
      BY <1>3, <2>1, EveryQueueStep DEF QueueStep, Quiet
    <3> QED BY <2>2, <2>3, <2>4, <2>5, <3>1, DeletedWasTaken DEF Contract!Next
  <2> QED BY <2>6
<1> QED BY <1>1, <1>2, <1>3

(* The worker never settles a message before an outcome of its call was    *)
(* concluded or an event said that it is completed, and the queue delivers none more often than it may: for any  *)
(* number of calls, messages, workers and API processes every behaviour    *)
(* of the pipeline is one of the contract.                                 *)
THEOREM ContractKept == Spec => KeepsContract
<1>1. Init => TypeInv /\ ContractInv /\ Contract!Init
  BY InitType, InitContract, RefinesInit
<1>2. TypeInv /\ ContractInv /\ [Next]_vars => TypeInv' /\ ContractInv'
  BY NextType, NextContract
<1>3. TypeInv /\ TypeInv' /\ ContractInv /\ [Next]_vars => [Contract!Next]_(Contract!vars)
  BY RefinesStep
<1> QED BY <1>1, <1>2, <1>3, PTL DEF Spec, KeepsContract, Contract!Spec

(*--------------------- what a retry count stands for --------------------*)

(* The receive a worker works on, and whether it may still count it.       *)
ReceiveOf(p) == <<job[p].slot, job[p].receipt>>
Counting(p)  == Busy(p) /\ job[p].pc # "drop"

(* The receives of a call that no worker is still to count.                *)
Spent(c) == Deliveries(c) \ {ReceiveOf(p) : p \in {q \in Workers : Counting(q)}}

SaidFailed(c) == "failed" \in mishaps[c]

(* What may be said of a row of a call, whenever it was read: every retry  *)
(* it counts is a receive of its own, and none but the last gave it up.    *)
Counted(c, seen) ==
    seen # NoItem => /\ seen.retry <= Cardinality(Spent(c))
                     /\ seen.status = "failed" => MaxRetry <= seen.retry \/ SaidFailed(c)

(* No receipt is given twice.                                              *)
ReceiptsDiffer ==
    /\ \A p \in Workers : Busy(p) => job[p].receipt \in 1..msgs[job[p].slot].receives
    /\ \A p, q \in Workers :
         (p # q /\ Busy(p) /\ Busy(q)) => ReceiveOf(p) # ReceiveOf(q)

RetryInv ==
    /\ ReceiptsDiffer
    /\ \A c \in Calls : Counted(c, calls[c])
    /\ \A p \in Workers : Busy(p) =>
         Counted(CallOf(p), job[p].seen) /\ Counted(CallOf(p), job[p].got)
    /\ \A p \in Apis : api[p].pc # "idle" => Counted(EventOf(p).call, api[p].seen)

(*-------------------------- a worker's receipt --------------------------*)

(* What a step does to a worker that is busy after it: it goes on with the *)
(* receive it works on, or has just taken a message up.                    *)
LEMMA ReceiptKept ==
    ASSUME TypeInv, Next, NEW p \in Workers, Busy(p)'
    PROVE  \/ /\ Busy(p)
              /\ job'[p].slot = job[p].slot /\ job'[p].receipt = job[p].receipt
              /\ job[p].pc = "drop" => job'[p].pc = "drop"
           \/ \E i \in Slots :
                /\ ~Busy(p) /\ Take(i) /\ \A q \in Workers \ {p} : job'[q] = job[q]
                /\ job'[p].slot = i /\ job'[p].receipt = msgs'[i].receives
                /\ job'[p].seen = NoItem /\ job'[p].got = NoItem
<1>0. job \in [Workers -> Job]
  BY DEF TypeInv, TypeOK, WorkTypeOK
<1>1. CASE job'[p] = job[p]
  BY <1>1 DEF Busy
<1>2. CASE job'[p] # job[p]
  <2>1. WorkerActs(p)
    BY <1>2, JobChange
  <2>2. CASE Receive(p)
    <3>1. PICK i \in Slots : Take(i) /\ job' = [job EXCEPT ![p] =
             [IdleJob EXCEPT !.pc = "load", !.slot = i, !.receipt = msgs'[i].receives]]
      BY <2>2 DEF Receive
    <3>2. /\ job'[p].slot = i /\ job'[p].receipt = msgs'[i].receives
          /\ job'[p].seen = NoItem /\ job'[p].got = NoItem
      BY <1>0, <3>1 DEF IdleJob
    <3>3. ~Busy(p) /\ \A q \in Workers \ {p} : job'[q] = job[q]
      BY <1>0, <2>2, <3>1 DEF Receive, Busy
    <3> QED BY <3>1, <3>2, <3>3
  <2>3. CASE Load(p) \/ StoreObject(p) \/ SyncCrm(p) \/ SendReport(p) \/ AckLost(p)
    <3>1. PICK pc : job' = [job EXCEPT ![p].pc = pc]
      BY <2>3 DEF Load, StoreObject, SyncCrm, SendReport, AckLost, Goto
    <3>2. Busy(p) /\ job[p].pc # "drop"
      BY <2>3 DEF Load, StoreObject, SyncCrm, SendReport, AckLost, Kinds, Busy
    <3> QED BY <1>0, <3>1, <3>2 DEF Job
  <2>4. CASE MarkRead(p) \/ MarkWrite(p) \/ StepFails(p) \/ FailRead(p)
    BY <1>0, <2>4 DEF MarkRead, MarkWrite, StepFails, FailRead, ProcessSteps, Job, Busy
  <2>5. CASE FailLoad(p) \/ GiveUp(p)
    BY <1>0, <2>5 DEF FailLoad, GiveUp, Goto, Job, Busy
  <2>6. CASE Ack(p) \/ Requeue(p) \/ Drop(p) \/ DropRaises(p) \/ Crash(p) \/ Restart(p)
    BY <1>0, <2>6 DEF Ack, Requeue, Drop, DropRaises, Crash, Restart, Finish, Exit, IdleJob,
       DownJob, Busy
  <2> QED BY <2>1, <2>2, <2>3, <2>4, <2>5, <2>6 DEF WorkerActs, WorkerStep, Proceed
<1> QED BY <1>1, <1>2

(* A take counts one receive more than any receipt given so far.           *)
LEMMA TakeCounts ==
    ASSUME TypeInv, NEW i \in Slots, Take(i)
    PROVE  /\ msgs'[i].receives = msgs[i].receives + 1 /\ msgs[i].receives \in Nat
           /\ msgs'[i].receives \in Nat /\ msgs[i].state # "unsent"
           /\ \A j \in Slots \ {i} : msgs'[j] = msgs[j]
BY DEF TypeInv, TypeOK, QueueTypeOK, Message, Take, Receivable

LEMMA ReceiptsDifferStep ==
    ASSUME TypeInv, TypeInv', Taken, ReceiptsDiffer, Next
    PROVE  ReceiptsDiffer'
<1>0. /\ \A i \in Slots : msgs[i].receives \in Nat /\ msgs'[i].receives \in Nat
      /\ \A p \in Workers : job[p].receipt \in Nat /\ job'[p].receipt \in Nat
  BY DEF TypeInv, TypeOK, QueueTypeOK, WorkTypeOK, Message, Job
<1>1. ASSUME NEW p \in Workers, Busy(p)'
      PROVE  job'[p].receipt \in 1..msgs'[job'[p].slot].receives
  <2>1. CASE Busy(p) /\ job'[p].slot = job[p].slot /\ job'[p].receipt = job[p].receipt
    <3>1. job[p].slot \in Slots /\ msgs[job[p].slot].state # "unsent"
      BY <2>1, BusyCall
    <3>2. msgs'[job[p].slot].receives >= msgs[job[p].slot].receives
      BY <3>1, ReceivesGrow
    <3>3. job[p].receipt \in 1..msgs[job[p].slot].receives
      BY <2>1 DEF ReceiptsDiffer
    <3> QED BY <1>0, <2>1, <3>1, <3>2, <3>3
  <2>2. ASSUME NEW i \in Slots, Take(i), job'[p].slot = i, job'[p].receipt = msgs'[i].receives
        PROVE  job'[p].receipt \in 1..msgs'[job'[p].slot].receives
    BY <1>0, <2>2, TakeCounts
  <2> QED BY <1>1, <2>1, <2>2, ReceiptKept
<1>2. ASSUME NEW p \in Workers, NEW q \in Workers, p # q, Busy(p)', Busy(q)',
             NEW i \in Slots, Take(i), \A r \in Workers \ {p} : job'[r] = job[r],
             job'[p].slot = i, job'[p].receipt = msgs'[i].receives
      PROVE  <<job'[p].slot, job'[p].receipt>> # <<job'[q].slot, job'[q].receipt>>
  <2>1. job'[q] = job[q] /\ Busy(q)
    BY <1>2 DEF Busy
  <2>2. job[q].receipt \in 1..msgs[job[q].slot].receives
    BY <2>1 DEF ReceiptsDiffer
  <2> QED BY <1>0, <1>2, <2>1, <2>2, TakeCounts
<1>3. ASSUME NEW p \in Workers, NEW q \in Workers, p # q, Busy(p)', Busy(q)'
      PROVE  <<job'[p].slot, job'[p].receipt>> # <<job'[q].slot, job'[q].receipt>>
  <2>1. CASE /\ Busy(p) /\ job'[p].slot = job[p].slot /\ job'[p].receipt = job[p].receipt
             /\ Busy(q) /\ job'[q].slot = job[q].slot /\ job'[q].receipt = job[q].receipt
    BY <1>3, <2>1 DEF ReceiptsDiffer, ReceiveOf
  <2>2. CASE \E i \in Slots : /\ Take(i) /\ \A r \in Workers \ {p} : job'[r] = job[r]
                              /\ job'[p].slot = i /\ job'[p].receipt = msgs'[i].receives
    BY <1>2, <1>3, <2>2
  <2>3. CASE \E i \in Slots : /\ Take(i) /\ \A r \in Workers \ {q} : job'[r] = job[r]
                              /\ job'[q].slot = i /\ job'[q].receipt = msgs'[i].receives
    <3>1. <<job'[q].slot, job'[q].receipt>> # <<job'[p].slot, job'[p].receipt>>
      BY <1>2, <1>3, <2>3
    <3> QED BY <3>1
  <2>4. \/ /\ Busy(p) /\ job'[p].slot = job[p].slot /\ job'[p].receipt = job[p].receipt
        \/ \E i \in Slots : /\ Take(i) /\ \A r \in Workers \ {p} : job'[r] = job[r]
                            /\ job'[p].slot = i /\ job'[p].receipt = msgs'[i].receives
    BY <1>3, ReceiptKept
  <2>5. \/ /\ Busy(q) /\ job'[q].slot = job[q].slot /\ job'[q].receipt = job[q].receipt
        \/ \E i \in Slots : /\ Take(i) /\ \A r \in Workers \ {q} : job'[r] = job[r]
                            /\ job'[q].slot = i /\ job'[q].receipt = msgs'[i].receives
    BY <1>3, ReceiptKept
  <2> QED BY <2>1, <2>2, <2>3, <2>4, <2>5
<1> QED BY <1>1, <1>3 DEF ReceiptsDiffer, ReceiveOf

(*------------------------- the receives counted -------------------------*)

LEMMA DeliveriesGrow ==
    ASSUME TypeInv, Taken, Next
    PROVE  \A c \in Calls : Deliveries(c) \subseteq Deliveries(c)'
<1> SUFFICES ASSUME NEW c \in Calls, NEW d \in Deliveries(c) PROVE d \in Deliveries(c)'
  OBVIOUS
<1>1. d \in Slots \X (1..MaxReceive) /\ Carries(d[1], c) /\ d[2] <= msgs[d[1]].receives
  BY DEF Deliveries
<1>2. d[1] \in Slots /\ d[2] \in Nat /\ msgs[d[1]].state # "unsent" /\ msgs[d[1]].event.call = c
  BY <1>1, QueueAssumption DEF Carries
<1>3. msgs'[d[1]].state # "unsent" /\ msgs'[d[1]].event = msgs[d[1]].event
  BY <1>2, Monotone
<1>4. msgs'[d[1]].receives >= msgs[d[1]].receives
  BY <1>2, ReceivesGrow
<1>5. msgs[d[1]].receives \in Nat /\ msgs'[d[1]].receives \in Nat
  <2>1. TypeInv'
    BY NextType
  <2> QED BY <1>2, <2>1 DEF TypeInv, TypeOK, QueueTypeOK, Message
<1>6. d[2] <= msgs'[d[1]].receives
  BY <1>1, <1>2, <1>4, <1>5
<1>7. Carries(d[1], c)'
  BY <1>2, <1>3 DEF Carries
<1> QED BY <1>1, <1>6, <1>7 DEF Deliveries

(* The receive a busy worker works on is one of its call's.                *)
LEMMA ReceiveIsDelivery ==
    ASSUME TypeInv, ReceiptsDiffer, NEW p \in Workers, Busy(p)
    PROVE  ReceiveOf(p) \in Deliveries(CallOf(p))
<1>1. job[p].slot \in Slots /\ msgs[job[p].slot].state # "unsent"
  BY BusyCall
<1>2. msgs[job[p].slot].receives \in 0..MaxReceive /\ MaxReceive \in Nat
  BY <1>1, QueueAssumption DEF TypeInv, TypeOK, QueueTypeOK, Message
<1>3. job[p].receipt \in 1..msgs[job[p].slot].receives
  BY DEF ReceiptsDiffer
<1> QED BY <1>1, <1>2, <1>3 DEF Deliveries, ReceiveOf, Carries, CallOf

(* Nobody counts again what was spent.                                     *)
LEMMA SpentGrows ==
    ASSUME TypeInv, Taken, ReceiptsDiffer, Next
    PROVE  \A c \in Calls : Spent(c) \subseteq Spent(c)'
<1> SUFFICES ASSUME NEW c \in Calls, NEW d \in Spent(c) PROVE d \in Spent(c)'
  OBVIOUS
<1>1. d \in Deliveries(c) /\ \A p \in Workers : Counting(p) => d # ReceiveOf(p)
  BY DEF Spent
<1>2. d \in Deliveries(c)'
  BY <1>1, DeliveriesGrow
<1>3. ASSUME NEW p \in Workers, Counting(p)', d = <<job'[p].slot, job'[p].receipt>> PROVE FALSE
  <2>1. CASE /\ Busy(p) /\ job'[p].slot = job[p].slot /\ job'[p].receipt = job[p].receipt
             /\ job[p].pc = "drop" => job'[p].pc = "drop"
    BY <1>1, <1>3, <2>1 DEF Counting, ReceiveOf
  <2>2. ASSUME NEW i \in Slots, Take(i), job'[p].slot = i, job'[p].receipt = msgs'[i].receives
        PROVE  FALSE
    <3>1. d[1] = i /\ d[2] = msgs[i].receives + 1 /\ msgs[i].receives \in Nat
      BY <1>3, <2>2, TakeCounts
    <3>2. d[2] <= msgs[d[1]].receives
      BY <1>1 DEF Deliveries
    <3> QED BY <3>1, <3>2
  <2> QED BY <1>3, <2>1, <2>2, ReceiptKept DEF Counting
<1> QED BY <1>2, <1>3 DEF Spent, ReceiveOf

(* What is counted is counted in numbers.                                  *)
LEMMA FiniteReceives ==
    \A S \in SUBSET (Slots \X (1..MaxReceive)) : IsFiniteSet(S) /\ Cardinality(S) \in Nat
<1>1. IsFiniteSet(Slots) /\ IsFiniteSet(1..MaxReceive)
  BY QueueAssumption, FS_Interval DEF Slots
<1>2. IsFiniteSet(Slots \X (1..MaxReceive))
  BY <1>1, FS_Product
<1> QED BY <1>2, FS_Subset, FS_CardinalityType

(* The count never sinks, and it rises with a worker that stops counting   *)
(* the receive it works on.                                                *)
LEMMA CountGrows ==
    ASSUME TypeInv, Taken, ReceiptsDiffer, Next, NEW c \in Calls
    PROVE  /\ Cardinality(Spent(c)) \in Nat /\ Cardinality(Spent(c)') \in Nat
           /\ Cardinality(Spent(c)) <= Cardinality(Spent(c)')
           /\ \A d : (d \in Spent(c)' /\ d \notin Spent(c))
                => Cardinality(Spent(c)) + 1 <= Cardinality(Spent(c)')
<1> DEFINE S == Spent(c)
           T == Spent(c)'
<1>1. S \subseteq T
  BY SpentGrows
<1>2. IsFiniteSet(S) /\ Cardinality(S) \in Nat
  BY FiniteReceives DEF Spent, Deliveries
<1>3. IsFiniteSet(T) /\ Cardinality(T) \in Nat
  BY FiniteReceives DEF Spent, Deliveries
<1> HIDE DEF S, T
<1>4. Cardinality(S) <= Cardinality(T)
  BY <1>1, <1>3, FS_Subset
<1>5. ASSUME NEW d, d \in T, d \notin S PROVE Cardinality(S) + 1 <= Cardinality(T)
  <2>1. Cardinality(S \cup {d}) = Cardinality(S) + 1
    BY <1>2, <1>5, FS_AddElement
  <2>2. S \cup {d} \subseteq T
    BY <1>1, <1>5
  <2> QED BY <1>3, <2>1, <2>2, FS_Subset
<1> QED BY <1>2, <1>3, <1>4, <1>5 DEF S, T

(* Whoever counts the receive it works on, and then no more, spends it.    *)
LEMMA StopsCounting ==
    ASSUME TypeInv, TypeInv', Taken, ReceiptsDiffer, ReceiptsDiffer', Next, NEW p \in Workers,
           Counting(p), ~Counting(p)', NEW c, c = CallOf(p)
    PROVE  c \in Calls /\ Cardinality(Spent(c)) + 1 <= Cardinality(Spent(c)')
<1> DEFINE d == ReceiveOf(p)
<1>1. c \in Calls /\ d \in Deliveries(c)
  BY ReceiveIsDelivery, BusyCall DEF Counting
<1>2. d \notin Spent(c)
  BY DEF Spent
<1>3. d \in Deliveries(c)'
  BY <1>1, DeliveriesGrow
<1>4. ASSUME NEW q \in Workers, Counting(q)', <<job'[q].slot, job'[q].receipt>> = d
      PROVE  FALSE
  <2>1. q # p
    BY <1>4
  <2>2. CASE Busy(q) /\ job'[q].slot = job[q].slot /\ job'[q].receipt = job[q].receipt
    BY <1>4, <2>1, <2>2 DEF ReceiptsDiffer, Counting, ReceiveOf
  <2>3. ASSUME NEW i \in Slots, Take(i), job'[q].slot = i, job'[q].receipt = msgs'[i].receives
        PROVE  FALSE
    <3>1. job[p].slot = i /\ job[p].receipt = msgs[i].receives + 1 /\ msgs[i].receives \in Nat
      BY <1>4, <2>3, TakeCounts DEF ReceiveOf
    <3>2. job[p].receipt \in 1..msgs[job[p].slot].receives
      BY DEF ReceiptsDiffer, Counting
    <3> QED BY <3>1, <3>2
  <2> QED BY <1>4, <2>2, <2>3, ReceiptKept DEF Counting
<1>5. d \in Spent(c)'
  BY <1>3, <1>4 DEF Spent, ReceiveOf
<1> HIDE DEF d
<1> QED BY <1>1, <1>2, <1>5, CountGrows

(*--------------------------- the rows written ---------------------------*)

(* What those rows say of retries.                                         *)
LEMMA RetriesWritten ==
    ASSUME NEW seen \in Snapshot
    PROVE  /\ Base(seen) \in Item
           /\ Published(seen).retry = Base(seen).retry /\ Published(seen).status # "failed"
           /\ \A n \in Nat :
                /\ Failed(seen, n).retry = n
                /\ Failed(seen, n).status = "failed" => MaxRetry <= n
           /\ \A e \in Events :
                /\ NewItem(e).retry = 0
                /\ NewItem(e).status = "failed" => e.source = "vapi" /\ "failed" \in OwnWords(e)
                /\ Updated(seen, e).retry = Base(seen).retry
                /\ Updated(seen, e).status = "failed" => "failed" \in OwnWords(e)
<1>1. Base(seen) \in Item /\ EmptyItem \in Item
  <2>1. NoItem \in Snapshot
    BY DEF Snapshot
  <2> QED BY <2>1, RowTypes DEF Base
<1>2. Published(seen).retry = Base(seen).retry /\ Published(seen).status # "failed"
  BY <1>1 DEF Published, Item
<1>3. ASSUME NEW n \in Nat
      PROVE  /\ Failed(seen, n).retry = n
             /\ Failed(seen, n).status = "failed" => MaxRetry <= n
  <2>1. Failed(seen, n).status = IF Exhausted(n) THEN "failed" ELSE "queued"
    BY <1>1 DEF Failed, Item
  <2>2. Exhausted(n) => MaxRetry <= n
    BY WorkerAssumption DEF Exhausted
  <2> QED BY <1>1, <2>1, <2>2 DEF Failed, Item
<1>4. ASSUME NEW e \in Events
      PROVE  /\ NewItem(e).retry = 0
             /\ NewItem(e).status = "failed" => e.source = "vapi" /\ "failed" \in OwnWords(e)
             /\ Updated(seen, e).retry = Base(seen).retry
             /\ Updated(seen, e).status = "failed" => "failed" \in OwnWords(e)
  <2>1. /\ e.source \in {"vapi", "call_center", "start"}
        /\ e.status = "failed" => "failed" \in OwnWords(e)
    BY WebhooksAssumption DEF Event, OwnWords, OwnStatuses
  <2>2. Updated(seen, e).retry = Base(seen).retry /\ Updated(seen, e).status = e.status
    BY <1>1 DEF Updated, Item
  <2>3. /\ NewItem(e).retry = EmptyItem.retry
        /\ NewItem(e).status = CASE e.source = "start" -> "outbound_started"
                                 [] e.source = "call_center" ->
                                      IF e.recorded THEN "queued" ELSE "received"
                                 [] e.source = "vapi" -> e.status
    BY <1>1 DEF NewItem, Item
  <2>4. EmptyItem.retry = 0
    BY DEF EmptyItem
  <2> QED BY <2>1, <2>2, <2>3, <2>4
<1> QED BY <1>1, <1>2, <1>3, <1>4

(* What was counted stays counted.                                         *)
LEMMA StaysCounted ==
    ASSUME TypeInv, Taken, ReceiptsDiffer, Next, NEW c \in Calls, NEW seen \in Snapshot,
           Counted(c, seen)
    PROVE  /\ Counted(c, seen)'
           /\ Base(seen).retry \in Nat /\ Base(seen).retry <= Cardinality(Spent(c)')
<1>1. seen # NoItem => seen.retry \in Nat
  BY DEF Snapshot, Item
<1>2. /\ Cardinality(Spent(c)) \in Nat /\ Cardinality(Spent(c)') \in Nat
      /\ Cardinality(Spent(c)) <= Cardinality(Spent(c)')
  BY CountGrows
<1>3. Counted(c, seen)'
  <2>1. SaidFailed(c) => SaidFailed(c)'
    BY Monotone DEF SaidFailed
  <2> QED BY <1>1, <1>2, <2>1 DEF Counted
<1>4. Base(seen).retry \in Nat /\ Base(seen).retry <= Cardinality(Spent(c)')
  <2>1. CASE seen = NoItem
    BY <1>2, <2>1 DEF Base, EmptyItem
  <2>2. CASE seen # NoItem
    BY <1>1, <1>2, <2>2 DEF Base, Counted
  <2> QED BY <2>1, <2>2
<1> QED BY <1>3, <1>4

LEMMA RowsCountedStep ==
    ASSUME TypeInv, TypeInv', Taken, RetryInv, ReceiptsDiffer', Next, NEW c \in Calls
    PROVE  Counted(c, calls[c])'
<1>0. /\ calls \in [Calls -> Snapshot] /\ job \in [Workers -> Job] /\ api \in [Apis -> Handler]
      /\ ReceiptsDiffer /\ Counted(c, calls[c])
  BY DEF TypeInv, TypeOK, StoreTypeOK, WorkTypeOK, ApiTypeOK, RetryInv
<1>1. SUFFICES ASSUME NEW item, item = calls'[c] PROVE Counted(c, item)'
  BY DEF Counted
<1>2. CASE calls'[c] = calls[c]
  <2>1. item \in Snapshot /\ Counted(c, item)
    BY <1>0, <1>1, <1>2
  <2> QED BY <1>0, <2>1, StaysCounted
<1>3. ASSUME NEW seen \in Snapshot, Counted(c, seen), item.retry = Base(seen).retry,
             item.status = "failed" => SaidFailed(c)'
      PROVE  Counted(c, item)'
  BY <1>0, <1>3, StaysCounted DEF Counted
<1>4. ASSUME NEW p \in Workers, MarkWrite(p), CallOf(p) = c, item = Published(job[p].seen)
      PROVE  Counted(c, item)'
  <2>1. Busy(p) /\ job[p].seen \in Snapshot
    BY <1>0, <1>4 DEF MarkWrite, Busy, Job
  <2>2. Counted(c, job[p].seen)
    BY <1>4, <2>1 DEF RetryInv
  <2> QED BY <1>3, <1>4, <2>1, <2>2, RetriesWritten
<1>5. ASSUME NEW p \in Workers, Requeue(p) \/ GiveUp(p), CallOf(p) = c,
             item = Failed(job[p].seen, RetryCount(job[p].got))
      PROVE  Counted(c, item)'
  <2>1. Counting(p) /\ job[p].seen \in Snapshot /\ job[p].got \in Item
    BY <1>0, <1>5 DEF Requeue, GiveUp, Counting, Busy, Job, TypeInv, Custody
  <2>2. ~Counting(p)'
    <3>1. CASE Requeue(p)
      BY <1>0, <3>1 DEF Requeue, Finish, IdleJob, Counting, Busy
    <3>2. CASE GiveUp(p)
      BY <1>0, <3>2 DEF GiveUp, Counting, Job
    <3> QED BY <1>5, <3>1, <3>2
  <2>3. Cardinality(Spent(c)) + 1 <= Cardinality(Spent(c)')
    BY <1>0, <1>5, <2>1, <2>2, StopsCounting
  <2>4. job[p].got.retry <= Cardinality(Spent(c)) /\ job[p].got.retry \in Nat
    BY <1>5, <2>1, CallStoreAssumption DEF RetryInv, Counted, Counting, Item
  <2>5. Cardinality(Spent(c)) \in Nat /\ Cardinality(Spent(c)') \in Nat
    BY <1>0, CountGrows
  <2>6. PICK n \in Nat : n = RetryCount(job[p].got) /\ n <= Cardinality(Spent(c)')
    BY <2>3, <2>4, <2>5 DEF RetryCount
  <2>7. item.retry = n /\ (item.status = "failed" => MaxRetry <= n)
    BY <1>5, <2>1, <2>6, RetriesWritten
  <2> QED BY <2>6, <2>7 DEF Counted
<1>6. ASSUME NEW p \in Apis, EventOf(p) \in Events, EventOf(p).call = c, Insert(p),
             item = NewItem(EventOf(p))
      PROVE  Counted(c, item)'
  <2>1. item.retry = 0 /\ (item.status = "failed" => SaidFailed(c)')
    <3>1. NoItem \in Snapshot
      BY DEF Snapshot
    <3>2. /\ item.retry = 0
          /\ item.status = "failed" => EventOf(p).source = "vapi" /\ "failed" \in OwnWords(EventOf(p))
      BY <1>6, <3>1, RetriesWritten
    <3>3. EventOf(p).source = "vapi" => OwnWords(EventOf(p)) \subseteq mishaps'[c]
      BY <1>6 DEF Insert, Upsert, TypeInv, TypeOK, StoreTypeOK
    <3> QED BY <3>2, <3>3 DEF SaidFailed
  <2>2. Cardinality(Spent(c)') \in Nat
    BY <1>0, CountGrows
  <2> QED BY <2>1, <2>2 DEF Counted
<1>7. ASSUME NEW p \in Apis, EventOf(p) \in Events, EventOf(p).call = c, UpdateWrite(p),
             item = Updated(api[p].seen, EventOf(p))
      PROVE  Counted(c, item)'
  <2>1. api[p].pc # "idle" /\ api[p].seen \in Snapshot
    BY <1>0, <1>7 DEF UpdateWrite, Serving, Handler
  <2>2. Counted(c, api[p].seen)
    BY <1>7, <2>1 DEF RetryInv
  <2>3. OwnWords(EventOf(p)) \subseteq mishaps'[c]
    BY <1>7 DEF UpdateWrite, Upsert, TypeInv, TypeOK, StoreTypeOK
  <2>4. item.retry = Base(api[p].seen).retry /\ (item.status = "failed" => SaidFailed(c)')
    BY <1>7, <2>1, <2>3, RetriesWritten DEF SaidFailed
  <2> QED BY <1>3, <2>1, <2>2, <2>4
<1>8. CASE item = NoItem
  BY <1>8 DEF Counted
<1> QED BY <1>1, <1>2, <1>4, <1>5, <1>6, <1>7, <1>8, RowWritten

(*---------------------------- the rows read -----------------------------*)

(* A worker that goes on knows what it knew, or the row it has just read.  *)
LEMMA WorkerReads ==
    ASSUME TypeInv, Next, NEW p \in Workers, Busy(p), Busy(p)'
    PROVE  /\ job'[p].seen \in {job[p].seen, NoItem, calls[CallOf(p)]}
           /\ job'[p].got \in {job[p].got, NoItem, calls[CallOf(p)]}
<1>0. job \in [Workers -> Job]
  BY DEF TypeInv, TypeOK, WorkTypeOK
<1>1. CASE job'[p] = job[p]
  BY <1>1
<1>2. CASE job'[p] # job[p]
  <2>1. WorkerActs(p)
    BY <1>2, JobChange
  <2>2. CASE Load(p) \/ StoreObject(p) \/ SyncCrm(p) \/ SendReport(p) \/ AckLost(p)
    <3>1. PICK pc : job' = [job EXCEPT ![p].pc = pc]
      BY <2>2 DEF Load, StoreObject, SyncCrm, SendReport, AckLost, Goto
    <3> QED BY <1>0, <3>1 DEF Job
  <2>3. CASE MarkRead(p) \/ MarkWrite(p) \/ StepFails(p) \/ FailRead(p)
    BY <1>0, <2>3 DEF MarkRead, MarkWrite, StepFails, FailRead, Job
  <2>4. CASE FailLoad(p) \/ GiveUp(p)
    BY <1>0, <2>4 DEF FailLoad, GiveUp, Goto, Job
  <2>5. CASE Ack(p) \/ Requeue(p) \/ Drop(p) \/ DropRaises(p) \/ Crash(p) \/ Restart(p)
    BY <1>0, <2>5 DEF Ack, Requeue, Drop, DropRaises, Crash, Restart, Finish, Exit, IdleJob,
       DownJob, Busy
  <2>6. CASE Receive(p)
    BY <2>6 DEF Receive, Busy
  <2> QED BY <2>1, <2>2, <2>3, <2>4, <2>5, <2>6 DEF WorkerActs, WorkerStep, Proceed
<1> QED BY <1>1, <1>2

(* A handler knows nothing, what it knew, or the row it has just read.     *)
LEMMA HandlerReads ==
    ASSUME TypeInv, Next, NEW p \in Apis, api'[p].pc # "idle"
    PROVE  \/ api'[p].seen = NoItem
           \/ /\ api[p].pc # "idle" /\ api'[p].event = api[p].event
              /\ api'[p].seen \in {api[p].seen, calls[EventOf(p).call]}
<1>0. api \in [Apis -> Handler]
  BY DEF TypeInv, TypeOK, ApiTypeOK
<1>1. CASE api'[p] = api[p]
  BY <1>1
<1>2. CASE api'[p] # api[p]
  <2>1. ApiActs(p)
    BY <1>2, ApiChange
  <2>2. CASE UpdateRead(p)
    BY <1>0, <2>2 DEF UpdateRead, Serving, Handler
  <2>3. CASE Send(p) \/ SendLost(p) \/ ApiFails(p)
    <3>1. Respond(p)
      BY <2>3 DEF Send, SendLost, ApiFails
    <3> QED BY <1>0, <3>1 DEF Respond, IdleHandler
  <2>4. ASSUME NEW pc, Continue(p, pc) PROVE api'[p].seen = NoItem
    BY <1>0, <2>4 DEF Continue, Respond, ApiGoto, IdleHandler, Handler
  <2>5. ASSUME NEW pc, ApiGoto(p, pc) PROVE api'[p].seen = NoItem
    BY <1>0, <2>5 DEF ApiGoto, Handler
  <2>6. ASSUME NEW e, NEW pc, Begin(p, e, pc) PROVE api'[p].seen = NoItem
    BY <1>0, <2>6 DEF Begin
  <2>7. CASE CheckAbsent(p) \/ Insert(p) \/ UpdateWrite(p)
    BY <2>4, <2>5, <2>7 DEF CheckAbsent, Insert, UpdateWrite
  <2>8. CASE \E e \in Events : VapiEvent(p, e) \/ CallCenterEvent(p, e) \/ ResumeStart(p, e)
    BY <2>6, <2>8 DEF VapiEvent, CallCenterEvent, ResumeStart
  <2> QED BY <2>1, <2>2, <2>3, <2>7, <2>8 DEF ApiActs, ApiStep, HandlerStep, HandlerProceeds
<1> QED BY <1>1, <1>2

LEMMA RetryStep ==
    ASSUME TypeInv, TypeInv', Taken, RetryInv, Next
    PROVE  RetryInv'
<1>0. /\ calls \in [Calls -> Snapshot] /\ job \in [Workers -> Job] /\ api \in [Apis -> Handler]
      /\ ReceiptsDiffer /\ NoItem \in Snapshot
  BY DEF TypeInv, TypeOK, StoreTypeOK, WorkTypeOK, ApiTypeOK, RetryInv, Snapshot
<1>1. ReceiptsDiffer'
  BY <1>0, ReceiptsDifferStep
<1>2. \A c \in Calls : Counted(c, calls[c])'
  BY <1>1, RowsCountedStep
<1>3. \A c \in Calls : Counted(c, NoItem) /\ Counted(c, calls[c])
  BY DEF Counted, RetryInv
<1>4. \A c \in Calls, seen \in Snapshot : Counted(c, seen) => Counted(c, seen)'
  BY <1>0, StaysCounted
<1>5. ASSUME NEW p \in Workers, Busy(p)'
      PROVE  Counted(CallOf(p), job[p].seen)' /\ Counted(CallOf(p), job[p].got)'
  <2>1. PICK c \in Calls : c = CallOf(p)'
    <3>1. CallOf(p)' \in Calls
      <4>1. job'[p].slot \in Slots /\ msgs'[job'[p].slot].state # "unsent"
        BY <1>5 DEF TypeInv, Custody
      <4>2. msgs'[job'[p].slot].event \in Events
        BY <4>1 DEF TypeInv, TypeOK, QueueTypeOK
      <4> QED BY <4>2, WebhooksAssumption DEF CallOf, Event
    <3> QED BY <3>1
  <2>2. PICK seen \in Snapshot : seen = job'[p].seen
    BY DEF TypeInv, TypeOK, WorkTypeOK, Job
  <2>3. PICK got \in Snapshot : got = job'[p].got
    BY DEF TypeInv, TypeOK, WorkTypeOK, Job
  <2>4. Counted(c, seen) /\ Counted(c, got)
    <3>1. CASE Busy(p) /\ job'[p].slot = job[p].slot
      <4>1. c = CallOf(p)
        BY <2>1, <3>1, SameCall
      <4>2. Counted(c, job[p].seen) /\ Counted(c, job[p].got)
        BY <3>1, <4>1 DEF RetryInv
      <4> QED BY <1>3, <1>5, <2>2, <2>3, <3>1, <4>1, <4>2, WorkerReads
    <3>2. CASE job'[p].seen = NoItem /\ job'[p].got = NoItem
      BY <1>3, <2>2, <2>3, <3>2
    <3> QED BY <1>5, <3>1, <3>2, ReceiptKept
  <2>5. Counted(c, seen)' /\ Counted(c, got)'
    BY <1>4, <2>4
  <2> QED BY <2>1, <2>2, <2>3, <2>5 DEF Counted
<1>6. ASSUME NEW p \in Apis, api'[p].pc # "idle" PROVE Counted(EventOf(p).call, api[p].seen)'
  <2>1. PICK c \in Calls : c = api'[p].event.call
    <3>1. api'[p].event \in Events
      BY <1>6 DEF TypeInv, TypeOK, ApiTypeOK, EventOf
    <3> QED BY <3>1, WebhooksAssumption DEF Event
  <2>2. PICK seen \in Snapshot : seen = api'[p].seen
    BY DEF TypeInv, TypeOK, ApiTypeOK, Handler
  <2>3. Counted(c, seen)
    <3>1. CASE seen = NoItem
      BY <1>3, <3>1
    <3>2. CASE seen # NoItem
      <4>1. /\ api[p].pc # "idle" /\ c = EventOf(p).call
            /\ seen \in {api[p].seen, calls[c]}
        BY <1>6, <2>1, <2>2, <3>2, HandlerReads DEF EventOf
      <4> QED BY <1>3, <4>1 DEF RetryInv
    <3> QED BY <3>1, <3>2
  <2>4. Counted(c, seen)'
    BY <1>4, <2>3
  <2> QED BY <2>1, <2>2, <2>4 DEF Counted, EventOf
<1> QED BY <1>1, <1>2, <1>5, <1>6 DEF RetryInv

LEMMA InitRetry == Init => RetryInv
BY DEF Init, StoreInit, WorkInit, ApiInit, IdleJob, IdleHandler, RetryInv, ReceiptsDiffer, Counted,
   Busy

LEMMA NextRetry == TypeInv /\ TypeInv' /\ Taken /\ RetryInv /\ [Next]_vars => RetryInv'
<1> SUFFICES ASSUME TypeInv, TypeInv', Taken, RetryInv, [Next]_vars PROVE RetryInv'
  OBVIOUS
<1>1. CASE Next
  BY <1>1, RetryStep
<1>2. CASE UNCHANGED vars
  <2>1. /\ calls' = calls /\ msgs' = msgs /\ job' = job /\ api' = api /\ mishaps' = mishaps
    BY <1>2 DEF vars, storeVars, workVars, apiVars
  <2>2. /\ \A c \in Calls : Spent(c)' = Spent(c)
        /\ ReceiptsDiffer' = ReceiptsDiffer
        /\ \A c \in Calls : SaidFailed(c)' = SaidFailed(c)
        /\ \A p \in Workers : Busy(p)' = Busy(p) /\ CallOf(p)' = CallOf(p)
        /\ \A p \in Apis : EventOf(p)' = EventOf(p)
    BY <2>1 DEF Spent, Deliveries, Carries, ReceiveOf, Counting, Busy, CallOf, EventOf, ReceiptsDiffer,
       SaidFailed
  <2>4. \A c \in Calls : Counted(c, calls[c])' = Counted(c, calls[c])
    BY <2>1, <2>2 DEF Counted
  <2>5. ASSUME NEW p \in Workers, Busy(p)'
        PROVE  Counted(CallOf(p), job[p].seen)' /\ Counted(CallOf(p), job[p].got)'
    BY <2>1, <2>2, <2>5, BusyCall DEF Counted, RetryInv
  <2>6. ASSUME NEW p \in Apis, api'[p].pc # "idle" PROVE Counted(EventOf(p).call, api[p].seen)'
    <3>1. EventOf(p).call \in Calls
      BY <2>1, <2>6, WebhooksAssumption DEF TypeInv, TypeOK, ApiTypeOK, Event
    <3> QED BY <2>1, <2>2, <2>6, <3>1 DEF Counted, RetryInv
  <2> QED BY <2>1, <2>2, <2>4, <2>5, <2>6 DEF RetryInv
<1> QED BY <1>1, <1>2

LEMMA RetryInvariant == Spec => []RetryInv
<1>1. Init => TypeInv /\ ContractInv /\ RetryInv
  BY InitType, InitContract, InitRetry
<1>2. TypeInv /\ ContractInv /\ RetryInv /\ [Next]_vars => TypeInv' /\ ContractInv' /\ RetryInv'
  BY NextType, NextContract, NextRetry DEF ContractInv
<1> QED BY <1>1, <1>2, PTL DEF Spec

(* For any number of workers and messages, however outdated the rows they  *)
(* rewrite and whatever crashes or expires: no call is given up before its *)
(* messages were taken up as often as the configuration promises, unless   *)
(* an event of Vapi's said that it failed.                                 *)
THEOREM RetriesAreGranted == Spec => []FailedUsedItsRetries
<1>1. TypeInv /\ RetryInv => FailedUsedItsRetries
  <2> SUFFICES ASSUME TypeInv, RetryInv, NEW c \in Calls, HasStatus(c, "failed"),
                      ~SaidFailed(c)
               PROVE  MaxRetry <= Cardinality(Deliveries(c))
    BY DEF FailedUsedItsRetries, SaidFailed
  <2>1. calls[c].retry <= Cardinality(Spent(c)) /\ MaxRetry <= calls[c].retry
    BY DEF RetryInv, Counted, HasStatus, Exists
  <2>2. MaxRetry \in Nat /\ calls[c].retry \in Nat
    BY WorkerAssumption DEF HasStatus, Exists, TypeInv, TypeOK, StoreTypeOK, Snapshot, Item
  <2>3. IsFiniteSet(Deliveries(c)) /\ Cardinality(Deliveries(c)) \in Nat
    BY FiniteReceives DEF Deliveries
  <2>4. Cardinality(Spent(c)) \in Nat /\ Cardinality(Spent(c)) <= Cardinality(Deliveries(c))
    BY <2>3, FS_Subset, FS_CardinalityType DEF Spent
  <2> QED BY <2>1, <2>2, <2>3, <2>4
<1>2. Spec => []TypeInv
  BY QueueInvariant, PTL
<1> QED BY <1>1, <1>2, RetryInvariant, PTL
==============================================================================
