----------------------------- MODULE InlineProofs -----------------------------
(***************************************************************************)
(* The inline mode, for every set of calls, events, threads and every      *)
(* bound: rows and reports are kept as in the queue mode, and a call all   *)
(* of whose tasks are over without a failure has been analysed.            *)
(*                                                                         *)
(* Most steps are the pipeline's own, so that what ReportProofs shows of   *)
(* them serves here; the rest only begin and end tasks and handlers.       *)
(***************************************************************************)
EXTENDS InlineWork, ReportProofs

(* A thread works on a task of its own, which is not over.                 *)
HoldsTasks ==
    /\ \A p \in Workers : Busy(p) => msgs[job[p].slot].state = "inflight"
    /\ \A p, q \in Workers : (p # q /\ Busy(p) /\ Busy(q)) => job[p].slot # job[q].slot

(* What is still to make an analysed call of a row with a recording: a     *)
(* handler about to write it or to add a task, a task nobody has taken, a  *)
(* thread that has not published yet, or one that is about to raise.       *)
ToQueue(c) == \E p \in Apis : api[p].pc \in {"update_read", "update_write", "send"} /\ EventOf(p).call = c
ToStart(c) == \E i \in Slots : msgs[i].state = "visible" /\ Carries(i, c)

Publishing == {"load", "audio", "transcript", "report", "crm", "mark_read", "mark_write", "fail_load"}
ToPublish(c) == \E p \in Workers : job[p].pc \in Publishing /\ CallOf(p) = c

(* And what is still to mail its report.                                   *)
ToMail(c) == \E p \in Workers : job[p].pc \in {"email", "fail_load"} /\ CallOf(p) = c

Promised(c) == Recorded(c) => ToQueue(c) \/ ToStart(c) \/ ToPublish(c) \/ HasStatus(c, "completed")
Mailing(c)  == HasStatus(c, "completed") => c \in mailed \/ ToMail(c)

PromiseInv == \A c \in Calls : ~Excused(c) => Promised(c) /\ Mailing(c)

InlineInv == HoldsTasks /\ PromiseInv

(*--------------------------- the types, the rows ------------------------*)

(* Most steps of the inline mode are steps of the pipeline.                *)
LEMMA PipelineSteps ==
    ASSUME TypeInv, InlineNext
    PROVE  \/ Next
           \/ \E p \in Workers : TaskActs(p) /\ (StartTask(p) \/ TaskReturns(p) \/ TaskRaises(p))
           \/ ProcessDies
<1>1. ASSUME NEW p \in Workers, TaskSteps(p), UNCHANGED <<apiVars, erasure>> PROVE Next
  BY <1>1 DEF TaskSteps, Next, WorkerActs, WorkerStep, Proceed
<1>2. ASSUME NEW p \in Apis, RequestFails(p) PROVE Next
  BY <1>2 DEF RequestFails, Next, ApiActs, ApiStep
<1>3. ASSUME NEW p \in Apis, HandlerStep(p), UNCHANGED <<workVars, erasure>> PROVE Next
  BY <1>3 DEF Next, ApiActs, ApiStep
<1> QED BY <1>1, <1>2, <1>3 DEF InlineNext, TaskActs, Next

(* What the others leave behind: tasks and handlers begun or over, nothing *)
(* in between, and every row as it was.                                    *)
Reshuffle ==
    /\ UNCHANGED <<storeVars, crm, mailed, outcomes, requests>>
    /\ \A i \in Slots :
         \/ msgs'[i] = msgs[i]
         \/ /\ msgs[i].state # "unsent"
            /\ msgs'[i].state \in {"inflight", "deleted"}
            /\ msgs'[i].event = msgs[i].event
    /\ \A p \in Workers :
         \/ job'[p] = job[p]
         \/ job'[p] = IdleJob
         \/ /\ job'[p].pc = "load" /\ job'[p].slot \in Slots
            /\ msgs[job'[p].slot].state = "visible"
    /\ \A p \in Apis : api'[p] \in {api[p], IdleHandler}
    /\ \A t \in Erasers : erasure'[t] \in {erasure[t], IdleErasure}

LEMMA ReshuffleSteps ==
    ASSUME TypeInv
    PROVE  /\ \A p \in Workers :
                TaskActs(p) /\ (StartTask(p) \/ TaskReturns(p) \/ TaskRaises(p))
                    => Reshuffle /\ TypeInv'
           /\ ProcessDies => Reshuffle /\ TypeInv'
<1> USE DEF TypeInv, TypeOK
<1>0. /\ msgs \in [Slots -> Message] /\ job \in [Workers -> Job] /\ IdleJob \in Job
      /\ api \in [Apis -> Handler] /\ erasure \in [Erasers -> Erasing]
  BY JobTypes DEF QueueTypeOK, WorkTypeOK, ApiTypeOK, ErasureTypeOK
<1>1. ASSUME NEW p \in Workers, StartTask(p), UNCHANGED <<apiVars, erasure>>
      PROVE  Reshuffle /\ TypeInv'
  <2>1. PICK i \in Slots :
          /\ msgs[i].state = "visible"
          /\ msgs' = [msgs EXCEPT ![i].state = "inflight"]
          /\ job' = [job EXCEPT ![p] = [IdleJob EXCEPT !.pc = "load", !.slot = i]]
    BY <1>1 DEF StartTask
  <2> DEFINE new == [IdleJob EXCEPT !.pc = "load", !.slot = i]
  <2>2. new \in Job /\ new.pc = "load" /\ new.slot = i
    BY <1>0 DEF IdleJob, Job, ProcessSteps
  <2> HIDE DEF new
  <2>3. /\ \A q \in Workers : job'[q] = IF q = p THEN new ELSE job[q]
        /\ job' \in [Workers -> Job]
    BY <1>0, <2>1, <2>2 DEF new
  <2>4. /\ \A j \in Slots \ {i} : msgs'[j] = msgs[j]
        /\ msgs'[i].state = "inflight" /\ msgs'[i].event = msgs[i].event
        /\ QueueTypeOK'
    BY <1>0, <2>1 DEF QueueTypeOK, Message, MessageStates
  <2>5. Reshuffle
    BY <1>1, <2>1, <2>2, <2>3, <2>4 DEF Reshuffle, StartTask, apiVars
  <2>6. /\ StoreTypeOK' /\ ApiTypeOK' /\ ErasureTypeOK'
        /\ WorkTypeOK'
    BY <1>1, <2>3 DEF StartTask, storeVars, apiVars, StoreTypeOK, ApiTypeOK, EventOf,
       ErasureTypeOK, WorkTypeOK
  <2>7. Custody'
    BY <2>2, <2>3, <2>4 DEF Custody, Busy
  <2> QED BY <2>4, <2>5, <2>6, <2>7
<1>2. ASSUME NEW p \in Workers, TaskReturns(p) \/ TaskRaises(p), UNCHANGED <<apiVars, erasure>>
      PROVE  Reshuffle /\ TypeInv'
  <2>1. job[p].slot \in Slots /\ msgs[job[p].slot].state # "unsent"
    BY <1>2, BusyCall DEF TaskReturns, TaskRaises, Busy
  <2>2. /\ msgs' = [msgs EXCEPT ![job[p].slot].state = "deleted"]
        /\ job' = [job EXCEPT ![p] = IdleJob]
        /\ UNCHANGED <<storeVars, crm, mailed, outcomes>>
    BY <1>2 DEF TaskReturns, TaskRaises, Delete, Finish
  <2>3. QueueTypeOK' /\ \A j \in Slots : msgs[j].state # "unsent" => msgs'[j].state # "unsent"
    BY <2>1, <2>2, DeleteTypes DEF Delete
  <2>4. \A q \in Workers : job'[q] = IF q = p THEN IdleJob ELSE job[q]
    BY <1>0, <2>2
  <2>5. /\ \A j \in Slots \ {job[p].slot} : msgs'[j] = msgs[j]
        /\ msgs'[job[p].slot].state = "deleted"
        /\ msgs'[job[p].slot].event = msgs[job[p].slot].event
    BY <1>0, <2>1, <2>2 DEF Message
  <2>6. Reshuffle
    BY <1>2, <2>1, <2>2, <2>4, <2>5 DEF Reshuffle, apiVars
  <2>7. /\ StoreTypeOK' /\ ApiTypeOK' /\ ErasureTypeOK'
        /\ WorkTypeOK'
    BY <1>0, <1>2, <2>2 DEF storeVars, apiVars, StoreTypeOK, ApiTypeOK, EventOf,
       ErasureTypeOK, WorkTypeOK
  <2>8. Custody'
    BY <2>3, <2>4 DEF Custody, Busy, IdleJob
  <2> QED BY <2>3, <2>6, <2>7, <2>8
<1>3. ASSUME ProcessDies PROVE Reshuffle /\ TypeInv'
  <2>1. \A i \in Slots : /\ Live(i) => /\ msgs'[i].state = "deleted"
                                       /\ msgs'[i].event = msgs[i].event
                                       /\ msgs[i].state # "unsent"
                         /\ ~Live(i) => msgs'[i] = msgs[i]
                         /\ msgs'[i] \in Message
    BY <1>0, <1>3 DEF ProcessDies, Live, Message, MessageStates
  <2>2. /\ \A p \in Workers : job'[p] = IdleJob
        /\ \A p \in Apis : api'[p] = IdleHandler
        /\ \A t \in Erasers : erasure'[t] = IdleErasure
        /\ UNCHANGED <<storeVars, crm, mailed, outcomes, requests>>
    BY <1>3 DEF ProcessDies
  <2>3. Reshuffle
    BY <2>1, <2>2 DEF Reshuffle
  <2>4. QueueTypeOK'
    BY <1>3, <2>1 DEF ProcessDies, QueueTypeOK
  <2>5. StoreTypeOK' /\ WorkTypeOK' /\ Custody'
    BY <1>0, <1>3, <2>2 DEF ProcessDies, storeVars, StoreTypeOK, WorkTypeOK, Custody, Busy, IdleJob
  <2>6. ApiTypeOK'
    BY <1>3, <2>2 DEF ProcessDies, ApiTypeOK, Handler, IdleHandler, DialStates, Snapshot
  <2>7. ErasureTypeOK'
    BY <1>3, <2>2 DEF ProcessDies, ErasureTypeOK, Erasing, IdleErasure
  <2> QED BY <2>3, <2>4, <2>5, <2>6, <2>7
<1> QED BY <1>1, <1>2, <1>3 DEF TaskActs

LEMMA ReshuffleReport ==
    ASSUME TypeInv, TypeInv', ReportInv, Reshuffle
    PROVE  ReportInv'
<1> USE DEF TypeInv, TypeOK
<1>0. /\ calls' = calls /\ objects' = objects /\ mishaps' = mishaps /\ crm' = crm /\ mailed' = mailed
  BY DEF Reshuffle, storeVars
<1>1. Grows
  BY <1>0 DEF Grows
<1>2. RowsGenuine'
  <2> SUFFICES ASSUME NEW c \in Calls, NEW row, row = calls[c], row # NoItem
               PROVE  Genuine(c, row)'
    BY <1>0 DEF RowsGenuine, Exists, Genuine, Owned
  <2> QED BY <1>1, StaysGenuine DEF ReportInv, RowsGenuine, Exists
<1>3. MessagesKnown'
  BY <1>0 DEF ReportInv, MessagesKnown, Reshuffle, Known, Exists, Erased
<1>4. HandlersGenuine'
  <2> SUFFICES ASSUME NEW p \in Apis, NEW c, c = api'[p].event.call, NEW seen, seen = api'[p].seen
               PROVE  /\ api'[p].pc \in {"update_read", "send"} => Known(c)'
                      /\ api'[p].pc = "update_write" => GenuineRead(c, seen)'
    BY DEF HandlersGenuine, EventOf, Known, Exists, Erased, GenuineRead, Genuine, Owned, EraseBegun,
       Complete, AllRecorded
  <2>1. CASE api'[p] = IdleHandler
    BY <2>1 DEF IdleHandler
  <2>2. CASE api'[p] = api[p] /\ api[p].pc # "idle"
    <3>1. c \in Calls /\ c = EventOf(p).call /\ seen = api[p].seen
      BY <2>2, EventCalls DEF ApiTypeOK, EventOf
    <3>3. /\ api[p].pc \in {"update_read", "send"} => Known(c)
          /\ api[p].pc = "update_write" => GenuineRead(c, seen)
      BY <3>1 DEF ReportInv, HandlersGenuine
    <3>4. (Known(c) => Known(c)') /\ (GenuineRead(c, seen) => GenuineRead(c, seen)')
      BY <1>0, <1>1, <3>1, StaysGenuine DEF Known, Exists, Erased
    <3> QED BY <2>2, <3>3, <3>4
  <2>3. CASE api'[p] = api[p] /\ api[p].pc = "idle"
    BY <2>3
  <2> QED BY <2>1, <2>2, <2>3 DEF Reshuffle
<1>5. ErasersBegun'
  BY <1>0 DEF ReportInv, ErasersBegun, EraseBegun, Reshuffle, IdleErasure
<1>6. ASSUME NEW p \in Workers
      PROVE  /\ WorkGenuine(p)'
             /\ job'[p].pc = "email" => HasKeys(CallOf(p))'
  <2>1. CASE job'[p] = job[p] /\ Busy(p)
    <3>1. CallOf(p)' = CallOf(p) /\ CallOf(p) \in Calls
      BY <2>1, BusyCall DEF Reshuffle, CallOf
    <3>2. PICK c \in Calls : c = CallOf(p)
      BY <3>1
    <3>3. PICK seen : seen = job[p].seen
      OBVIOUS
    <3>4. WorkGenuine(p) /\ (job[p].pc = "email" => HasKeys(c))
      BY <3>2 DEF ReportInv, WorkersGenuine, MailsKnown
    <3>5. GenuineRead(c, seen) => GenuineRead(c, seen)'
      BY <1>1, StaysGenuine
    <3>6. /\ job[p].pc \in {"mark_write", "fail_write"} => GenuineRead(c, seen)'
          /\ ~EraseBegun(c) => /\ Stored(job[p].pc) \subseteq objects[c]
                               /\ job[p].pc \in {"mark_read", "mark_write"} => c \in crm
      BY <2>1, <3>2, <3>3, <3>4, <3>5 DEF WorkGenuine
    <3>7. c = CallOf(p)' /\ seen = job'[p].seen
      BY <2>1, <3>1, <3>2, <3>3
    <3>8. Stored(job'[p].pc) = Stored(job[p].pc) /\ EraseBegun(c)' = EraseBegun(c)
          /\ HasKeys(c)' = HasKeys(c)
      BY <1>0, <2>1 DEF EraseBegun, HasKeys, Exists
    <3>9. (job'[p].pc \in {"mark_write", "fail_write"} => GenuineRead(CallOf(p), job[p].seen)')
      BY <2>1, <3>6, <3>7
    <3>10. /\ ~EraseBegun(c)' => /\ Stored(job'[p].pc) \subseteq objects'[c]
                                 /\ job'[p].pc \in {"mark_read", "mark_write"} => c \in crm'
           /\ job'[p].pc = "email" => HasKeys(c)'
      BY <1>0, <2>1, <3>4, <3>6, <3>8
    <3> QED BY <3>7, <3>9, <3>10 DEF WorkGenuine
  <2>2. CASE job'[p].pc \in {"idle", "down", "load"}
    <3>1. Stored(job'[p].pc) = {}
      BY <2>2 DEF Stored
    <3> QED BY <2>2, <3>1 DEF WorkGenuine, Busy
  <2> QED BY <2>1, <2>2 DEF Reshuffle, IdleJob, Busy
<1>7. \A c \in mailed' : HasKeys(c)'
  BY <1>0 DEF ReportInv, MailsKnown, HasKeys, Exists
<1>8. WorkersGenuine' /\ MailsKnown'
  BY <1>6, <1>7 DEF WorkersGenuine, MailsKnown
<1> QED BY <1>2, <1>3, <1>4, <1>5, <1>8 DEF ReportInv

LEMMA InlineReportStep ==
    ASSUME TypeInv, ReportInv, [InlineNext]_inlineVars
    PROVE  TypeInv' /\ ReportInv'
<1>1. CASE Next \/ UNCHANGED vars
  BY <1>1, NextType, NextReport
<1>2. CASE InlineNext /\ ~Next
  <2>1. TypeInv' /\ Reshuffle
    BY <1>2, PipelineSteps, ReshuffleSteps
  <2> QED BY <2>1, ReshuffleReport
<1> QED BY <1>1, <1>2 DEF inlineVars

LEMMA InlineReportInvariant == InlineSpec => [](TypeInv /\ ReportInv)
<1>1. InlineInit => TypeInv /\ ReportInv
  BY InitType, InitReport DEF InlineInit
<1>2. TypeInv /\ ReportInv /\ [InlineNext]_inlineVars => TypeInv' /\ ReportInv'
  BY InlineReportStep
<1> QED BY <1>1, <1>2, PTL DEF InlineSpec

(*------------------------------- the tasks ------------------------------*)

LEMMA HoldsTasksStep ==
    ASSUME TypeInv, HoldsTasks, InlineNext
    PROVE  HoldsTasks'
<1>0. /\ msgs \in [Slots -> Message] /\ job \in [Workers -> Job]
  BY DEF TypeInv, TypeOK, QueueTypeOK, WorkTypeOK
<1>1. ASSUME \A p \in Workers : Busy(p)' =>
               /\ Busy(p) /\ job'[p].slot = job[p].slot
               /\ msgs'[job[p].slot].state = msgs[job[p].slot].state
      PROVE  HoldsTasks'
  BY <1>1 DEF HoldsTasks
<1>2. ASSUME NEW p \in Workers, TaskSteps(p) PROVE HoldsTasks'
  <2>1. PICK pc, seen : job' = [job EXCEPT ![p].pc = pc, ![p].seen = seen] \/ job' = [job EXCEPT ![p].pc = pc]
    BY <1>2 DEF TaskSteps, Load, StoreObject, SyncCrm, MarkRead, MarkWrite, SendReport, StepFails, Goto
  <2>2. msgs' = msgs /\ Busy(p)
    BY <1>2 DEF TaskSteps, Load, StoreObject, SyncCrm, MarkRead, MarkWrite, SendReport, StepFails,
       Busy, Kinds, ProcessSteps
  <2>3. job'[p].slot = job[p].slot /\ \A q \in Workers \ {p} : job'[q] = job[q]
    BY <1>0, <2>1 DEF Job
  <2> QED BY <1>1, <2>2, <2>3 DEF Busy
<1>3. ASSUME NEW p \in Workers, StartTask(p) PROVE HoldsTasks'
  <2>1. PICK i \in Slots :
          /\ msgs[i].state = "visible"
          /\ msgs' = [msgs EXCEPT ![i].state = "inflight"]
          /\ job' = [job EXCEPT ![p] = [IdleJob EXCEPT !.pc = "load", !.slot = i]]
    BY <1>3 DEF StartTask
  <2>2. /\ job'[p].slot = i /\ \A q \in Workers \ {p} : job'[q] = job[q]
        /\ msgs'[i].state = "inflight" /\ \A j \in Slots \ {i} : msgs'[j] = msgs[j]
    BY <1>0, <2>1 DEF IdleJob, Message
  <2>3. \A q \in Workers : Busy(q) =>
           job[q].slot \in Slots /\ job[q].slot # i /\ msgs[job[q].slot].state = "inflight"
    BY <2>1, BusyCall DEF HoldsTasks
  <2>4. \A q \in Workers \ {p} : Busy(q)' = Busy(q)
    BY <2>2 DEF Busy
  <2> QED BY <2>2, <2>3, <2>4 DEF HoldsTasks
<1>4. ASSUME NEW p \in Workers, TaskReturns(p) \/ TaskRaises(p) PROVE HoldsTasks'
  <2>1. Busy(p) /\ job[p].slot \in Slots
    BY <1>4, BusyCall DEF TaskReturns, TaskRaises, Busy
  <2>2. ~Busy(p)' /\ \A q \in Workers \ {p} : job'[q] = job[q]
    BY <1>0, <1>4 DEF TaskReturns, TaskRaises, Finish, IdleJob, Busy
  <2>3. \A j \in Slots \ {job[p].slot} : msgs'[j] = msgs[j]
    BY <1>0, <1>4 DEF TaskReturns, TaskRaises, Delete
  <2>4. ASSUME NEW q \in Workers, Busy(q)'
        PROVE  Busy(q) /\ job'[q].slot = job[q].slot /\ msgs'[job[q].slot] = msgs[job[q].slot]
    <3>1. q # p /\ Busy(q)
      BY <2>2, <2>4 DEF Busy
    <3>2. job[q].slot # job[p].slot /\ job[q].slot \in Slots
      BY <2>1, <3>1, BusyCall DEF HoldsTasks
    <3> QED BY <2>2, <2>3, <3>1, <3>2
  <2> QED BY <1>1, <2>4
<1>5. ASSUME NEW p \in Apis, ApiStep(p), UNCHANGED workVars PROVE HoldsTasks'
  <2>1. \A i \in Slots : msgs[i].state # "unsent" => msgs'[i] = msgs[i]
    BY <1>0, <1>5 DEF ApiStep, HandlerStep, HandlerProceeds, VapiEvent, CallCenterEvent, ResumeStart,
       CheckAbsent, Insert, UpdateRead, UpdateWrite, Send, SendLost, ApiFails, Accept
  <2> QED BY <1>1, <1>5, <2>1, BusyCall DEF workVars, Busy
<1>6. ASSUME UNCHANGED <<msgs, workVars>> PROVE HoldsTasks'
  BY <1>1, <1>6 DEF workVars, Busy
<1>7. CASE ProcessDies
  BY <1>7 DEF ProcessDies, HoldsTasks, IdleJob, Busy
<1> QED BY <1>2, <1>3, <1>4, <1>5, <1>6, <1>7 DEF InlineNext, TaskActs, RequestFails, ApiStep,
        DialOut, Dial, EraserActs

(*------------------------------ the promises ----------------------------*)

(* An excuse, once there, stays.                                           *)
LEMMA ExcusesStay ==
    ASSUME TypeInv, InlineNext
    PROVE  \A c \in Calls : Excused(c) => Excused(c)'
<1>1. \A c \in Calls : mishaps[c] \subseteq mishaps'[c]
  <2>1. CASE Next
    BY <2>1, Monotone
  <2>2. CASE ~Next
    BY <2>2, PipelineSteps, ReshuffleSteps DEF Reshuffle, storeVars
  <2> QED BY <2>1, <2>2
<1>2. interrupted \subseteq interrupted'
  BY DEF InlineNext, TaskActs, StartTask, TaskSteps, TaskReturns, TaskRaises, RequestFails,
     ProcessDies, Interrupt
<1> QED BY <1>1, <1>2 DEF Excused

(* A task's step keeps its promise until it has published.                 *)
LEMMA TaskKeepsPromise ==
    ASSUME TypeInv, NEW p \in Workers, TaskSteps(p), UNCHANGED apiVars, NEW c \in Calls,
           Promised(c), Mailing(c)
    PROVE  Promised(c)' /\ Mailing(c)'
<1> USE DEF TypeInv, TypeOK
<1>0. job \in [Workers -> Job] /\ calls \in [Calls -> Snapshot]
  BY DEF WorkTypeOK, StoreTypeOK
<1>1. /\ msgs' = msgs /\ api' = api /\ Busy(p) /\ CallOf(p) \in Calls
      /\ \A q \in Workers \ {p} : job'[q] = job[q]
      /\ job'[p].slot = job[p].slot
  <2>1. PICK pc, seen : job' = [job EXCEPT ![p].pc = pc, ![p].seen = seen] \/ job' = [job EXCEPT ![p].pc = pc]
    BY DEF TaskSteps, Load, StoreObject, SyncCrm, MarkRead, MarkWrite, SendReport, StepFails, Goto
  <2>2. msgs' = msgs /\ Busy(p)
    BY DEF TaskSteps, Load, StoreObject, SyncCrm, MarkRead, MarkWrite, SendReport, StepFails,
       Busy, Kinds, ProcessSteps
  <2>3. job'[p].slot = job[p].slot /\ \A q \in Workers \ {p} : job'[q] = job[q]
    BY <1>0, <2>1 DEF Job
  <2> QED BY <2>2, <2>3, BusyCall DEF apiVars
<1>2. /\ ToQueue(c)' = ToQueue(c) /\ ToStart(c)' = ToStart(c)
      /\ \A q \in Workers : CallOf(q)' = CallOf(q)
  BY <1>1 DEF ToQueue, ToStart, EventOf, Carries, CallOf
<1>3. CASE MarkWrite(p) /\ CallOf(p) = c
  <2>1. job'[p].pc = "email"
    BY <1>0, <1>3 DEF MarkWrite, Job
  <2>2. HasStatus(c, "completed")'
    <3>1. job[p].seen \in Snapshot
      BY <1>0 DEF Job
    <3>2. calls'[c] = Published(job[p].seen)
      BY <1>0, <1>3 DEF MarkWrite, Upsert
    <3>3. Published(job[p].seen).status = "completed" /\ Published(job[p].seen) # NoItem
      BY <3>1, StatusesWritten, RowTypes, CallStoreAssumption
    <3> QED BY <3>2, <3>3 DEF HasStatus, Exists
  <2>3. ToMail(c)'
    BY <1>2, <1>3, <2>1 DEF ToMail
  <2> QED BY <2>2, <2>3 DEF Promised, Mailing
<1>4. CASE ~(MarkWrite(p) /\ CallOf(p) = c)
  <2>1. calls'[c] = calls[c]
    BY <1>0, <1>1, <1>4 DEF TaskSteps, Load, StoreObject, SyncCrm, MarkRead, MarkWrite, SendReport,
       StepFails, storeVars, Upsert
  <2>2. /\ HasStatus(c, "completed")' = HasStatus(c, "completed")
        /\ Recorded(c)' = Recorded(c) /\ mailed \subseteq mailed'
    BY <2>1 DEF HasStatus, Exists, Recorded, TaskSteps, Load, StoreObject, SyncCrm, MarkRead,
       MarkWrite, SendReport, StepFails
  <2>3. ASSUME CallOf(p) = c, job[p].pc \in Publishing
        PROVE  job'[p].pc \in Publishing \/ HasStatus(c, "completed")
    <3>1. CASE Load(p)
      BY <1>0, <2>3, <3>1 DEF Load, Goto, AfterLoad, AlreadyDone, HasStatus, Exists, Publishing, Job
    <3>2. CASE StoreObject(p) \/ SyncCrm(p)
      BY <1>0, <3>2 DEF StoreObject, SyncCrm, StageAfter, Kinds, Goto, Publishing, Job
    <3>3. CASE MarkRead(p) \/ StepFails(p)
      BY <1>0, <3>3 DEF MarkRead, StepFails, Publishing, Job
    <3>4. CASE SendReport(p)
      BY <2>3, <3>4 DEF SendReport, Publishing
    <3> QED BY <1>4, <2>3, <3>1, <3>2, <3>3, <3>4 DEF TaskSteps
  <2>4. ASSUME CallOf(p) = c, job[p].pc \in {"email", "fail_load"}
        PROVE  job'[p].pc = "fail_load" \/ c \in mailed'
    <3>1. CASE SendReport(p)
      BY <2>4, <3>1 DEF SendReport
    <3>2. CASE StepFails(p)
      BY <1>0, <3>2 DEF StepFails, Job
    <3> QED BY <2>4, <3>1, <3>2 DEF TaskSteps, Load, StoreObject, SyncCrm, MarkRead, MarkWrite, Kinds
  <2>5. ToPublish(c) => ToPublish(c)' \/ HasStatus(c, "completed")
    BY <1>1, <1>2, <2>3 DEF ToPublish
  <2>6. ToMail(c) => ToMail(c)' \/ c \in mailed'
    BY <1>1, <1>2, <2>4 DEF ToMail
  <2> QED BY <1>2, <2>2, <2>5, <2>6 DEF Promised, Mailing
<1> QED BY <1>3, <1>4

(* A handler's promise passes to the task it adds, or to an excuse.        *)
LEMMA HandlerKeepsPromise ==
    ASSUME TypeInv, TypeInv', NEW p \in Apis, UNCHANGED <<workVars, erasure>>,
           HandlerStep(p) \/ (ApiFails(p) /\ Interrupt({EventOf(p).call})),
           NEW c \in Calls, ~Excused(c)', Promised(c), Mailing(c)
    PROVE  Promised(c)' /\ Mailing(c)'
<1> USE DEF TypeInv, TypeOK
<1>0. /\ api \in [Apis -> Handler] /\ calls \in [Calls -> Snapshot] /\ msgs \in [Slots -> Message]
      /\ job' = job /\ mailed' = mailed
  BY DEF ApiTypeOK, StoreTypeOK, QueueTypeOK, workVars
<1>1. \A i \in Slots : msgs[i].state # "unsent" => msgs'[i] = msgs[i]
  BY <1>0 DEF HandlerStep, HandlerProceeds, VapiEvent, CallCenterEvent, ResumeStart,
     CheckAbsent, Insert, UpdateRead, UpdateWrite, Send, SendLost, ApiFails, Accept
<1>2. /\ ToStart(c) => ToStart(c)'
      /\ ToPublish(c) => ToPublish(c)'
      /\ ToMail(c) => ToMail(c)'
  <2>1. \A q \in Workers : Busy(q) => CallOf(q)' = CallOf(q)
    BY <1>0, <1>1, BusyCall DEF CallOf
  <2>2. ToStart(c) => ToStart(c)'
    BY <1>1 DEF ToStart, Carries
  <2> QED BY <1>0, <2>1, <2>2 DEF ToPublish, ToMail, Publishing, Busy
<1>3. \E h : api' = [api EXCEPT ![p] = h]
  BY <1>0 DEF HandlerStep, HandlerProceeds, VapiEvent, CallCenterEvent, ResumeStart,
     CheckAbsent, Insert, UpdateRead, UpdateWrite, Send, SendLost, ApiFails, Begin, Continue, Respond,
     ApiGoto
<1>4. \A q \in Apis \ {p} : api'[q] = api[q]
  BY <1>0, <1>3
<1>5. CASE (Insert(p) \/ UpdateWrite(p)) /\ EventOf(p).call = c
  <2> DEFINE e == EventOf(p)
  <2>1. e \in Events /\ api[p].seen \in Snapshot /\ EmptyItem \in Item
        /\ e.source \in {"vapi", "call_center", "start"}
    <3>1. e \in Events
      BY <1>5 DEF Insert, UpdateWrite, Serving, ApiTypeOK
    <3>2. NoItem \in Snapshot
      BY DEF Snapshot
    <3> QED BY <1>0, <3>1, <3>2, RowTypes, WebhooksAssumption DEF Base, Event, Handler
  <2>2. PICK item \in Item :
          /\ calls'[c] = item /\ item.status # "completed"
          /\ item.recorded => api'[p].pc \in {"update_read", "send"} /\ api'[p].event = e
    <3>1. CASE Insert(p)
      <4>1. NewItem(e) \in Item /\ calls'[c] = NewItem(e)
        BY <1>0, <1>5, <2>1, <3>1, RowTypes DEF Insert, Upsert
      <4>2. NewItem(e).recorded = (e.source # "start" /\ e.recorded)
        BY <2>1 DEF NewItem, Item
      <4>3. NewItem(e).status # "completed"
        <5>1. e.source = "vapi" => e.status # "completed"
          <6>1. e.source = "vapi" => OwnWords(e) \subseteq mishaps'[c]
            BY <1>5, <3>1 DEF Insert, Upsert, StoreTypeOK
          <6> QED BY <6>1 DEF OwnWords, OwnStatuses, Excused
        <5>2. NewItem(e).status = CASE e.source = "start" -> "outbound_started"
                                    [] e.source = "call_center" ->
                                         IF e.recorded THEN "queued" ELSE "received"
                                    [] e.source = "vapi" -> e.status
          BY <2>1 DEF NewItem, Item
        <5> QED BY <2>1, <5>1, <5>2
      <4>4. ASSUME e.source # "start", e.recorded
            PROVE  api'[p].pc \in {"update_read", "send"} /\ api'[p].event = e
        <5>1. AfterInsert(e) \in {"update_read", "send"}
          BY <2>1, <4>4 DEF AfterInsert
        <5>2. ApiGoto(p, AfterInsert(e))
          BY <3>1, <5>1 DEF Insert, Continue
        <5> QED BY <1>0, <5>1, <5>2 DEF ApiGoto, Handler, EventOf
      <4> QED BY <4>1, <4>2, <4>3, <4>4
    <3>2. CASE UpdateWrite(p)
      <4>1. Updated(api[p].seen, e) \in Item /\ calls'[c] = Updated(api[p].seen, e)
        BY <1>0, <1>5, <2>1, <3>2, RowTypes DEF UpdateWrite, Upsert
      <4>2. Updated(api[p].seen, e).recorded = e.recorded /\ Updated(api[p].seen, e).status # "completed"
        <5>1. Base(api[p].seen) \in Item
          BY <2>1, RowTypes
        <5>2. e.status # "completed"
          <6>1. OwnWords(e) \subseteq mishaps'[c]
            BY <1>5, <3>2 DEF UpdateWrite, Upsert, StoreTypeOK
          <6> QED BY <6>1 DEF OwnWords, OwnStatuses, Excused
        <5> QED BY <5>1, <5>2 DEF Updated, Item
      <4>3. ASSUME e.recorded
            PROVE  api'[p].pc = "send" /\ api'[p].event = e
        <5>1. ApiGoto(p, "send")
          BY <3>2, <4>3 DEF UpdateWrite, Continue
        <5> QED BY <1>0, <5>1 DEF ApiGoto, Handler, EventOf
      <4> QED BY <4>1, <4>2, <4>3
    <3> QED BY <1>5, <3>1, <3>2
  <2>3. ~HasStatus(c, "completed")'
    BY <2>2 DEF HasStatus
  <2>4. Recorded(c)' => ToQueue(c)'
    BY <1>5, <2>2 DEF Recorded, ToQueue, EventOf
  <2> QED BY <2>3, <2>4 DEF Promised, Mailing
<1>6. CASE ~((Insert(p) \/ UpdateWrite(p)) /\ EventOf(p).call = c)
  <2>1. calls'[c] = calls[c]
    BY <1>0, <1>6 DEF HandlerStep, HandlerProceeds, VapiEvent, CallCenterEvent, ResumeStart,
       CheckAbsent, Insert, UpdateRead, UpdateWrite, Send, SendLost, ApiFails, storeVars, Upsert
  <2>2. /\ HasStatus(c, "completed")' = HasStatus(c, "completed")
        /\ Recorded(c)' = Recorded(c)
    BY <2>1 DEF HasStatus, Exists, Recorded
  <2>3. ASSUME api[p].pc \in {"update_read", "update_write", "send"}, EventOf(p).call = c
        PROVE  ToQueue(c)' \/ ToStart(c)'
    <3>1. CASE UpdateRead(p)
      <4>1. api'[p].pc = "update_write" /\ api'[p].event = api[p].event
        BY <1>0, <3>1 DEF UpdateRead, Handler
      <4> QED BY <2>3, <4>1 DEF ToQueue, EventOf
    <3>2. CASE Send(p)
      <4>1. PICK i \in Slots :
              msgs' = [msgs EXCEPT ![i] = [state |-> "visible", event |-> EventOf(p), receives |-> 0]]
        BY <3>2 DEF Send, Accept
      <4>2. msgs'[i].state = "visible" /\ msgs'[i].event.call = c
        BY <1>0, <2>3, <4>1
      <4> QED BY <4>2 DEF ToStart, Carries
    <3>3. CASE SendLost(p)
      <4>1. "not sent" \in mishaps'[c]
        BY <2>3, <3>3 DEF SendLost, StoreTypeOK
      <4> QED BY <4>1 DEF Excused
    <3>4. CASE ApiFails(p) /\ Interrupt({EventOf(p).call})
      BY <2>3, <3>4 DEF Interrupt, Excused
    <3>5. ~CheckAbsent(p) /\ ~Insert(p) /\ ~UpdateWrite(p)
          /\ \A e \in Events : ~VapiEvent(p, e) /\ ~CallCenterEvent(p, e) /\ ~ResumeStart(p, e)
      BY <1>6, <2>3 DEF CheckAbsent, Insert, VapiEvent, CallCenterEvent, ResumeStart, Arrives, Serving
    <3> QED BY <3>1, <3>2, <3>3, <3>4, <3>5 DEF HandlerStep, HandlerProceeds
  <2>4. ToQueue(c) => ToQueue(c)' \/ ToStart(c)'
    BY <1>4, <2>3 DEF ToQueue, EventOf
  <2>5. Promised(c)'
    BY <1>2, <2>2, <2>4 DEF Promised
  <2>6. Mailing(c)'
    BY <1>0, <1>2, <2>2 DEF Mailing
  <2> QED BY <2>5, <2>6
<1> QED BY <1>5, <1>6

(* Threads that take or end a task, erasures and the end of the process.   *)
LEMMA OthersKeepPromise ==
    ASSUME TypeInv, ErasersBegun, HoldsTasks, NEW c \in Calls, ~Excused(c)', Promised(c), Mailing(c),
           \/ DialOut
           \/ \E t \in Erasers : EraserActs(t)
           \/ \E p \in Workers : TaskActs(p) /\ (StartTask(p) \/ TaskReturns(p) \/ TaskRaises(p))
           \/ ProcessDies
    PROVE  Promised(c)' /\ Mailing(c)'
<1> USE DEF TypeInv, TypeOK
<1>0. /\ msgs \in [Slots -> Message] /\ job \in [Workers -> Job] /\ calls \in [Calls -> Snapshot]
  BY DEF QueueTypeOK, WorkTypeOK, StoreTypeOK
<1>1. ASSUME UNCHANGED <<msgs, job, api, mailed>>, calls'[c] = calls[c]
      PROVE  Promised(c)' /\ Mailing(c)'
  BY <1>1 DEF Promised, Mailing, ToQueue, ToStart, ToPublish, ToMail, HasStatus, Exists, Recorded,
     EventOf, Carries, CallOf
<1>2. CASE DialOut
  BY <1>1, <1>2 DEF DialOut, Dial, storeVars, workVars
<1>3. ASSUME NEW t \in Erasers, EraserActs(t) PROVE Promised(c)' /\ Mailing(c)'
  <2>1. calls'[c] = calls[c]
    <3>1. CASE EraseRow(t)
      <4>1. EraseBegun(erasure[t].call)
        BY <3>1 DEF EraseRow, ErasersBegun
      <4>2. mishaps[c] \subseteq mishaps'[c]
        BY <3>1 DEF EraseRow, StoreTypeOK
      <4>3. erasure[t].call # c
        BY <4>1, <4>2 DEF EraseBegun, Excused
      <4> QED BY <1>0, <3>1, <4>3 DEF EraseRow, DeleteRow
    <3>2. CASE ~EraseRow(t)
      BY <1>3, <3>2 DEF EraserActs, EraserStep, EraseBegin, EraseObject, EraseFails, storeVars
    <3> QED BY <3>1, <3>2
  <2> QED BY <1>1, <1>3, <2>1 DEF EraserActs, workVars, apiVars
<1>4. ASSUME NEW p \in Workers, UNCHANGED <<storeVars, mailed, apiVars>>, NEW j, job' = [job EXCEPT ![p] = j],
             NEW i \in Slots, NEW s, msgs' = [msgs EXCEPT ![i].state = s],
             ToStart(c) => ToStart(c)' \/ ToPublish(c)',
             job[p].pc \in Publishing \cup {"email"} => CallOf(p) # c
      PROVE  Promised(c)' /\ Mailing(c)'
  <2>1. \A q \in Workers \ {p} : job'[q] = job[q]
    BY <1>0, <1>4
  <2>2. \A k \in Slots : msgs'[k].event = msgs[k].event
    BY <1>0, <1>4 DEF Message
  <2>3. \A q \in Workers \ {p} : Busy(q) => CallOf(q)' = CallOf(q)
    BY <2>1, <2>2, BusyCall DEF CallOf
  <2>4. (ToPublish(c) => ToPublish(c)') /\ (ToMail(c) => ToMail(c)')
    BY <1>4, <2>1, <2>3 DEF ToPublish, ToMail, Publishing, Busy
  <2> QED BY <1>4, <2>4 DEF Promised, Mailing, ToQueue, EventOf, HasStatus, Exists, Recorded, storeVars,
          apiVars
<1>5. ASSUME NEW p \in Workers, StartTask(p), UNCHANGED apiVars PROVE Promised(c)' /\ Mailing(c)'
  <2>1. PICK i \in Slots :
          /\ msgs[i].state = "visible"
          /\ msgs' = [msgs EXCEPT ![i].state = "inflight"]
          /\ job' = [job EXCEPT ![p] = [IdleJob EXCEPT !.pc = "load", !.slot = i]]
    BY <1>5 DEF StartTask
  <2>2. /\ job'[p].slot = i /\ job'[p].pc = "load"
        /\ msgs'[i].event = msgs[i].event /\ \A j \in Slots \ {i} : msgs'[j] = msgs[j]
    BY <1>0, <2>1 DEF IdleJob, Message
  <2>3. Carries(i, c) => ToPublish(c)'
    BY <2>2 DEF Carries, ToPublish, Publishing, CallOf
  <2>4. ToStart(c) => ToStart(c)' \/ ToPublish(c)'
    BY <2>2, <2>3 DEF ToStart, Carries
  <2>5. job[p].pc = "idle" /\ UNCHANGED <<storeVars, mailed>>
    BY <1>5 DEF StartTask
  <2> QED BY <1>4, <1>5, <2>1, <2>4, <2>5 DEF Publishing
<1>6. ASSUME NEW p \in Workers, TaskReturns(p) \/ TaskRaises(p), UNCHANGED apiVars
      PROVE  Promised(c)' /\ Mailing(c)'
  <2>1. Busy(p) /\ job[p].slot \in Slots /\ CallOf(p) \in Calls /\ msgs[job[p].slot].state = "inflight"
    BY <1>6, BusyCall DEF TaskReturns, TaskRaises, Busy, HoldsTasks
  <2>2. /\ msgs' = [msgs EXCEPT ![job[p].slot].state = "deleted"]
        /\ job' = [job EXCEPT ![p] = IdleJob]
        /\ UNCHANGED <<storeVars, mailed>>
    BY <1>6 DEF TaskReturns, TaskRaises, Delete, Finish
  <2>3. \A j \in Slots \ {job[p].slot} : msgs'[j] = msgs[j]
    BY <1>0, <2>2
  <2>4. ToStart(c) => ToStart(c)'
    BY <2>1, <2>3 DEF ToStart, Carries
  <2>5. job[p].pc \in Publishing \cup {"email"} => CallOf(p) # c
    BY <1>6 DEF TaskReturns, TaskRaises, Publishing, Interrupt, Excused
  <2> QED BY <1>4, <1>6, <2>1, <2>2, <2>4, <2>5
<1>7. CASE ProcessDies
  <2>1. /\ \A i \in Slots : ~(Live(i) /\ msgs[i].event.call = c)
        /\ \A p \in Apis : c \notin InFlight(p)
    BY <1>7 DEF ProcessDies, Interrupt, Excused
  <2>2. ~ToQueue(c) /\ ~ToStart(c)
    BY <2>1 DEF ToQueue, ToStart, Live, Carries, InFlight, Serving
  <2>3. ~ToPublish(c) /\ ~ToMail(c)
    BY <2>1, BusyCall DEF ToPublish, ToMail, Publishing, HoldsTasks, Busy, Live, CallOf
  <2>4. calls' = calls /\ mailed' = mailed
    BY <1>7 DEF ProcessDies, storeVars
  <2> QED BY <2>2, <2>3, <2>4 DEF Promised, Mailing, HasStatus, Exists, Recorded
<1> QED BY <1>2, <1>3, <1>5, <1>6, <1>7 DEF TaskActs

LEMMA PromiseStep ==
    ASSUME TypeInv, TypeInv', ReportInv, InlineInv, InlineNext
    PROVE  PromiseInv'
<1> SUFFICES ASSUME NEW c \in Calls, ~Excused(c)'
             PROVE  Promised(c)' /\ Mailing(c)'
  BY DEF PromiseInv
<1>0. HoldsTasks /\ Promised(c) /\ Mailing(c) /\ ErasersBegun
  BY ExcusesStay DEF InlineInv, PromiseInv, ReportInv
<1>1. ASSUME NEW p \in Workers, TaskActs(p), TaskSteps(p) PROVE Promised(c)' /\ Mailing(c)'
  BY <1>0, <1>1, TaskKeepsPromise DEF TaskActs
<1>2. ASSUME NEW p \in Apis, RequestFails(p) PROVE Promised(c)' /\ Mailing(c)'
  BY <1>0, <1>2, HandlerKeepsPromise DEF RequestFails
<1>3. ASSUME NEW p \in Apis, HandlerStep(p), UNCHANGED <<workVars, erasure>>
      PROVE  Promised(c)' /\ Mailing(c)'
  BY <1>0, <1>3, HandlerKeepsPromise
<1> QED BY <1>0, <1>1, <1>2, <1>3, OthersKeepPromise DEF InlineNext, TaskActs

LEMMA InlineInvariant == InlineSpec => []InlineInv
<1>1. InlineInit => TypeInv /\ ReportInv /\ InlineInv
  <2>1. InlineInit => TypeInv /\ ReportInv
    BY InitType, InitReport DEF InlineInit
  <2>2. InlineInit => InlineInv
    BY DEF InlineInit, Init, StoreInit, WorkInit, InlineInv, HoldsTasks, PromiseInv, Promised,
       Mailing, Busy, IdleJob, HasStatus, Exists, Recorded
  <2> QED BY <2>1, <2>2
<1>2. TypeInv /\ ReportInv /\ InlineInv /\ [InlineNext]_inlineVars
         => TypeInv' /\ ReportInv' /\ InlineInv'
  <2> SUFFICES ASSUME TypeInv, ReportInv, InlineInv, [InlineNext]_inlineVars
               PROVE  TypeInv' /\ ReportInv' /\ InlineInv'
    OBVIOUS
  <2>1. TypeInv' /\ ReportInv'
    BY InlineReportStep
  <2>2. CASE InlineNext
    BY <2>1, <2>2, HoldsTasksStep, PromiseStep DEF InlineInv
  <2>3. CASE UNCHANGED inlineVars
    <3>1. /\ calls' = calls /\ mishaps' = mishaps /\ msgs' = msgs /\ job' = job /\ mailed' = mailed
          /\ api' = api /\ interrupted' = interrupted
      BY <2>3 DEF inlineVars, vars, storeVars, workVars, apiVars
    <3>2. \A c \in Calls :
            /\ ToQueue(c)' = ToQueue(c) /\ ToStart(c)' = ToStart(c)
            /\ ToPublish(c)' = ToPublish(c) /\ ToMail(c)' = ToMail(c)
      BY <3>1 DEF ToQueue, ToStart, ToPublish, ToMail, EventOf, Carries, CallOf
    <3>3. \A c \in Calls :
            /\ HasStatus(c, "completed")' = HasStatus(c, "completed")
            /\ Recorded(c)' = Recorded(c) /\ Excused(c)' = Excused(c)
      BY <3>1 DEF HasStatus, Exists, Recorded, Excused
    <3>4. PromiseInv'
      <4> SUFFICES ASSUME NEW c \in Calls, ~Excused(c)' PROVE Promised(c)' /\ Mailing(c)'
        BY DEF PromiseInv
      <4>1. Promised(c) /\ Mailing(c)
        BY <3>3 DEF InlineInv, PromiseInv
      <4>2. Promised(c)'
        BY <3>2, <3>3, <4>1 DEF Promised
      <4>3. Mailing(c)'
        BY <3>1, <3>2, <3>3, <4>1 DEF Mailing
      <4> QED BY <4>2, <4>3
    <3>5. HoldsTasks'
      BY <3>1 DEF InlineInv, HoldsTasks, Busy
    <3> QED BY <2>1, <3>4, <3>5 DEF InlineInv
  <2> QED BY <2>1, <2>2, <2>3
<1> QED BY <1>1, <1>2, PTL DEF InlineSpec

(*------------------------------- theorems -------------------------------*)

(* Nothing of a call that went wrong unnoticed: when all its requests and  *)
(* tasks are over and none failed, its report is there and was mailed,     *)
(* however many threads ran its tasks and events rewrote its row meanwhile.*)
THEOREM SettledAreAnalysed == InlineSpec => []SettledCallsAreAnalysed
<1>1. TypeInv /\ InlineInv => SettledCallsAreAnalysed
  <2> SUFFICES ASSUME TypeInv, InlineInv, NEW c \in Calls,
                      Recorded(c), ~UnderWay(c), ~Excused(c)
               PROVE  Analysed(c)
    BY DEF SettledCallsAreAnalysed
  <2>1. ~ToQueue(c) /\ ~ToStart(c)
    BY DEF UnderWay, InFlight, Serving, ToQueue, ToStart, Live
  <2>2. ~ToPublish(c) /\ ~ToMail(c)
    <3>1. ASSUME NEW p \in Workers, Busy(p) PROVE CallOf(p) # c
      <4>1. job[p].slot \in Slots /\ Live(job[p].slot)
        BY <3>1, BusyCall DEF InlineInv, HoldsTasks, Live
      <4>2. ~Carries(job[p].slot, c)
        BY <4>1 DEF UnderWay
      <4> QED BY <3>1, <4>2, BusyCall DEF Carries, CallOf
    <3> QED BY <3>1 DEF ToPublish, ToMail, Publishing, Busy
  <2>3. Promised(c) /\ Mailing(c)
    BY DEF InlineInv, PromiseInv
  <2> QED BY <2>1, <2>2, <2>3 DEF Promised, Mailing, Analysed
<1> QED BY <1>1, InlineReportInvariant, InlineInvariant, PTL

(* What the queue mode keeps of rows and reports the inline mode keeps too,*)
(* with two threads on one call and no message groups to part them.        *)
THEOREM InlineOwnerKept == InlineSpec => []OwnerLossNeedsErasure
<1>1. ReportInv => OwnerLossNeedsErasure
  BY OwnedIsTheTenants DEF ReportInv, RowsGenuine, Genuine, Substance, Erased, OwnerLossNeedsErasure
<1> QED BY <1>1, InlineReportInvariant, PTL

THEOREM InlinePublished == InlineSpec => []CompletedIsPublished
<1>1. ReportInv => CompletedIsPublished
  BY DEF ReportInv, RowsGenuine, Genuine, Substance, SaidDone, EraseBegun,
     Complete, CompletedIsPublished
<1> QED BY <1>1, InlineReportInvariant, PTL
==============================================================================
