----------------------------- MODULE ReportProofs -----------------------------
(***************************************************************************)
(* For every set of calls, events, processes and every bound: what a row   *)
(* says of its call is so.  It is the tenant's own, its report is where    *)
(* report_url looks, its recording is there for the worker, and no message *)
(* tells of it while it says that it has none.                             *)
(***************************************************************************)
EXTENDS CallPipelineProofs

Erased(c)     == "erased" \in mishaps[c]
EraseBegun(c) == "erasing" \in mishaps[c]
Complete(c)   == objects[c] = Kinds /\ c \in crm

AllRecorded(c) == \A e \in Events : e.call = c => e.source # "start" /\ e.recorded

(* What may be said of a row of a call, whenever it was read.              *)
Owned(c, item) ==
    \E e \in Events :
        e.call = c /\ item.tenant = e.tenant /\ item.direction = NewItem(e).direction

Substance(c, item) ==
    /\ Owned(c, item) \/ (item.tenant = NoTenant /\ Erased(c))
    /\ ~EraseBegun(c) /\ item.keys => Complete(c)
    /\ AllRecorded(c) => item.recorded \/ Erased(c)

SaidDone(c) == "completed" \in mishaps[c]

Genuine(c, item) ==
    /\ Substance(c, item)
    /\ ~EraseBegun(c) /\ item.status = "completed" => item.keys \/ SaidDone(c)

GenuineRead(c, seen) == IF seen = NoItem THEN Erased(c) ELSE Genuine(c, seen)

(* A call with a message, or a handler past its first access, has a row    *)
(* unless it was erased.                                                   *)
Known(c) == Exists(c) \/ Erased(c)

RowsGenuine == \A c \in Calls : Exists(c) => Genuine(c, calls[c])

MessagesKnown == \A i \in Slots : msgs[i].state # "unsent" => Known(msgs[i].event.call)

HandlersGenuine ==
    \A p \in Apis :
        /\ api[p].pc \in {"update_read", "send"} => Known(EventOf(p).call)
        /\ api[p].pc = "update_write" => GenuineRead(EventOf(p).call, api[p].seen)

ErasersBegun == \A t \in Erasers : erasure[t].pc # "idle" => EraseBegun(erasure[t].call)

(* The artefacts a worker has stored when it has come so far.              *)
Stored(pc) ==
    CASE pc = "transcript" -> {"audio"}
      [] pc = "report" -> {"audio", "transcript"}
      [] pc \in {"crm", "mark_read", "mark_write"} -> Kinds
      [] OTHER -> {}

WorkGenuine(p) ==
    /\ job[p].pc \in {"mark_write", "fail_write"} => GenuineRead(CallOf(p), job[p].seen)
    /\ Busy(p) /\ ~EraseBegun(CallOf(p)) =>
         /\ Stored(job[p].pc) \subseteq objects[CallOf(p)]
         /\ job[p].pc \in {"mark_read", "mark_write"} => CallOf(p) \in crm

WorkersGenuine == \A p \in Workers : WorkGenuine(p)

(* Whoever mails a report, or is about to, leaves keys in the row, and     *)
(* nobody takes them out.                                                  *)
HasKeys(c) == (Exists(c) /\ calls[c].keys) \/ mishaps[c] \cap {"stale write", "erased"} # {}

MailsKnown ==
    /\ \A c \in mailed : HasKeys(c)
    /\ \A p \in Workers : job[p].pc = "email" => HasKeys(CallOf(p))

ReportInv ==
    /\ RowsGenuine /\ MessagesKnown /\ HandlersGenuine /\ ErasersBegun
    /\ WorkersGenuine /\ MailsKnown

(*--------------------------- the rows written ---------------------------*)

LEMMA EventCalls == \A e \in Events : e.call \in Calls /\ e.tenant = TenantOf[e.call]
BY WebhooksAssumption DEF Event

(* A row that starts from nothing has nothing.                             *)
LEMMA BaseGenuine ==
    ASSUME NEW c \in Calls, NEW seen \in Snapshot, GenuineRead(c, seen)
    PROVE  /\ Base(seen) \in Item
           /\ Genuine(c, Base(seen))
           /\ seen # NoItem => Base(seen) = seen
<1>1. Base(seen) \in Item
  BY RowTypes
<1>2. CASE seen = NoItem
  <2>1. Base(seen) = EmptyItem
    BY <1>2 DEF Base
  <2>2. EmptyItem.tenant = NoTenant /\ EmptyItem.status = "none" /\ EmptyItem.keys = FALSE
    BY DEF EmptyItem
  <2> QED BY <1>1, <1>2, <2>1, <2>2 DEF GenuineRead, Genuine, Substance
<1>3. CASE seen # NoItem
  BY <1>1, <1>3 DEF GenuineRead, Base
<1> QED BY <1>2, <1>3, <1>1

LEMMA RewritesGenuine ==
    ASSUME NEW c \in Calls, NEW seen \in Snapshot, GenuineRead(c, seen)
    PROVE  /\ \A e \in Events : e.call = c => Substance(c, Updated(seen, e))
           /\ \A n : Genuine(c, Failed(seen, n))
           /\ (EraseBegun(c) \/ Complete(c)) => Genuine(c, Published(seen))
           /\ seen # NoItem /\ seen.keys => /\ \A e \in Events : Updated(seen, e).keys
                                            /\ \A n : Failed(seen, n).keys
           /\ Published(seen).keys
<1> DEFINE base == Base(seen)
<1>1. base \in Item /\ Genuine(c, base) /\ (seen # NoItem => base = seen)
  BY BaseGenuine
<1>2. ASSUME NEW e \in Events
      PROVE  /\ e.call = c => Substance(c, Updated(seen, e))
             /\ Updated(seen, e).keys = base.keys
  <2> DEFINE row == Updated(seen, e)
  <2>1. /\ row.tenant = base.tenant /\ row.direction = base.direction /\ row.keys = base.keys
        /\ row.recorded = e.recorded
    BY <1>1 DEF Updated, Item
  <2>3. e.call = c => (AllRecorded(c) => row.recorded)
    BY <2>1 DEF AllRecorded
  <2>4. Owned(c, row) <=> Owned(c, base)
    BY <2>1 DEF Owned
  <2> HIDE DEF row, base
  <2>5. (e.call = c => Substance(c, row)) /\ row.keys = base.keys
    BY <1>1, <2>1, <2>3, <2>4 DEF Genuine, Substance
  <2> QED BY <2>5 DEF row
<1>3. ASSUME NEW n
      PROVE  Genuine(c, Failed(seen, n)) /\ Failed(seen, n).keys = base.keys
  <2> DEFINE row == Failed(seen, n)
  <2>1. /\ row.tenant = base.tenant /\ row.direction = base.direction /\ row.keys = base.keys
        /\ row.status # "completed" /\ row.recorded = base.recorded
    BY <1>1 DEF Failed, Item
  <2>2. Owned(c, row) <=> Owned(c, base)
    BY <2>1 DEF Owned
  <2> HIDE DEF row, base
  <2>3. Genuine(c, row) /\ row.keys = base.keys
    BY <1>1, <2>1, <2>2 DEF Genuine, Substance, SaidDone
  <2> QED BY <2>3 DEF row
<1>4. /\ (EraseBegun(c) \/ Complete(c)) => Genuine(c, Published(seen))
      /\ Published(seen).keys
  <2> DEFINE row == Published(seen)
  <2>1. /\ row.tenant = base.tenant /\ row.direction = base.direction /\ row.keys
        /\ row.recorded = base.recorded
    BY <1>1 DEF Published, Item
  <2>2. Owned(c, row) <=> Owned(c, base)
    BY <2>1 DEF Owned
  <2> HIDE DEF row, base
  <2>3. ((EraseBegun(c) \/ Complete(c)) => Genuine(c, row)) /\ row.keys
    BY <1>1, <2>1, <2>2 DEF Genuine, Substance, SaidDone
  <2> QED BY <2>3 DEF row
<1> QED BY <1>1, <1>2, <1>3, <1>4

LEMMA InsertsGenuine ==
    ASSUME NEW e \in Events
    PROVE  /\ NewItem(e) \in Item /\ Substance(e.call, NewItem(e))
           /\ NewItem(e).status = "completed" => e.source = "vapi" /\ "completed" \in OwnWords(e)
<1>0. e \in Event /\ EmptyItem \in Item /\ NewItem(e) \in Item
  <2>1. NoItem \in Snapshot
    BY DEF Snapshot
  <2> QED BY <2>1, RowTypes, WebhooksAssumption DEF Base
<1> DEFINE row == NewItem(e)
<1>1. /\ row.tenant = e.tenant /\ row.keys = FALSE /\ row.recorded = (e.source # "start" /\ e.recorded)
      /\ row.status = "completed" => e.source = "vapi" /\ "completed" \in OwnWords(e)
  <2>1. e.source \in {"vapi", "call_center", "start"}
    BY <1>0 DEF Event
  <2>2. row.status = CASE e.source = "start" -> "outbound_started"
                        [] e.source = "call_center" -> IF e.recorded THEN "queued" ELSE "received"
                        [] e.source = "vapi" -> e.status
    BY <1>0 DEF NewItem, Item
  <2>3. row.tenant = e.tenant /\ row.keys = FALSE /\ row.recorded = (e.source # "start" /\ e.recorded)
    BY <1>0 DEF NewItem, Item, EmptyItem
  <2> QED BY <2>1, <2>2, <2>3 DEF OwnWords, OwnStatuses
<1>2. Owned(e.call, row)
  BY <1>1 DEF Owned
<1>3. AllRecorded(e.call) => row.recorded
  BY <1>1 DEF AllRecorded
<1> HIDE DEF row
<1>4. Substance(e.call, row)
  BY <1>1, <1>2, <1>3 DEF Substance
<1> QED BY <1>0, <1>1, <1>4 DEF row

(*----------------------- what a step does to a call ---------------------*)

(* What befell a call is not forgotten, and what was stored stays until an *)
(* erasure begins.                                                         *)
Grows ==
    /\ \A c \in Calls : mishaps[c] \subseteq mishaps'[c]
    /\ \A c \in Calls : ~EraseBegun(c)' => objects[c] \subseteq objects'[c]
    /\ crm \subseteq crm'

LEMMA StepGrows ==
    ASSUME TypeInv, ErasersBegun, Next
    PROVE  Grows
<1> USE DEF TypeInv, TypeOK
<1>1. \A c \in Calls : mishaps[c] \subseteq mishaps'[c]
  BY Monotone
<1>2. ASSUME NEW p \in Workers, WorkerActs(p)
      PROVE  crm \subseteq crm' /\ \A c \in Calls : objects[c] \subseteq objects'[c]
  <2>1. CASE StoreObject(p)
    BY <2>1 DEF StoreObject, PutObject, StoreTypeOK
  <2>2. CASE ~StoreObject(p)
    BY <1>2, <2>2 DEF WorkerActs, WorkerStep, Proceed, Receive, Load, SyncCrm, MarkRead, MarkWrite,
       SendReport, Ack, StepFails, AckLost, FailLoad, FailRead, Requeue, GiveUp, Drop, DropRaises,
       Crash, Restart, storeVars
  <2> QED BY <2>1, <2>2
<1>3. ASSUME NEW p \in Apis, ApiActs(p)
      PROVE  crm' = crm /\ objects' = objects
  BY <1>3 DEF ApiActs, ApiStep, HandlerStep, HandlerProceeds, VapiEvent, CallCenterEvent,
     ResumeStart, CheckAbsent, Insert, UpdateRead, UpdateWrite, Send, SendLost, ApiFails, storeVars,
     workVars
<1>4. ASSUME NEW t \in Erasers, EraserActs(t)
      PROVE  crm' = crm /\ \A c \in Calls : ~EraseBegun(c)' => objects[c] \subseteq objects'[c]
  <2>1. CASE EraseObject(t)
    <3>1. EraseBegun(erasure[t].call) /\ erasure[t].call \in Calls
      BY <2>1 DEF ErasersBegun, EraseObject, ErasureTypeOK, Kinds
    <3>2. EraseBegun(erasure[t].call) /\ mishaps' = mishaps
          /\ objects' = [objects EXCEPT ![erasure[t].call] = @ \ {erasure[t].pc}]
      BY <2>1, <3>1 DEF EraseObject, DeleteObject
    <3> QED BY <1>4, <3>1, <3>2 DEF EraserActs, workVars, EraseBegun, StoreTypeOK
  <2>2. CASE ~EraseObject(t)
    BY <1>4, <2>2 DEF EraserActs, EraserStep, EraseBegin, EraseRow, EraseFails, storeVars, workVars
  <2> QED BY <2>1, <2>2
<1>5. ASSUME DialOut \/ \E i \in Slots : VisibilityTimeout(i) \/ DeadLetter(i)
      PROVE  crm' = crm /\ objects' = objects
  BY <1>5 DEF DialOut, Dial, VisibilityTimeout, DeadLetter, storeVars, workVars
<1> QED BY <1>1, <1>2, <1>3, <1>4, <1>5 DEF Grows, Next

(* So what was said of a row stays true of it.                             *)
LEMMA StaysGenuine ==
    ASSUME TypeInv', Grows, NEW c \in Calls
    PROVE  /\ Erased(c) => Erased(c)'
           /\ EraseBegun(c) => EraseBegun(c)'
           /\ ~EraseBegun(c)' /\ Complete(c) => Complete(c)'
           /\ \A item : Substance(c, item) => Substance(c, item)'
           /\ \A item : Genuine(c, item) => Genuine(c, item)'
           /\ \A seen : GenuineRead(c, seen) => GenuineRead(c, seen)'
<1>1. (Erased(c) => Erased(c)') /\ (EraseBegun(c) => EraseBegun(c)')
  BY DEF Grows, Erased, EraseBegun
<1>2. ~EraseBegun(c)' /\ Complete(c) => Complete(c)'
  <2>1. objects'[c] \subseteq Kinds
    BY DEF TypeInv, TypeOK, StoreTypeOK
  <2> QED BY <2>1 DEF Grows, Complete
<1>3. AllRecorded(c)' <=> AllRecorded(c)
  BY DEF AllRecorded
<1>6. ASSUME NEW item, Substance(c, item) PROVE Substance(c, item)'
  <2>1. Owned(c, item)' <=> Owned(c, item)
    BY DEF Owned, NewItem, EmptyItem
  <2> QED BY <1>1, <1>2, <1>3, <1>6, <2>1 DEF Substance
<1>4. ASSUME NEW item, Genuine(c, item) PROVE Genuine(c, item)'
  BY <1>1, <1>4, <1>6 DEF Genuine, SaidDone, Grows
<1>5. ASSUME NEW seen, GenuineRead(c, seen) PROVE GenuineRead(c, seen)'
  BY <1>1, <1>4, <1>5 DEF GenuineRead
<1> QED BY <1>1, <1>2, <1>4, <1>5, <1>6

(*------------------------------- the rows -------------------------------*)

(* A row after a step: the same, gone to an erasure, or a new one of which *)
(* the same may be said, with its keys unless it was overwritten blindly.  *)
RowKept(c) ==
    \/ calls'[c] = calls[c]
    \/ calls'[c] = NoItem /\ Erased(c)'
    \/ /\ calls'[c] # NoItem /\ Genuine(c, calls[c])'
       /\ Exists(c) /\ calls[c].keys /\ "stale write" \notin mishaps'[c] => calls'[c].keys

LEMMA UpsertKeeps ==
    ASSUME TypeInv, TypeInv', Grows, NEW d \in Calls, NEW seen \in Snapshot, NEW item \in Item,
           NEW said, Upsert(d, seen, item, said), Substance(d, item),
           item.status = "completed" => item.keys \/ SaidDone(d) \/ "completed" \in said,
           seen # NoItem /\ seen.keys => item.keys
    PROVE  /\ \A c \in Calls : RowKept(c)
           /\ calls'[d] = item /\ Exists(d)' /\ Genuine(d, calls[d])'
<1>1. /\ calls'[d] = item /\ \A c \in Calls \ {d} : calls'[c] = calls[c]
      /\ calls[d] # seen => "stale write" \in mishaps'[d]
      /\ said \subseteq mishaps'[d]
  BY DEF Upsert, TypeInv, TypeOK, StoreTypeOK
<1>2. item # NoItem
  BY CallStoreAssumption
<1>3. Genuine(d, item)'
  <2>1. Substance(d, item)' /\ (EraseBegun(d) => EraseBegun(d)') /\ (SaidDone(d) => SaidDone(d)')
    BY StaysGenuine DEF Grows, SaidDone
  <2>2. item.status = "completed" => item.keys \/ SaidDone(d)'
    BY <1>1, <2>1 DEF SaidDone
  <2> QED BY <2>1, <2>2 DEF Genuine
<1>4. Genuine(d, calls[d])'
  BY <1>1, <1>3 DEF Genuine, Substance, SaidDone, Owned
<1>5. RowKept(d)
  BY <1>1, <1>2, <1>4 DEF RowKept, Exists
<1>6. \A c \in Calls \ {d} : RowKept(c)
  BY <1>1 DEF RowKept
<1> QED BY <1>1, <1>2, <1>4, <1>5, <1>6 DEF Exists

LEMMA WorkerRows ==
    ASSUME TypeInv, TypeInv', Grows, ReportInv, NEW p \in Workers, WorkerActs(p)
    PROVE  \A c \in Calls : RowKept(c)
<1> USE DEF TypeInv, TypeOK
<1>0. job[p].seen \in Snapshot
  BY DEF WorkTypeOK, Job
<1>1. CASE MarkWrite(p)
  <2>1. Busy(p) /\ CallOf(p) \in Calls
    BY <1>1, BusyCall DEF MarkWrite, Busy
  <2>2. GenuineRead(CallOf(p), job[p].seen)
    BY <1>1 DEF MarkWrite, ReportInv, WorkersGenuine, WorkGenuine
  <2>3. EraseBegun(CallOf(p)) \/ Complete(CallOf(p))
    <3>1. job[p].pc = "mark_write" /\ objects[CallOf(p)] \subseteq Kinds
      BY <1>1, <2>1 DEF MarkWrite, StoreTypeOK
    <3>2. Stored("mark_write") = Kinds
      BY DEF Stored
    <3>3. WorkGenuine(p)
      BY DEF ReportInv, WorkersGenuine
    <3> QED BY <2>1, <3>1, <3>2, <3>3 DEF WorkGenuine, Complete
  <2>4. Genuine(CallOf(p), Published(job[p].seen)) /\ Published(job[p].seen).keys
        /\ Published(job[p].seen) \in Item
    BY <1>0, <2>1, <2>2, <2>3, RewritesGenuine, RowTypes
  <2> QED BY <1>0, <1>1, <2>1, <2>4, UpsertKeeps DEF MarkWrite, Genuine
<1>2. CASE Requeue(p) \/ GiveUp(p)
  <2>1. Busy(p) /\ CallOf(p) \in Calls
    BY <1>2, BusyCall DEF Requeue, GiveUp, Busy
  <2>2. GenuineRead(CallOf(p), job[p].seen)
    BY <1>2 DEF Requeue, GiveUp, ReportInv, WorkersGenuine, WorkGenuine
  <2> DEFINE n == RetryCount(job[p].got)
  <2>3. n \in Nat
    BY <1>2 DEF Requeue, GiveUp, Custody, RetryCount, Item
  <2>4. Upsert(CallOf(p), job[p].seen, Failed(job[p].seen, n), {})
    BY <1>2 DEF Requeue, GiveUp
  <2> HIDE DEF n
  <2>5. /\ Genuine(CallOf(p), Failed(job[p].seen, n)) /\ Failed(job[p].seen, n) \in Item
        /\ job[p].seen # NoItem /\ job[p].seen.keys => Failed(job[p].seen, n).keys
    BY <1>0, <2>1, <2>2, <2>3, RewritesGenuine, RowTypes
  <2>6. Failed(job[p].seen, n).status # "completed"
    BY <1>0, RowTypes DEF Failed, Item
  <2> QED BY <1>0, <2>1, <2>4, <2>5, <2>6, UpsertKeeps DEF Genuine
<1>3. CASE ~MarkWrite(p) /\ ~Requeue(p) /\ ~GiveUp(p)
  <2>1. calls' = calls
    BY <1>3 DEF WorkerActs, WorkerStep, Proceed, Receive, Load, StoreObject, SyncCrm, MarkRead,
       SendReport, Ack, StepFails, AckLost, FailLoad, FailRead, Drop, DropRaises, Crash, Restart,
       storeVars
  <2> QED BY <2>1 DEF RowKept
<1> QED BY <1>1, <1>2, <1>3

LEMMA ApiRows ==
    ASSUME TypeInv, TypeInv', Grows, ReportInv, NEW p \in Apis, ApiActs(p)
    PROVE  /\ \A c \in Calls : RowKept(c)
           /\ Insert(p) \/ UpdateWrite(p) => calls'[EventOf(p).call] # NoItem
<1> USE DEF TypeInv, TypeOK
<1>1. CASE Insert(p)
  <2>1. EventOf(p) \in Events /\ EventOf(p).call \in Calls
    BY <1>1, EventCalls DEF Insert, Serving, ApiTypeOK
  <2>2. /\ Substance(EventOf(p).call, NewItem(EventOf(p))) /\ NewItem(EventOf(p)) \in Item
        /\ NewItem(EventOf(p)).status = "completed" =>
              EventOf(p).source = "vapi" /\ "completed" \in OwnWords(EventOf(p))
    BY <2>1, InsertsGenuine
  <2>3. NoItem \in Snapshot
    BY DEF Snapshot
  <2> QED BY <1>1, <2>1, <2>2, <2>3, UpsertKeeps DEF Insert, Exists
<1>2. CASE UpdateWrite(p)
  <2>1. EventOf(p) \in Events /\ EventOf(p).call \in Calls /\ api[p].seen \in Snapshot
    BY <1>2, EventCalls DEF UpdateWrite, Serving, ApiTypeOK, Handler
  <2>2. GenuineRead(EventOf(p).call, api[p].seen)
    BY <1>2 DEF UpdateWrite, Serving, ReportInv, HandlersGenuine
  <2>4. Updated(api[p].seen, EventOf(p)).status = "completed" => "completed" \in OwnWords(EventOf(p))
    BY <2>1, StatusesWritten DEF OwnWords, OwnStatuses
  <2>3. /\ Substance(EventOf(p).call, Updated(api[p].seen, EventOf(p)))
        /\ Updated(api[p].seen, EventOf(p)) \in Item
        /\ api[p].seen # NoItem /\ api[p].seen.keys => Updated(api[p].seen, EventOf(p)).keys
    BY <2>1, <2>2, RewritesGenuine, RowTypes
  <2> QED BY <1>2, <2>1, <2>3, <2>4, UpsertKeeps DEF UpdateWrite, Exists
<1>3. CASE ~Insert(p) /\ ~UpdateWrite(p)
  <2>1. calls' = calls
    BY <1>3 DEF ApiActs, ApiStep, HandlerStep, HandlerProceeds, VapiEvent, CallCenterEvent,
       ResumeStart, CheckAbsent, UpdateRead, Send, SendLost, ApiFails, storeVars
  <2> QED BY <1>3, <2>1 DEF RowKept
<1> QED BY <1>1, <1>2, <1>3

LEMMA EveryRow ==
    ASSUME TypeInv, TypeInv', Grows, ReportInv, Next
    PROVE  \A c \in Calls : RowKept(c)
<1>1. ASSUME NEW t \in Erasers, EraserActs(t) PROVE \A c \in Calls : RowKept(c)
  <2>1. CASE EraseRow(t)
    BY <2>1 DEF EraseRow, DeleteRow, RowKept, Erased, TypeInv, TypeOK, StoreTypeOK
  <2>2. CASE ~EraseRow(t)
    BY <1>1, <2>2 DEF EraserActs, EraserStep, EraseBegin, EraseObject, EraseFails, storeVars, RowKept
  <2> QED BY <2>1, <2>2
<1>2. ASSUME DialOut \/ \E i \in Slots : VisibilityTimeout(i) \/ DeadLetter(i)
      PROVE  \A c \in Calls : RowKept(c)
  BY <1>2 DEF DialOut, Dial, VisibilityTimeout, DeadLetter, storeVars, RowKept
<1> QED BY <1>1, <1>2, WorkerRows, ApiRows DEF Next

LEMMA RowsStep ==
    ASSUME TypeInv', Grows, RowsGenuine, \A c \in Calls : RowKept(c)
    PROVE  /\ RowsGenuine'
           /\ \A c \in Calls : (Known(c) => Known(c)') /\ (HasKeys(c) => HasKeys(c)')
<1> SUFFICES ASSUME NEW c \in Calls
             PROVE  /\ Exists(c)' => Genuine(c, calls[c])'
                    /\ Known(c) => Known(c)'
                    /\ HasKeys(c) => HasKeys(c)'
  BY DEF RowsGenuine
<1>0. mishaps[c] \subseteq mishaps'[c] /\ (Erased(c) => Erased(c)')
  BY StaysGenuine DEF Grows
<1>1. CASE calls'[c] = calls[c]
  <2>1. Exists(c) => Genuine(c, calls[c])'
    <3>1. Exists(c) => Genuine(c, calls[c])
      BY DEF RowsGenuine
    <3>2. \A item : Genuine(c, item) => Genuine(c, item)'
      BY StaysGenuine
    <3>3. \A item : item = calls[c] /\ Exists(c) => Genuine(c, item)'
      BY <3>1, <3>2
    <3> QED BY <1>1, <3>3 DEF Genuine, Substance, SaidDone, Owned
  <2> QED BY <1>0, <1>1, <2>1 DEF Exists, Known, HasKeys
<1>2. CASE calls'[c] = NoItem /\ Erased(c)'
  BY <1>2 DEF Exists, Known, HasKeys, Erased
<1>3. CASE calls'[c] # NoItem /\ Genuine(c, calls[c])'
           /\ (Exists(c) /\ calls[c].keys /\ "stale write" \notin mishaps'[c] => calls'[c].keys)
  BY <1>0, <1>3 DEF Exists, Known, HasKeys
<1> QED BY <1>1, <1>2, <1>3 DEF RowKept

(*----------------------- messages and erasures --------------------------*)

LEMMA MessagesStep ==
    ASSUME TypeInv, TypeInv', HandlersGenuine, MessagesKnown, Next,
           \A c \in Calls : Known(c) => Known(c)'
    PROVE  MessagesKnown'
<1> SUFFICES ASSUME NEW i \in Slots, msgs'[i].state # "unsent", NEW c, c = msgs'[i].event.call
             PROVE  Known(c)'
  BY DEF MessagesKnown, Known, Exists, Erased
<1> USE DEF TypeInv, TypeOK
<1>0. msgs \in [Slots -> Message]
  BY DEF QueueTypeOK
<1>1. CASE msgs[i].state # "unsent"
  <2>1. msgs'[i].event = msgs[i].event /\ msgs[i].event \in Events
    BY <1>1, Monotone DEF QueueTypeOK
  <2>2. c \in Calls /\ Known(c)
    BY <1>1, <2>1, EventCalls DEF MessagesKnown
  <2> QED BY <2>2
<1>2. CASE msgs[i].state = "unsent"
  <2>1. PICK p \in Apis : Queues(p)
    <3>1. ~Quiet
      BY <1>2 DEF Quiet
    <3>2. ASSUME NEW p \in Workers, NEW j \in Slots, Takes(p, j) PROVE FALSE
      BY <1>0, <1>2, <3>2 DEF Takes, Take, Receivable, Message
    <3>3. ASSUME NEW j \in Slots, Shifts(j) PROVE FALSE
      BY <1>0, <1>2, <3>3 DEF Shifts, VisibilityTimeout, DeadLetter, Expire, Redrive, Message
    <3>4. ASSUME NEW p \in Workers, Deletes(p) PROVE FALSE
      <4>1. Busy(p)
        BY <3>4 DEF Deletes, Deleter, Ack, Drop, AckLost, Busy
      <4>2. msgs[job[p].slot].state # "unsent"
        BY <4>1, BusyCall
      <4> QED BY <1>0, <1>2, <3>4, <4>2 DEF Deletes, Delete, Message
    <3> QED BY <3>1, <3>2, <3>3, <3>4, EveryQueueStep DEF QueueStep
  <2>2. PICK j \in Slots :
           msgs' = [msgs EXCEPT ![j] = [state |-> "visible", event |-> EventOf(p), receives |-> 0]]
    BY <2>1 DEF Queues, Accept
  <2>3. j = i /\ msgs'[i].event = EventOf(p)
    BY <1>0, <1>2, <2>2
  <2>4. api[p].pc = "send" /\ EventOf(p) \in Events
    BY <2>1 DEF Queues, Send, Serving, ApiTypeOK
  <2>5. c \in Calls /\ Known(c)
    BY <2>3, <2>4, EventCalls DEF HandlersGenuine
  <2> QED BY <2>5
<1> QED BY <1>1, <1>2

LEMMA ErasersStep ==
    ASSUME TypeInv, Grows, ErasersBegun, Next
    PROVE  ErasersBegun'
<1> SUFFICES ASSUME NEW t \in Erasers, erasure'[t].pc # "idle", NEW c, c = erasure'[t].call
             PROVE  EraseBegun(c)'
  BY DEF ErasersBegun, EraseBegun
<1> USE DEF TypeInv, TypeOK
<1>0. erasure \in [Erasers -> Erasing]
  BY DEF ErasureTypeOK
<1>1. CASE erasure[t].pc # "idle" /\ erasure'[t].call = erasure[t].call
  <2>1. c \in Calls /\ EraseBegun(c)
    BY <1>1 DEF ErasersBegun, ErasureTypeOK
  <2> QED BY <2>1 DEF Grows, EraseBegun
<1>2. ASSUME NEW u \in Erasers, EraserActs(u)
      PROVE  \/ erasure[t].pc # "idle" /\ erasure'[t].call = erasure[t].call
             \/ EraseBegun(c)'
  <2>1. CASE \E d \in Calls : EraseBegin(u, d)
    <3>1. PICK d \in Calls : EraseBegin(u, d)
      BY <2>1
    <3>2. erasure' = [erasure EXCEPT ![u] = [pc |-> FirstErasure(calls[d]), call |-> d]]
          /\ "erasing" \in mishaps'[d]
      BY <3>1 DEF EraseBegin, StoreTypeOK
    <3> QED BY <1>0, <3>2 DEF EraseBegun
  <2>2. CASE EraseObject(u)
    BY <1>0, <2>2 DEF EraseObject, EraserGoto, Erasing, Kinds
  <2>3. CASE EraseRow(u) \/ EraseFails(u)
    BY <1>0, <2>3 DEF EraseRow, EraseFails, EraserDone, IdleErasure
  <2> QED BY <1>2, <2>1, <2>2, <2>3 DEF EraserActs, EraserStep
<1>3. CASE erasure' = erasure
  BY <1>1, <1>3
<1> QED BY <1>1, <1>2, <1>3 DEF Next, WorkerActs, ApiActs, DialOut, VisibilityTimeout, DeadLetter

(*-------------------------------- handlers ------------------------------*)

(* What a read finds.                                                      *)
LEMMA ReadGenuine ==
    ASSUME RowsGenuine, NEW c \in Calls, Known(c)
    PROVE  GenuineRead(c, calls[c])
BY DEF RowsGenuine, GenuineRead, Known, Exists

LEMMA HandlersStep ==
    ASSUME TypeInv, TypeInv', Grows, ReportInv, Next, \A c \in Calls : Known(c) => Known(c)'
    PROVE  HandlersGenuine'
<1> SUFFICES ASSUME NEW p \in Apis, NEW c, c = api'[p].event.call
             PROVE  /\ api'[p].pc \in {"update_read", "send"} => Known(c)'
                    /\ api'[p].pc = "update_write" => GenuineRead(c, api[p].seen)'
  BY DEF HandlersGenuine, EventOf, Known, Exists, Erased, GenuineRead, Genuine, Substance, SaidDone, Owned, EraseBegun,
     Complete, AllRecorded
<1> USE DEF TypeInv, TypeOK
<1>0. api \in [Apis -> Handler]
  BY DEF ApiTypeOK
<1>1. CASE api'[p] = api[p]
  <2>1. CASE api[p].pc = "idle"
    BY <1>1, <2>1
  <2>2. CASE api[p].pc # "idle"
    <3>1. c \in Calls /\ c = EventOf(p).call
      BY <1>1, <2>2, EventCalls DEF ApiTypeOK, EventOf
    <3>2. api[p].pc = "update_write" => GenuineRead(c, api[p].seen)
      BY <3>1 DEF ReportInv, HandlersGenuine
    <3>3. \A seen : GenuineRead(c, seen) => GenuineRead(c, seen)'
      BY <3>1, StaysGenuine
    <3>4. \A seen : api[p].pc = "update_write" /\ seen = api[p].seen => GenuineRead(c, seen)'
      BY <3>2, <3>3
    <3>5. api[p].pc = "update_write" => GenuineRead(c, api[p].seen)'
      BY <1>1, <3>4 DEF GenuineRead, Genuine, Substance, SaidDone, Owned
    <3> QED BY <1>1, <3>1, <3>5 DEF ReportInv, HandlersGenuine
  <2> QED BY <2>1, <2>2
<1>2. CASE ApiActs(p)
  <2>1. CASE \E e \in Events : VapiEvent(p, e)
    <3>1. PICK e \in Events : VapiEvent(p, e)
      BY <2>1
    <3>2. api'[p] = [pc |-> IF Exists(e.call) THEN "update_read" ELSE "check", event |-> e,
                     seen |-> NoItem]
      BY <1>0, <3>1 DEF VapiEvent, Begin
    <3>3. c = e.call /\ c \in Calls /\ (Exists(c) => Known(c)')
      BY <3>2, EventCalls DEF Known
    <3> QED BY <3>2, <3>3
  <2>2. CASE \E e \in Events : CallCenterEvent(p, e) \/ ResumeStart(p, e)
    BY <1>0, <2>2 DEF CallCenterEvent, ResumeStart, Begin
  <2>3. ASSUME api[p].pc # "idle", api'[p].event = api[p].event
        PROVE  c = EventOf(p).call /\ c \in Calls
    BY <2>3, EventCalls DEF ApiTypeOK, EventOf
  <2>4. CASE CheckAbsent(p)
    <3>1. CASE ~Exists(EventOf(p).call)
      <4>1. ApiGoto(p, "insert")
        BY <2>4, <3>1 DEF CheckAbsent
      <4>2. api'[p].pc = "insert"
        BY <1>0, <4>1 DEF ApiGoto, Handler
      <4> QED BY <4>2
    <3>2. CASE Exists(EventOf(p).call)
      <4>1. Continue(p, AfterConflict(EventOf(p))) /\ api[p].pc = "check"
        BY <2>4, <3>2 DEF CheckAbsent, Serving
      <4>2. api'[p].pc = "idle" \/ (api'[p].pc = "update_read" /\ api'[p].event = api[p].event)
        BY <1>0, <4>1 DEF Continue, AfterConflict, Respond, ApiGoto, IdleHandler, Handler
      <4> QED BY <2>3, <3>2, <4>1, <4>2 DEF Known
    <3> QED BY <3>1, <3>2
  <2>5. CASE Insert(p) \/ UpdateWrite(p)
    <3>1. calls'[EventOf(p).call] # NoItem
      BY <1>2, <2>5, ApiRows
    <3>2. api'[p].pc = "idle" \/ (api'[p].pc # "update_write" /\ api'[p].event = api[p].event)
      <4>1. CASE Insert(p)
        <5> DEFINE pc == AfterInsert(EventOf(p))
        <5>1. EventOf(p).source \in {"vapi", "call_center", "start"}
          BY <4>1, WebhooksAssumption DEF Insert, Serving, ApiTypeOK, Event
        <5>2. pc \in {"update_read", "send", "idle"}
          BY <5>1 DEF AfterInsert
        <5>3. Continue(p, pc)
          BY <4>1 DEF Insert
        <5> HIDE DEF pc
        <5> QED BY <1>0, <5>2, <5>3 DEF Continue, Respond, ApiGoto, IdleHandler, Handler
      <4>2. CASE UpdateWrite(p)
        BY <1>0, <4>2 DEF UpdateWrite, Continue, Respond, ApiGoto, IdleHandler, Handler
      <4> QED BY <2>5, <4>1, <4>2
    <3>3. api[p].pc # "idle"
      BY <2>5 DEF Insert, UpdateWrite, Serving
    <3> QED BY <2>3, <3>1, <3>2, <3>3 DEF Known, Exists
  <2>6. CASE UpdateRead(p)
    <3>1. /\ api[p].pc = "update_read" /\ api'[p].event = api[p].event
          /\ api'[p].pc = "update_write" /\ api'[p].seen = calls[EventOf(p).call]
      BY <1>0, <2>6 DEF UpdateRead, Serving, Handler
    <3>2. c = EventOf(p).call /\ c \in Calls /\ Known(c)
      BY <2>3, <3>1 DEF ReportInv, HandlersGenuine
    <3>3. GenuineRead(c, calls[c])
      BY <3>2, ReadGenuine DEF ReportInv
    <3>4. \A seen : GenuineRead(c, seen) => GenuineRead(c, seen)'
      BY <3>2, StaysGenuine
    <3>5. \A seen : seen = calls[c] => GenuineRead(c, seen)'
      BY <3>3, <3>4
    <3>6. GenuineRead(c, api[p].seen)'
      BY <3>1, <3>2, <3>5 DEF GenuineRead, Genuine, Substance, SaidDone, Owned
    <3> QED BY <3>1, <3>6
  <2>7. CASE Send(p) \/ SendLost(p) \/ ApiFails(p)
    <3>1. api' = [api EXCEPT ![p] = IdleHandler]
      BY <2>7 DEF Send, SendLost, ApiFails, Respond
    <3>2. api'[p].pc = "idle"
      BY <1>0, <3>1 DEF IdleHandler
    <3> QED BY <3>2
  <2> QED BY <1>2, <2>1, <2>2, <2>4, <2>5, <2>6, <2>7 DEF ApiActs, ApiStep, HandlerStep,
          HandlerProceeds
<1> QED BY <1>1, <1>2, ApiChange

(*-------------------------------- workers -------------------------------*)

(* A worker's own steps: what it stored, and which row it read.            *)
LEMMA WorkerProgress ==
    ASSUME TypeInv, ReportInv, NEW p \in Workers, Proceed(p), Busy(p)', NEW c, c = CallOf(p)
    PROVE  /\ job'[p].slot = job[p].slot
           /\ job'[p].pc \in {"mark_write", "fail_write"} => job'[p].seen = calls[c]
           /\ ~EraseBegun(c) =>
                /\ Stored(job'[p].pc) \subseteq objects'[c]
                /\ job'[p].pc \in {"mark_read", "mark_write"} => c \in crm'
           /\ job'[p].pc = "email" => MarkWrite(p)
<1> USE DEF TypeInv, TypeOK
<1>0. job[p] \in Job /\ job \in [Workers -> Job]
  BY DEF WorkTypeOK
<1>1. Busy(p)
  BY DEF Proceed, Busy, Load, StoreObject, SyncCrm, MarkRead, MarkWrite, SendReport, Ack,
     StepFails, AckLost, FailLoad, FailRead, Requeue, GiveUp, Drop, DropRaises, ProcessSteps, Kinds
<1>2. /\ c \in Calls /\ objects[c] \subseteq Kinds
      /\ ~EraseBegun(c) => /\ Stored(job[p].pc) \subseteq objects[c]
                           /\ job[p].pc \in {"mark_read", "mark_write"} => c \in crm
  BY <1>1, BusyCall DEF ReportInv, WorkersGenuine, WorkGenuine, StoreTypeOK
<1>3. /\ \A pc \in {"load", "audio", "email", "ack", "drop", "fail_load", "fail_read", "fail_write"} :
           Stored(pc) = {}
      /\ Stored("transcript") = {"audio"} /\ Stored("report") = {"audio", "transcript"}
      /\ \A pc \in {"crm", "mark_read", "mark_write"} : Stored(pc) = {"audio", "transcript", "report"}
  BY DEF Stored, Kinds
<1>4. CASE Load(p)
  <2>1. job'[p].slot = job[p].slot /\ job'[p].pc \in {"ack", "audio", "fail_load"}
    BY <1>0, <1>4 DEF Load, Goto, AfterLoad, Job
  <2> QED BY <1>3, <2>1
<1>5. CASE StoreObject(p)
  <2>1. /\ job'[p].slot = job[p].slot /\ job'[p].pc = StageAfter(job[p].pc)
        /\ job[p].pc \in {"audio", "transcript", "report"}
    BY <1>0, <1>5 DEF StoreObject, Goto, Job, Kinds
  <2>2. objects'[c] = objects[c] \cup {job[p].pc}
    BY <1>2, <1>5 DEF StoreObject, PutObject, StoreTypeOK
  <2>3. job[p].pc = "audio" => job'[p].pc = "transcript"
    BY <2>1 DEF StageAfter
  <2>4. job[p].pc = "transcript" => job'[p].pc = "report"
    BY <2>1 DEF StageAfter
  <2>5. job[p].pc = "report" => job'[p].pc = "crm"
    BY <2>1 DEF StageAfter
  <2> QED BY <1>2, <1>3, <2>1, <2>2, <2>3, <2>4, <2>5
<1>6. CASE SyncCrm(p)
  <2>1. /\ job'[p].slot = job[p].slot /\ job'[p].pc = "mark_read" /\ job[p].pc = "crm"
        /\ c \in crm' /\ objects' = objects
    BY <1>0, <1>6 DEF SyncCrm, Goto, Job, storeVars
  <2> QED BY <1>2, <1>3, <2>1
<1>7. CASE MarkRead(p)
  <2>1. /\ job'[p].slot = job[p].slot /\ job'[p].pc = "mark_write" /\ job[p].pc = "mark_read"
        /\ job'[p].seen = calls[c] /\ objects' = objects /\ crm' = crm
    BY <1>0, <1>7 DEF MarkRead, Job, storeVars
  <2> QED BY <1>2, <1>3, <2>1
<1>8. CASE MarkWrite(p)
  <2>1. job'[p].slot = job[p].slot /\ job'[p].pc = "email"
    BY <1>0, <1>8 DEF MarkWrite, Job
  <2> QED BY <1>3, <1>8, <2>1
<1>9. CASE SendReport(p) \/ StepFails(p) \/ AckLost(p) \/ FailLoad(p)
  <2>1. /\ job'[p].slot = job[p].slot
        /\ job'[p].pc \in {"ack", "fail_load", "fail_read", "drop"}
    <3>1. CASE SendReport(p) \/ StepFails(p)
      BY <1>0, <3>1 DEF SendReport, StepFails, Goto, Job
    <3>2. CASE AckLost(p)
      BY <1>0, <3>2 DEF AckLost, Goto, Job
    <3>3. CASE FailLoad(p)
      BY <1>0, <3>3 DEF FailLoad, Goto, Job
    <3> QED BY <1>9, <3>1, <3>2, <3>3
  <2> QED BY <1>3, <2>1
<1>10. CASE FailRead(p)
  <2>1. job'[p].slot = job[p].slot /\ job'[p].pc = "fail_write" /\ job'[p].seen = calls[c]
    BY <1>0, <1>10 DEF FailRead, Job
  <2> QED BY <1>3, <2>1
<1>11. CASE GiveUp(p)
  <2>1. job'[p].slot = job[p].slot /\ job'[p].pc = "drop"
    BY <1>0, <1>11 DEF GiveUp, Job
  <2> QED BY <1>3, <2>1
<1>12. CASE Ack(p) \/ Drop(p) \/ Requeue(p) \/ DropRaises(p)
  <2>1. job'[p] \in {IdleJob, DownJob}
    BY <1>0, <1>12 DEF Ack, Drop, Requeue, DropRaises, Finish, Exit
  <2> QED BY <2>1 DEF IdleJob, DownJob, Busy
<1> QED BY <1>4, <1>5, <1>6, <1>7, <1>8, <1>9, <1>10, <1>11, <1>12 DEF Proceed

(* Its other steps begin afresh.                                           *)
LEMMA WorkerAfresh ==
    ASSUME TypeInv, NEW p \in Workers, Receive(p) \/ Crash(p) \/ Restart(p)
    PROVE  job'[p].pc \in {"load", "idle", "down"}
<1>0. job \in [Workers -> Job]
  BY DEF TypeInv, TypeOK, WorkTypeOK
<1>1. CASE Receive(p)
  <2>1. PICK i \in Slots : job' = [job EXCEPT ![p] =
           [IdleJob EXCEPT !.pc = "load", !.slot = i, !.receipt = msgs'[i].receives]]
    BY <1>1 DEF Receive
  <2> QED BY <1>0, <2>1 DEF IdleJob
<1>2. CASE Crash(p) \/ Restart(p)
  <2>1. job'[p] \in {IdleJob, DownJob}
    BY <1>0, <1>2 DEF Crash, Restart, Exit, Finish
  <2> QED BY <2>1 DEF IdleJob, DownJob
<1> QED BY <1>1, <1>2

LEMMA WorkersStep ==
    ASSUME TypeInv, TypeInv', Grows, ReportInv, Next
    PROVE  WorkersGenuine'
<1> SUFFICES ASSUME NEW p \in Workers PROVE WorkGenuine(p)'
  BY DEF WorkersGenuine
<1>1. CASE ~Busy(p)'
  BY <1>1 DEF WorkGenuine, Busy
<1>2. CASE Busy(p)' /\ job'[p] = job[p]
  <2>1. PICK c \in Calls : c = CallOf(p) /\ CallOf(p)' = c
    BY <1>2, SameCall DEF Busy
  <2>2. Busy(p) /\ (EraseBegun(c) => EraseBegun(c)')
    BY <1>2, StaysGenuine DEF Busy
  <2>3. job[p].pc \in {"mark_write", "fail_write"} => GenuineRead(c, job[p].seen)
    BY <2>1 DEF ReportInv, WorkersGenuine, WorkGenuine
  <2>4. \A seen : GenuineRead(c, seen) => GenuineRead(c, seen)'
    BY StaysGenuine
  <2>5. \A seen : job[p].pc \in {"mark_write", "fail_write"} /\ seen = job[p].seen => GenuineRead(c, seen)'
    BY <2>3, <2>4
  <2>6. job'[p].pc \in {"mark_write", "fail_write"} => GenuineRead(CallOf(p), job[p].seen)'
    BY <1>2, <2>1, <2>5 DEF GenuineRead, Genuine, Substance, SaidDone, Owned, Erased, EraseBegun, Complete, AllRecorded
  <2>7. ~EraseBegun(c)' => /\ Stored(job[p].pc) \subseteq objects'[c]
                           /\ job[p].pc \in {"mark_read", "mark_write"} => c \in crm'
    <3>1. ~EraseBegun(c) => /\ Stored(job[p].pc) \subseteq objects[c]
                            /\ job[p].pc \in {"mark_read", "mark_write"} => c \in crm
      BY <2>1, <2>2 DEF ReportInv, WorkersGenuine, WorkGenuine
    <3> QED BY <2>2, <3>1 DEF Grows
  <2>8. EraseBegun(CallOf(p))' <=> EraseBegun(c)'
    BY <2>1 DEF EraseBegun
  <2>9. Stored(job[p].pc)' = Stored(job'[p].pc) /\ Stored(job'[p].pc) = Stored(job[p].pc)
    BY <1>2 DEF Stored
  <2> QED BY <1>2, <2>1, <2>6, <2>7, <2>8, <2>9 DEF WorkGenuine
<1>3. CASE Busy(p)' /\ Proceed(p)
  <2>0. Busy(p)
    BY <1>3 DEF Proceed, Busy, Load, StoreObject, SyncCrm, MarkRead, MarkWrite, SendReport, Ack,
       StepFails, AckLost, FailLoad, FailRead, Requeue, GiveUp, Drop, DropRaises, ProcessSteps,
       Kinds
  <2>1. PICK c : c = CallOf(p)
    OBVIOUS
  <2>2. /\ job'[p].slot = job[p].slot
        /\ job'[p].pc \in {"mark_write", "fail_write"} => job'[p].seen = calls[c]
        /\ ~EraseBegun(c) =>
             /\ Stored(job'[p].pc) \subseteq objects'[c]
             /\ job'[p].pc \in {"mark_read", "mark_write"} => c \in crm'
    BY <1>3, <2>1, WorkerProgress
  <2>3. c \in Calls /\ CallOf(p)' = c
    BY <2>0, <2>1, <2>2, SameCall
  <2>4. GenuineRead(c, calls[c])
    <3>1. Known(c)
      BY <2>0, <2>1, BusyCall DEF ReportInv, MessagesKnown, CallOf
    <3> QED BY <2>3, <3>1, ReadGenuine DEF ReportInv
  <2>5. \A seen : GenuineRead(c, seen) => GenuineRead(c, seen)'
    BY <2>3, StaysGenuine
  <2>6. \A seen : seen = calls[c] => GenuineRead(c, seen)'
    BY <2>4, <2>5
  <2>7. job'[p].pc \in {"mark_write", "fail_write"} => GenuineRead(CallOf(p), job[p].seen)'
    BY <2>2, <2>3, <2>6 DEF GenuineRead, Genuine, Substance, SaidDone, Owned, Erased, EraseBegun, Complete, AllRecorded
  <2>8. EraseBegun(CallOf(p))' <=> EraseBegun(c)'
    BY <2>3 DEF EraseBegun
  <2>9. EraseBegun(c) => EraseBegun(c)'
    BY <2>3, StaysGenuine
  <2>10. Stored(job[p].pc)' = Stored(job'[p].pc)
    BY DEF Stored
  <2> QED BY <2>2, <2>3, <2>7, <2>8, <2>9, <2>10 DEF WorkGenuine
<1>4. CASE job'[p].pc = "load"
  <2>1. Stored(job[p].pc)' = {}
    BY <1>4 DEF Stored
  <2> QED BY <1>4, <2>1 DEF WorkGenuine
<1>5. Receive(p) \/ Crash(p) \/ Restart(p) => job'[p].pc = "load" \/ ~Busy(p)'
  BY WorkerAfresh DEF Busy
<1> QED BY <1>1, <1>2, <1>3, <1>4, <1>5, JobChange DEF WorkerActs, WorkerStep

(*---------------------------------- mails -------------------------------*)

LEMMA MailsStep ==
    ASSUME TypeInv, TypeInv', ReportInv, Next, \A c \in Calls : HasKeys(c) => HasKeys(c)'
    PROVE  MailsKnown'
<1> USE DEF TypeInv, TypeOK
<1>1. ASSUME NEW c \in mailed' PROVE HasKeys(c)'
  <2>0. c \in Calls
    BY DEF WorkTypeOK
  <2>1. CASE c \in mailed
    BY <2>0, <2>1 DEF ReportInv, MailsKnown
  <2>2. CASE c \notin mailed
    <3>1. PICK p \in Workers : WorkerActs(p)
      BY <1>1, <2>2 DEF Next, ApiActs, DialOut, EraserActs, VisibilityTimeout, DeadLetter, workVars
    <3>2. SendReport(p)
      BY <1>1, <2>2, <3>1 DEF WorkerActs, WorkerStep, Proceed, Receive, Load, StoreObject, SyncCrm,
         MarkRead, MarkWrite, Ack, StepFails, AckLost, FailLoad, FailRead, Requeue, GiveUp, Drop,
         DropRaises, Crash, Restart
    <3>3. HasKeys(c)
      BY <1>1, <2>2, <3>2 DEF SendReport, ReportInv, MailsKnown
    <3> QED BY <2>0, <3>3
  <2> QED BY <2>1, <2>2
<1>2. ASSUME NEW p \in Workers, job'[p].pc = "email", NEW c, c = CallOf(p)' PROVE HasKeys(c)'
  <2>1. CASE job'[p] = job[p]
    <3>1. Busy(p) /\ job[p].pc = "email" /\ job'[p].slot = job[p].slot
      BY <1>2, <2>1 DEF Busy
    <3>2. c = CallOf(p) /\ c \in Calls
      BY <1>2, <3>1, SameCall
    <3> QED BY <3>1, <3>2 DEF ReportInv, MailsKnown
  <2>2. CASE job'[p] # job[p]
    <3>1. WorkerActs(p)
      BY <2>2, JobChange
    <3>2. Proceed(p) /\ Busy(p)'
      BY <1>2, <3>1, WorkerAfresh DEF WorkerActs, WorkerStep, Busy
    <3>3. MarkWrite(p) /\ job'[p].slot = job[p].slot
      <4>1. PICK d : d = CallOf(p)
        OBVIOUS
      <4> QED BY <1>2, <3>2, <4>1, WorkerProgress
    <3>4. Busy(p)
      BY <3>3 DEF MarkWrite, Busy
    <3>5. c = CallOf(p) /\ c \in Calls
      BY <1>2, <3>3, <3>4, SameCall
    <3>6. job[p].seen \in Snapshot /\ GenuineRead(c, job[p].seen)
      BY <3>3, <3>5 DEF WorkTypeOK, Job, MarkWrite, ReportInv, WorkersGenuine, WorkGenuine
    <3>7. Published(job[p].seen).keys /\ Published(job[p].seen) # NoItem
      BY <3>5, <3>6, RewritesGenuine, RowTypes, CallStoreAssumption
    <3>8. calls'[c] = Published(job[p].seen)
      BY <3>3, <3>5 DEF MarkWrite, Upsert, StoreTypeOK
    <3> QED BY <3>7, <3>8 DEF HasKeys, Exists
  <2> QED BY <2>1, <2>2
<1>3. \A p \in Workers : job'[p].pc = "email" => HasKeys(CallOf(p))'
  BY <1>2 DEF HasKeys, Exists
<1> QED BY <1>1, <1>3 DEF MailsKnown

(*-------------------------------- theorems ------------------------------*)

LEMMA InitReport == Init => ReportInv
<1> SUFFICES ASSUME Init PROVE ReportInv
  OBVIOUS
<1>1. /\ \A c \in Calls : ~Exists(c)
      /\ \A i \in Slots : msgs[i].state = "unsent"
      /\ \A p \in Apis : api[p].pc = "idle"
      /\ \A t \in Erasers : erasure[t].pc = "idle"
      /\ \A p \in Workers : job[p].pc = "idle"
      /\ mailed = {}
  BY DEF Init, StoreInit, QueueInit, WorkInit, ApiInit, ErasureInit, Exists, IdleHandler,
     IdleErasure, IdleJob
<1> QED BY <1>1 DEF ReportInv, RowsGenuine, MessagesKnown, HandlersGenuine, ErasersBegun,
        WorkersGenuine, WorkGenuine, Busy, MailsKnown

LEMMA NextReport == TypeInv /\ TypeInv' /\ ReportInv /\ [Next]_vars => ReportInv'
<1> SUFFICES ASSUME TypeInv, TypeInv', ReportInv, [Next]_vars PROVE ReportInv'
  OBVIOUS
<1>1. CASE Next
  <2>1. Grows
    BY <1>1, StepGrows DEF ReportInv
  <2>2. \A c \in Calls : RowKept(c)
    BY <1>1, <2>1, EveryRow
  <2>3. RowsGenuine' /\ \A c \in Calls : (Known(c) => Known(c)') /\ (HasKeys(c) => HasKeys(c)')
    BY <2>1, <2>2, RowsStep DEF ReportInv
  <2>4. MessagesKnown' /\ ErasersBegun'
    BY <1>1, <2>1, <2>3, MessagesStep, ErasersStep DEF ReportInv
  <2>5. HandlersGenuine' /\ WorkersGenuine' /\ MailsKnown'
    BY <1>1, <2>1, <2>3, HandlersStep, WorkersStep, MailsStep
  <2> QED BY <2>3, <2>4, <2>5 DEF ReportInv
<1>2. CASE UNCHANGED vars
  <2>1. /\ calls' = calls /\ objects' = objects /\ mishaps' = mishaps /\ msgs' = msgs
        /\ job' = job /\ crm' = crm /\ mailed' = mailed /\ api' = api /\ erasure' = erasure
    BY <1>2 DEF vars, storeVars, workVars, apiVars
  <2>2. \A c, seen : /\ Genuine(c, seen)' <=> Genuine(c, seen)
                     /\ Erased(c)' <=> Erased(c)
                     /\ EraseBegun(c)' <=> EraseBegun(c)
                     /\ GenuineRead(c, seen)' <=> GenuineRead(c, seen)
    BY <2>1 DEF Genuine, Substance, SaidDone, GenuineRead, Owned, Erased, EraseBegun, Complete, AllRecorded
  <2>3. RowsGenuine' /\ MessagesKnown'
    BY <2>1, <2>2 DEF ReportInv, RowsGenuine, MessagesKnown, Known, Exists, Genuine, Substance, SaidDone, Owned, Erased,
       EraseBegun, Complete, AllRecorded
  <2>4. HandlersGenuine' /\ ErasersBegun'
    BY <2>1 DEF ReportInv, HandlersGenuine, ErasersBegun, Known, Exists, GenuineRead, Genuine,
       Substance, SaidDone, Owned, Erased, EraseBegun, Complete, AllRecorded, EventOf
  <2>5. WorkersGenuine' /\ MailsKnown'
    BY <2>1 DEF ReportInv, WorkersGenuine, WorkGenuine, MailsKnown, HasKeys, Exists, GenuineRead,
       Genuine, Substance, SaidDone, Owned, Erased, EraseBegun, Complete, AllRecorded, CallOf, Busy, Stored
  <2> QED BY <2>3, <2>4, <2>5 DEF ReportInv
<1> QED BY <1>1, <1>2

LEMMA ReportInvariant == Spec => [](TypeInv /\ ReportInv)
<1>1. Init => TypeInv /\ ReportInv
  BY InitType, InitReport
<1>2. TypeInv /\ ReportInv /\ [Next]_vars => TypeInv' /\ ReportInv'
  BY NextType, NextReport
<1> QED BY <1>1, <1>2, PTL DEF Spec

LEMMA OwnedIsTheTenants ==
    ASSUME NEW c, NEW item, Owned(c, item)
    PROVE  item.tenant = TenantOf[c]
BY EventCalls DEF Owned

(* No webhook, retry or outdated write gives a call to another tenant or   *)
(* to none: only a row that survived its erasure has no tenant             *)
(* (update_item's start from an empty row, erase_call).                    *)
THEOREM OwnerKept == Spec => []OwnerLossNeedsErasure
<1>1. ReportInv => OwnerLossNeedsErasure
  <2> SUFFICES ASSUME ReportInv, NEW c \in Calls, Exists(c), calls[c].tenant # TenantOf[c]
               PROVE  calls[c].tenant = NoTenant /\ "erased" \in mishaps[c]
    BY DEF OwnerLossNeedsErasure
  <2>1. Genuine(c, calls[c])
    BY DEF ReportInv, RowsGenuine
  <2> QED BY <2>1, OwnedIsTheTenants DEF Genuine, Substance, Erased
<1> QED BY <1>1, ReportInvariant, PTL

(* A row that says completed names its objects, unless the word is an      *)
(* event's, and what a row names is in the bucket and in the CRM until an  *)
(* erasure begins (process's order of stores and the update that publishes *)
(* them).                                                                  *)
THEOREM PublishedBeforeCompleted == Spec => []CompletedIsPublished
<1>1. ReportInv => CompletedIsPublished
  <2> SUFFICES ASSUME ReportInv, NEW c \in Calls, Exists(c), "erasing" \notin mishaps[c]
               PROVE  /\ calls[c].status = "completed" => calls[c].keys \/ "completed" \in mishaps[c]
                      /\ calls[c].keys => objects[c] = Kinds /\ c \in crm
    BY DEF CompletedIsPublished
  <2>1. Genuine(c, calls[c])
    BY DEF ReportInv, RowsGenuine
  <2> QED BY <2>1 DEF Genuine, Substance, SaidDone, EraseBegun, Complete
<1> QED BY <1>1, ReportInvariant, PTL

(* A mailed report stays within its tenant's reach, unless an outdated row *)
(* was written over it or it was erased (report_url, the webhooks'         *)
(* update_item).                                                           *)
THEOREM MailedReachable == Spec => []MailedStaysReachable
<1>1. TypeInv /\ ReportInv => MailedStaysReachable
  <2> SUFFICES ASSUME TypeInv, ReportInv, NEW c \in mailed, Exists(c),
                      mishaps[c] \cap {"stale write", "erased"} = {}
               PROVE  HasReport(c, TenantOf[c])
    BY DEF MailedStaysReachable
  <2>1. c \in Calls /\ HasKeys(c)
    BY DEF TypeInv, TypeOK, WorkTypeOK, ReportInv, MailsKnown
  <2>2. Genuine(c, calls[c])
    BY <2>1 DEF ReportInv, RowsGenuine
  <2>3. calls[c].tenant = TenantOf[c]
    BY <2>2, OwnedIsTheTenants DEF Genuine, Substance, Erased
  <2> QED BY <2>1, <2>3 DEF HasKeys, HasReport
<1> QED BY <1>1, ReportInvariant, PTL

(* A message never waits for a recording that its row has lost             *)
(* (receive_vapi_call_event updates before it sends; put_item and          *)
(* update_item of database.py).                                            *)
THEOREM RecordingIsThere == Spec => []LiveMessageHasRecording
<1>1. TypeInv /\ ReportInv => LiveMessageHasRecording
  <2> SUFFICES ASSUME TypeInv, ReportInv, NEW i \in Slots, Live(i), NEW c, c = msgs[i].event.call,
                      \A e \in Events : e.call = c => e.source # "start" /\ e.recorded
               PROVE  Erased(c) \/ (Exists(c) /\ calls[c].recorded)
    BY DEF LiveMessageHasRecording, Erased
  <2>1. msgs[i].state # "unsent" /\ msgs[i].event \in Events
    BY DEF Live, TypeInv, TypeOK, QueueTypeOK
  <2>2. c \in Calls /\ Known(c)
    BY <2>1, EventCalls DEF ReportInv, MessagesKnown
  <2>3. Exists(c) => Genuine(c, calls[c])
    BY <2>2 DEF ReportInv, RowsGenuine
  <2> QED BY <2>2, <2>3 DEF Known, Genuine, Substance, AllRecorded
<1> QED BY <1>1, ReportInvariant, PTL

(* Vapi gives every event of a call the direction the call has, and the    *)
(* call centre does not announce Vapi's calls.                             *)
OneDirection ==
    \A e, f \in Events :
        e.source = "vapi" /\ f.call = e.call => NewItem(f).direction = e.direction

(* receive_vapi_call_event turns none of the call's own events away,       *)
(* whichever handler made the row.                                         *)
THEOREM EventsAreAdmitted ==
    ASSUME OneDirection
    PROVE  Spec => []OwnEventsAdmitted
<1>1. ReportInv => OwnEventsAdmitted
  <2> SUFFICES ASSUME ReportInv, NEW e \in Events, e.source = "vapi", ~Erased(e.call),
                      calls[e.call] # NoItem
               PROVE  calls[e.call].tenant = e.tenant /\ calls[e.call].direction = e.direction
    BY DEF OwnEventsAdmitted, Admits, Erased
  <2>1. e.call \in Calls /\ e.tenant = TenantOf[e.call]
    BY EventCalls
  <2>2. Owned(e.call, calls[e.call])
    BY <2>1 DEF ReportInv, RowsGenuine, Exists, Genuine, Substance
  <2> QED BY <2>1, <2>2, EventCalls DEF Owned, OneDirection
<1> QED BY <1>1, ReportInvariant, PTL

(*-------------------------- calls left alone ----------------------------*)

(* A call some message tells of, or is about to, has a row past "received";*)
(* such a row is only ever inserted, into nothing.                         *)
Announced(c) == SendPending(c) \/ \E i \in Slots : Carries(i, c)
Underway(c)  == Exists(c) /\ calls[c].status # "received"
Disturbed(c) == mishaps[c] \cap {"stale write", "erased", "received"} # {}

AnnouncedInv == \A c \in Calls : Disturbed(c) \/ (Announced(c) => Underway(c))

(* Who announces a call.                                                   *)
LEMMA AnnouncedBy ==
    ASSUME TypeInv, Next, NEW c \in Calls, Announced(c)'
    PROVE  \/ Announced(c)
           \/ \E p \in Apis : /\ Insert(p) \/ UpdateWrite(p)
                              /\ EventOf(p).call = c /\ api'[p].pc = "send"
<1> USE DEF TypeInv, TypeOK
<1>0. msgs \in [Slots -> Message] /\ api \in [Apis -> Handler]
  BY DEF QueueTypeOK, ApiTypeOK
<1>1. ASSUME NEW i \in Slots, Carries(i, c)' PROVE Announced(c)
  <2>1. CASE msgs[i].state # "unsent" /\ msgs'[i].event = msgs[i].event
    BY <1>1, <2>1 DEF Announced, Carries
  <2>2. CASE msgs'[i] = msgs[i]
    BY <1>1, <2>2 DEF Announced, Carries
  <2>3. CASE \E p \in Apis : Queues(p)
    <3>1. PICK p \in Apis : Queues(p)
      BY <2>3
    <3>2. msgs'[i] # msgs[i] => msgs'[i].event = EventOf(p)
      BY <1>0, <3>1 DEF Queues, Accept
    <3>3. msgs'[i] # msgs[i] => EventOf(p).call = c /\ Serving(p, "send")
      BY <1>1, <3>1, <3>2 DEF Queues, Send, Carries
    <3> QED BY <2>2, <3>3 DEF Announced, SendPending
  <2>4. CASE \E p \in Workers, j \in Slots : Takes(p, j)
    BY <1>0, <2>1, <2>2, <2>4 DEF Takes, Take, Receivable, Message
  <2>5. CASE \E p \in Workers : Deletes(p)
    <3>1. PICK p \in Workers : Deletes(p)
      BY <2>5
    <3>2. Busy(p) /\ job[p].slot \in Slots /\ msgs[job[p].slot].state # "unsent"
      BY <3>1, BusyCall DEF Deletes, Deleter, Ack, Drop, AckLost, Busy
    <3> QED BY <1>0, <2>1, <2>2, <3>1, <3>2 DEF Deletes, Delete, Message
  <2>6. CASE \E j \in Slots : Shifts(j)
    BY <1>0, <2>1, <2>2, <2>6 DEF Shifts, VisibilityTimeout, DeadLetter, Expire, Redrive, Message
  <2> QED BY <2>2, <2>3, <2>4, <2>5, <2>6, EveryQueueStep DEF QueueStep, Quiet
<1>2. ASSUME NEW p \in Apis, Serving(p, "send")', EventOf(p)'.call = c
      PROVE  \/ Announced(c)
             \/ /\ Insert(p) \/ UpdateWrite(p)
                /\ EventOf(p).call = c /\ api'[p].pc = "send"
  <2>1. CASE api'[p] = api[p]
    BY <1>2, <2>1 DEF Announced, SendPending, Serving, EventOf
  <2>2. CASE api'[p] # api[p]
    <3>1. ApiActs(p)
      BY <2>2, ApiChange
    <3>2. Insert(p) \/ UpdateWrite(p)
      <4>1. ASSUME CheckAbsent(p) PROVE FALSE
        BY <1>0, <1>2, <4>1 DEF CheckAbsent, Continue, ApiGoto, Respond, AfterConflict, IdleHandler,
           Serving, Handler
      <4>2. ASSUME NEW e \in Events, VapiEvent(p, e) \/ CallCenterEvent(p, e) \/ ResumeStart(p, e)
            PROVE  FALSE
        BY <1>0, <1>2, <4>2 DEF VapiEvent, CallCenterEvent, ResumeStart, Begin, Serving
      <4>3. ASSUME Send(p) \/ SendLost(p) \/ ApiFails(p) PROVE FALSE
        <5>1. Respond(p)
          BY <4>3 DEF Send, SendLost, ApiFails
        <5>2. api'[p] = IdleHandler
          BY <1>0, <5>1 DEF Respond
        <5> QED BY <1>2, <5>2 DEF Serving, IdleHandler
      <4>4. ASSUME UpdateRead(p) PROVE FALSE
        <5>1. api[p] \in Handler /\ api' = [api EXCEPT ![p].pc = "update_write",
                                                     ![p].seen = calls[EventOf(p).call]]
          BY <1>0, <4>4 DEF UpdateRead
        <5>2. api'[p].pc = "update_write"
          BY <1>0, <5>1 DEF Handler
        <5> QED BY <1>2, <5>2 DEF Serving
      <4> QED BY <3>1, <4>1, <4>2, <4>3, <4>4 DEF ApiActs, ApiStep, HandlerStep, HandlerProceeds
    <3>3. api'[p].event = api[p].event /\ api'[p].pc = "send"
      BY <1>0, <1>2, <3>2 DEF Insert, UpdateWrite, Continue, ApiGoto, Respond, IdleHandler, Serving,
         Handler
    <3> QED BY <1>2, <3>2, <3>3 DEF EventOf
  <2> QED BY <2>1, <2>2
<1> QED BY <1>1, <1>2 DEF Announced, SendPending

(* What the writes that find the row as they read it leave behind.         *)
LEMMA WritesUnderway ==
    ASSUME NEW seen \in Snapshot
    PROVE  /\ Published(seen).status # "received"
           /\ \A n : Failed(seen, n).status # "received"
           /\ \A e \in Events : /\ Updated(seen, e).status = "received" => "received" \in OwnWords(e)
                                /\ (e.source = "call_center" /\ e.recorded)
                                     => NewItem(e).status = "queued"
<1>1. Base(seen) \in Item /\ EmptyItem \in Item
  <2>1. NoItem \in Snapshot
    BY DEF Snapshot
  <2> QED BY <2>1, RowTypes DEF Base
<1>2. Published(seen).status = "completed"
  BY <1>1 DEF Published, Item
<1>3. \A n : Failed(seen, n).status \in {"failed", "queued"}
  BY <1>1 DEF Failed, Item
<1>4. ASSUME NEW e \in Events
      PROVE  /\ Updated(seen, e).status = "received" => "received" \in OwnWords(e)
             /\ (e.source = "call_center" /\ e.recorded) => NewItem(e).status = "queued"
  <2>1. e.status = "received" => "received" \in OwnWords(e)
    BY DEF OwnWords, OwnStatuses
  <2>2. Updated(seen, e).status = e.status
    BY <1>1 DEF Updated, Item
  <2>3. (e.source = "call_center" /\ e.recorded) => NewItem(e).status = "queued"
    BY <1>1 DEF NewItem, Item
  <2> QED BY <2>1, <2>2, <2>3
<1> QED BY <1>2, <1>3, <1>4

LEMMA AnnouncedStep ==
    ASSUME TypeInv, AnnouncedInv, Next
    PROVE  AnnouncedInv'
<1> USE DEF TypeInv, TypeOK
<1> SUFFICES ASSUME NEW c \in Calls, ~Disturbed(c)', Announced(c)'
             PROVE  Underway(c)'
  BY DEF AnnouncedInv
<1>0. ~Disturbed(c) /\ (Announced(c) => Underway(c)) /\ calls \in [Calls -> Snapshot]
  BY Monotone DEF Disturbed, AnnouncedInv, StoreTypeOK
<1>1. ASSUME NEW p \in Apis, Insert(p), EventOf(p).call = c PROVE Underway(c)'
  <2>1. EventOf(p) \in Events /\ NoItem \in Snapshot
    BY <1>1 DEF Insert, Serving, ApiTypeOK, Snapshot
  <2>2. calls'[c] = NewItem(EventOf(p)) /\ NewItem(EventOf(p)) # NoItem
    BY <1>0, <1>1, <2>1, RowTypes, CallStoreAssumption DEF Insert, Upsert
  <2>3. calls[c] = NoItem
    BY <1>1 DEF Insert, Upsert, StoreTypeOK, Disturbed
  <2>4. PICK q \in Apis : (Insert(q) \/ UpdateWrite(q)) /\ EventOf(q).call = c /\ api'[q].pc = "send"
    BY <1>0, <2>3, AnnouncedBy DEF Underway, Exists
  <2>5. q = p
    BY <1>1, <2>4 DEF Insert, UpdateWrite, Continue, ApiGoto, Respond, Serving, IdleHandler, ApiTypeOK,
       Handler
  <2>6. EventOf(p).source = "call_center" /\ EventOf(p).recorded
    BY <1>1, <2>1, <2>4, <2>5, WebhooksAssumption DEF Insert, AfterInsert, Continue, ApiGoto, Respond,
       IdleHandler, ApiTypeOK, Handler, Event
  <2> QED BY <2>1, <2>2, <2>6, WritesUnderway DEF Underway, Exists
<1>2. ASSUME NEW p \in Apis, UpdateWrite(p), EventOf(p).call = c PROVE Underway(c)'
  <2>1. EventOf(p) \in Events /\ api[p].seen \in Snapshot
    BY <1>2 DEF UpdateWrite, Serving, ApiTypeOK, Handler
  <2>2. calls'[c] = Updated(api[p].seen, EventOf(p)) /\ calls'[c] # NoItem
    BY <1>0, <1>2, <2>1, RowTypes, CallStoreAssumption DEF UpdateWrite, Upsert
  <2>3. OwnWords(EventOf(p)) \subseteq mishaps'[c]
    BY <1>2 DEF UpdateWrite, Upsert, StoreTypeOK
  <2> QED BY <2>1, <2>2, <2>3, WritesUnderway DEF Underway, Exists, Disturbed
<1>3. ASSUME NEW p \in Workers, MarkWrite(p) \/ Requeue(p) \/ GiveUp(p), CallOf(p) = c
      PROVE  Underway(c)'
  <2>1. job[p].seen \in Snapshot /\ Base(job[p].seen) \in Item /\ job[p].pc \in {"mark_write", "fail_write"}
    BY <1>3, RowTypes DEF WorkTypeOK, Job, MarkWrite, Requeue, GiveUp
  <2>2. PICK item : Upsert(c, job[p].seen, item, {}) /\ item.status # "received" /\ item \in Item
    <3>1. CASE MarkWrite(p)
      BY <1>3, <2>1, <3>1, RowTypes, WritesUnderway DEF MarkWrite
    <3>2. CASE Requeue(p) \/ GiveUp(p)
      <4>1. job[p].got \in Item
        BY <3>2 DEF Custody, Requeue, GiveUp
      <4>2. RetryCount(job[p].got) \in Nat
        BY <4>1 DEF RetryCount, Item
      <4> QED BY <1>3, <2>1, <3>2, <4>2, RowTypes, WritesUnderway DEF Requeue, GiveUp
    <3> QED BY <1>3, <3>1, <3>2
  <2> QED BY <1>0, <2>2, CallStoreAssumption DEF Upsert, Underway, Exists
<1>4. CASE calls'[c] = calls[c]
  BY <1>0, <1>1, <1>2, <1>4, AnnouncedBy DEF Underway, Exists
<1>5. CASE calls'[c] # calls[c]
  <2>1. ASSUME NEW p \in Workers, WorkerActs(p)
        PROVE  (MarkWrite(p) \/ Requeue(p) \/ GiveUp(p)) /\ CallOf(p) = c
    BY <1>0, <1>5, <2>1 DEF WorkerActs, WorkerStep, Proceed, Receive, Load, StoreObject, SyncCrm,
       MarkRead, MarkWrite, SendReport, Ack, StepFails, AckLost, FailLoad, FailRead, Requeue, GiveUp,
       Drop, DropRaises, Crash, Restart, storeVars, Upsert
  <2>2. ASSUME NEW p \in Apis, ApiActs(p)
        PROVE  (Insert(p) \/ UpdateWrite(p)) /\ EventOf(p).call = c
    BY <1>0, <1>5, <2>2 DEF ApiActs, ApiStep, HandlerStep, HandlerProceeds, VapiEvent,
       CallCenterEvent, ResumeStart, CheckAbsent, Insert, UpdateRead, UpdateWrite, Send, SendLost,
       ApiFails, storeVars, Upsert
  <2>3. ASSUME NEW t \in Erasers, EraserActs(t) PROVE Disturbed(c)'
    BY <1>0, <1>5, <2>3 DEF EraserActs, EraserStep, EraseBegin, EraseObject, EraseRow, DeleteRow,
       EraseFails, storeVars, StoreTypeOK, Disturbed
  <2>4. ASSUME DialOut \/ \E i \in Slots : VisibilityTimeout(i) \/ DeadLetter(i) PROVE calls' = calls
    BY <2>4 DEF DialOut, Dial, VisibilityTimeout, DeadLetter, storeVars
  <2> QED BY <1>1, <1>2, <1>3, <1>5, <2>1, <2>2, <2>3, <2>4 DEF Next
<1> QED BY <1>4, <1>5

(* A call-centre call announced without its recording is nobody's job: no  *)
(* message tells a worker of it while its row says "received"              *)
(* (receive_event answers the later recording.ready as a duplicate).       *)
THEOREM ReceivedAlone == Spec => []ReceivedIsLeftAlone
<1>1. Init => AnnouncedInv
  BY DEF Init, StoreInit, QueueInit, ApiInit, IdleHandler, AnnouncedInv, Announced, SendPending,
     Serving, Carries
<1>2. TypeInv /\ AnnouncedInv /\ [Next]_vars => AnnouncedInv'
  <2> SUFFICES ASSUME TypeInv, AnnouncedInv, [Next]_vars PROVE AnnouncedInv'
    OBVIOUS
  <2>1. CASE UNCHANGED vars
    BY <2>1 DEF vars, storeVars, apiVars, AnnouncedInv, Announced, SendPending, Serving, EventOf,
       Carries, Underway, Exists, Disturbed
  <2> QED BY <2>1, AnnouncedStep
<1>3. AnnouncedInv => ReceivedIsLeftAlone
  BY DEF AnnouncedInv, Announced, Underway, Disturbed, ReceivedIsLeftAlone, HasStatus
<1>4. Spec => []TypeInv
  BY ReportInvariant, PTL
<1> QED BY <1>1, <1>2, <1>3, <1>4, PTL DEF Spec

==============================================================================
