------------------------------ MODULE InlineWork ------------------------------
(***************************************************************************)
(* QUEUE_MODE=inline: no queue and no worker.py.  A handler adds process   *)
(* as a background task of its response, the API process runs it on a      *)
(* thread of its pool, and whatever it raises ends it: nothing is retried  *)
(* or recorded.  The threads are `Workers' and a slot of `msgs' is a task, *)
(* "visible" until a thread takes it and "deleted" when it is over.        *)
(***************************************************************************)
EXTENDS CallPipeline

(* README.md: inline is the local mode, a single API process.              *)
ASSUME InlineAssumption == \A p, q \in Apis : p = q

VARIABLE interrupted    \* history: calls with a request or task that failed

inlineVars == <<vars, interrupted>>

Interrupt(cs) == interrupted' = interrupted \cup cs

(*--------------------------------- tasks --------------------------------*)
(* Any idle thread takes any task: two of one call may run at once.        *)
StartTask(p) ==
    /\ job[p].pc = "idle"
    /\ \E i \in Slots :
         /\ msgs[i].state = "visible"
         /\ msgs' = [msgs EXCEPT ![i].state = "inflight"]
         /\ job' = [job EXCEPT ![p] = [IdleJob EXCEPT !.pc = "load", !.slot = i]]
    /\ UNCHANGED <<storeVars, crm, mailed, outcomes, interrupted>>

TaskSteps(p) ==
    /\ \/ Load(p) \/ StoreObject(p) \/ SyncCrm(p)
       \/ MarkRead(p) \/ MarkWrite(p) \/ SendReport(p)
       \/ job[p].pc # "ack" /\ StepFails(p)
    /\ UNCHANGED interrupted

TaskReturns(p) ==
    /\ job[p].pc = "ack"
    /\ Delete(job[p].slot)
    /\ Finish(p)
    /\ UNCHANGED <<storeVars, crm, mailed, outcomes, interrupted>>

(* The exception of a failed step leaves process.                          *)
TaskRaises(p) ==
    /\ job[p].pc = "fail_load"
    /\ Delete(job[p].slot)
    /\ Finish(p)
    /\ Interrupt({CallOf(p)})
    /\ UNCHANGED <<storeVars, crm, mailed, outcomes>>

TaskActs(p) ==
    /\ StartTask(p) \/ TaskSteps(p) \/ TaskReturns(p) \/ TaskRaises(p)
    /\ UNCHANGED <<apiVars, erasure>>

(*------------------------------ the process -----------------------------*)
RequestFails(p) ==
    /\ ApiFails(p)
    /\ Interrupt({EventOf(p).call})
    /\ UNCHANGED <<workVars, erasure>>

InFlight(p) == IF Serving(p, "idle") THEN {} ELSE {EventOf(p).call}

(* Handlers, tasks, erasures and awaited answers end with their process.   *)
ProcessDies ==
    /\ msgs' = [i \in Slots |->
                  IF Live(i) THEN [msgs[i] EXCEPT !.state = "deleted"] ELSE msgs[i]]
    /\ job' = [p \in Workers |-> IdleJob]
    /\ api' = [p \in Apis |-> IdleHandler]
    /\ dials' = [c \in Calls |-> IF dials[c] = "placed" THEN "resumed" ELSE dials[c]]
    /\ erasure' = [t \in Erasers |-> IdleErasure]
    /\ Interrupt({msgs[i].event.call : i \in {j \in Slots : Live(j)}}
                   \cup UNION {InFlight(p) : p \in Apis})
    /\ UNCHANGED <<storeVars, crm, mailed, outcomes, requests>>

InlineInit == Init /\ interrupted = {}

InlineNext ==
    \/ \E p \in Workers : TaskActs(p)
    \/ \E p \in Apis : RequestFails(p)
    \/ /\ \/ \E p \in Apis : HandlerStep(p) /\ UNCHANGED <<workVars, erasure>>
          \/ DialOut
          \/ \E t \in Erasers : EraserActs(t)
       /\ UNCHANGED interrupted
    \/ ProcessDies

(* A handler does not wait for anybody once its request is there, and a    *)
(* thread runs its task to the end; every outside call has a timeout.      *)
InlineFairness ==
    /\ \A p \in Apis :
         WF_inlineVars(HandlerProceeds(p) /\ UNCHANGED <<workVars, erasure, interrupted>>)
    /\ \A p \in Workers : WF_inlineVars(TaskActs(p))

InlineSpec == InlineInit /\ [][InlineNext]_inlineVars /\ InlineFairness

(*------------------------------ properties ------------------------------*)

UnderWay(c) ==
    \/ \E p \in Apis : c \in InFlight(p)
    \/ \E i \in Slots : Live(i) /\ Carries(i, c)

(* Something failed or was erased, or a task found an event's "completed"   *)
(* and took the call for processed.                                        *)
Excused(c) == c \in interrupted \/ mishaps[c] \cap {"not sent", "erasing", "completed"} # {}

Recorded(c) == Exists(c) /\ calls[c].recorded

Analysed(c) == HasStatus(c, "completed") /\ c \in mailed

(* When nothing of a call is under way any more and nothing of it failed,  *)
(* a row with a recording is completed and mailed: neither two tasks at    *)
(* once nor an event that writes its row beside them leaves it behind.     *)
SettledCallsAreAnalysed ==
    \A c \in Calls :
        (Recorded(c) /\ ~UnderWay(c) /\ ~Excused(c)) => Analysed(c)

(* A task that was about to be added ends in an analysed call, unless      *)
(* something failed or a later event took the recording away.              *)
TasksLeadToAnalysis ==
    \A c \in Calls :
        SendPending(c) ~> Analysed(c) \/ Excused(c) \/ ~Recorded(c)
==============================================================================
