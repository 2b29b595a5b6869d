------------------------------ MODULE Webhooks ------------------------------
(***************************************************************************)
(* The API processes that write call rows: receive_vapi_call_event and     *)
(* start_vapi_call of outbound_agent.py, receive_event of                  *)
(* call_center_integration.py.  A handler awaits only its request body     *)
(* (and, for an outbound start, Vapi's answer); after that it runs to its  *)
(* end without yielding its process, so a process has one handler in its   *)
(* synchronous part at a time, and two processes interleave between any    *)
(* two database transactions.                                              *)
(***************************************************************************)
EXTENDS ProcessingQueue

CONSTANTS
    Apis,           \* API processes
    MaxRequests     \* bound: requests handled in one behaviour

(* A request body, or the trigger of an outbound start.  Providers may     *)
(* deliver an event any number of times, late and in any order.            *)
Event ==
    [id        : Nat,
     source    : {"vapi", "call_center", "start"},
     call      : Calls,
     tenant    : Tenants,
     direction : {"inbound", "outbound"},
     status    : EventStatuses,
     recorded  : BOOLEAN]

ASSUME WebhooksAssumption ==
    /\ Events \subseteq Event
    /\ \A e \in Events : e.tenant = TenantOf[e.call]
    /\ MaxRequests \in Nat

VARIABLES
    api,        \* the handler each API process is in
    dials,      \* how far the outbound start of each call is
    requests    \* requests handled so far

apiVars == <<api, dials, requests>>

ApiSteps == {"check", "insert", "update_read", "update_write", "send"}

Handler ==
    [pc    : {"idle"} \cup ApiSteps,
     event : Events \cup {NoEvent},
     seen  : Snapshot]      \* the row update_item is about to rewrite

DialStates == {"none", "placed", "resumed", "answered"}

IdleHandler == [pc |-> "idle", event |-> NoEvent, seen |-> NoItem]

Serving(p, pc) == api[p].pc = pc
EventOf(p)  == api[p].event
ApiGoto(p, pc) == api' = [api EXCEPT ![p].pc = pc, ![p].seen = NoItem]
Respond(p)     == api' = [api EXCEPT ![p] = IdleHandler]
Begin(p, e, pc) ==
    api' = [api EXCEPT ![p] = [pc |-> pc, event |-> e, seen |-> NoItem]]

(*--------------------------- the rows written ---------------------------*)
NewItem(e) ==
    [EmptyItem EXCEPT
       !.tenant    = e.tenant,
       !.provider  = IF e.source = "call_center" THEN "call_center" ELSE "vapi",
       !.direction = IF e.source = "call_center" THEN "none" ELSE e.direction,
       !.recorded  = e.source # "start" /\ e.recorded,
       !.status    = CASE e.source = "start" -> "outbound_started"
                       [] e.source = "call_center" ->
                            IF e.recorded THEN "queued" ELSE "received"
                       [] e.source = "vapi" -> e.status]

(* Mutant: an event resets what the worker wrote.                          *)
UpdatedWithoutKeys(seen, e) ==
    [Base(seen) EXCEPT !.status = e.status, !.recorded = e.recorded, !.keys = FALSE]

Updated(seen, e) == [Base(seen) EXCEPT !.status = e.status, !.recorded = e.recorded]

(* The status field is shared: a Vapi event may write what the program     *)
(* reads as a decision of its own.                                         *)
OwnWords(e) == {e.status} \cap OwnStatuses

(* A Vapi event must match the row it finds.                               *)
Admits(item, e) ==
    item # NoItem => item.tenant = e.tenant /\ item.direction = e.direction

(* What follows the conditional put_item, whether it inserted the row or   *)
(* raised ConditionalWriteError.                                           *)
AfterInsert(e) ==
    CASE e.source = "vapi" -> "update_read"
      [] e.source = "call_center" -> IF e.recorded THEN "send" ELSE "idle"
      [] e.source = "start" -> "idle"

(* Mutant: the recording of a call already known is queued.                *)
AfterConflictSends(e) ==
    CASE e.source = "vapi" -> "update_read"
      [] e.source = "call_center" -> IF e.recorded THEN "send" ELSE "idle"
      [] e.source = "start" -> "idle"

AfterConflict(e) == IF e.source = "vapi" THEN "update_read" ELSE "idle"

Continue(p, pc) == IF pc = "idle" THEN Respond(p) ELSE ApiGoto(p, pc)

(* start_vapi_call returns after its conditional put.                      *)
Answered(p) ==
    dials' = IF EventOf(p).source = "start"
             THEN [dials EXCEPT ![EventOf(p).call] = "answered"]
             ELSE dials

(*------------------------------- requests -------------------------------*)
(* Events of a call the system dials itself start once Vapi has placed it. *)
Arrives(p) ==
    /\ Serving(p, "idle")
    /\ requests < MaxRequests
    /\ requests' = requests + 1

VapiEvent(p, e) ==
    /\ e.source = "vapi"
    /\ Arrives(p)
    /\ e.direction = "outbound" => dials[e.call] # "none"
    /\ Admits(calls[e.call], e)
    /\ Begin(p, e, IF Exists(e.call) THEN "update_read" ELSE "check")
    /\ UNCHANGED <<storeVars, msgs, dials>>

CallCenterEvent(p, e) ==
    /\ e.source = "call_center"
    /\ Arrives(p)
    /\ Begin(p, e, "check")
    /\ UNCHANGED <<storeVars, msgs, dials>>

(* The POST to Vapi places the call; its answer is awaited.                *)
Dial(e) ==
    /\ e.source = "start"
    /\ requests < MaxRequests
    /\ dials[e.call] = "none"
    /\ dials' = [dials EXCEPT ![e.call] = "placed"]
    /\ requests' = requests + 1
    /\ UNCHANGED <<storeVars, msgs, api>>

ResumeStart(p, e) ==
    /\ e.source = "start"
    /\ dials[e.call] = "placed"
    /\ Serving(p, "idle")
    /\ dials' = [dials EXCEPT ![e.call] = "resumed"]
    /\ Begin(p, e, "check")
    /\ UNCHANGED <<storeVars, msgs, requests>>

(*--------------------------- database accesses --------------------------*)
(* The SELECT of a conditional put_item.  It does not lock the missing     *)
(* row, so the upsert that follows is unconditional in effect.             *)
CheckAbsent(p) ==
    /\ Serving(p, "check")
    /\ \/ /\ ~Exists(EventOf(p).call)
          /\ ApiGoto(p, "insert")
          /\ UNCHANGED dials
       \/ /\ Exists(EventOf(p).call)
          /\ Continue(p, AfterConflict(EventOf(p)))
          /\ Answered(p)
    /\ UNCHANGED <<storeVars, msgs, requests>>

Insert(p) ==
    /\ Serving(p, "insert")
    /\ Upsert(EventOf(p).call, NoItem, NewItem(EventOf(p)),
              IF EventOf(p).source = "vapi" THEN OwnWords(EventOf(p)) ELSE {})
    /\ Continue(p, AfterInsert(EventOf(p)))
    /\ Answered(p)
    /\ UNCHANGED <<objects, msgs, requests>>

UpdateRead(p) ==
    /\ Serving(p, "update_read")
    /\ api' = [api EXCEPT ![p].pc = "update_write", ![p].seen = calls[EventOf(p).call]]
    /\ UNCHANGED <<storeVars, msgs, dials, requests>>

UpdateWrite(p) ==
    /\ Serving(p, "update_write")
    /\ Upsert(EventOf(p).call, api[p].seen, Updated(api[p].seen, EventOf(p)),
              OwnWords(EventOf(p)))
    /\ Continue(p, IF EventOf(p).recorded THEN "send" ELSE "idle")
    /\ UNCHANGED <<objects, msgs, dials, requests>>

(*--------------------------------- queue --------------------------------*)
Send(p) ==
    /\ Serving(p, "send")
    /\ Accept(EventOf(p))
    /\ Respond(p)
    /\ UNCHANGED <<storeVars, dials, requests>>

(* send_message raises, the process dies first, or the queue discards the  *)
(* message because it saw the event id within its deduplication window.    *)
SendLost(p) ==
    /\ Serving(p, "send")
    /\ mishaps' = [mishaps EXCEPT ![EventOf(p).call] = @ \cup {"not sent"}]
    /\ Respond(p)
    /\ UNCHANGED <<calls, objects, msgs, dials, requests>>

(* A database error or the end of the process before a handler's send.     *)
ApiFails(p) ==
    /\ api[p].pc \in ApiSteps \ {"send"}
    /\ Respond(p)
    /\ UNCHANGED <<storeVars, msgs, dials, requests>>

(* What a handler does of its own accord once its request is there.        *)
HandlerProceeds(p) ==
    CheckAbsent(p) \/ Insert(p) \/ UpdateRead(p) \/ UpdateWrite(p) \/ Send(p)

HandlerStep(p) ==
    \/ \E e \in Events : VapiEvent(p, e) \/ CallCenterEvent(p, e) \/ ResumeStart(p, e)
    \/ HandlerProceeds(p)
    \/ SendLost(p)

ApiStep(p) == HandlerStep(p) \/ ApiFails(p)

ApiInit ==
    /\ api      = [p \in Apis |-> IdleHandler]
    /\ dials    = [c \in Calls |-> "none"]
    /\ requests = 0

ApiTypeOK ==
    /\ api      \in [Apis -> Handler]
    /\ dials    \in [Calls -> DialStates]
    /\ requests \in 0..MaxRequests
    /\ \A p \in Apis : api[p].pc # "idle" => EventOf(p) \in Events
==============================================================================
