------------------------------- MODULE Erasure -------------------------------
(***************************************************************************)
(* erase_call of dashboard.py: a synchronous endpoint, so it runs in a     *)
(* thread of its own beside everything else.  It reads the row once and    *)
(* decides from that row which objects to delete.                          *)
(***************************************************************************)
EXTENDS CallStore

CONSTANTS
    Erasers,    \* threads serving privacy requests
    LegalHolds  \* calls whose row carries legal_hold (no code here sets it)

ASSUME ErasureAssumption == LegalHolds \subseteq Calls

VARIABLE erasure    \* what each thread is doing

Erasing ==
    [pc : {"idle", "row"} \cup Kinds, call : Calls \cup {NoItem}]

IdleErasure == [pc |-> "idle", call |-> NoItem]

EraserGoto(t, pc) == erasure' = [erasure EXCEPT ![t].pc = pc]
EraserDone(t)     == erasure' = [erasure EXCEPT ![t] = IdleErasure]

(* An administrator of the row's tenant; a row without a tenant is nobody's*)
(* and answers 404.                                                        *)
MayErase(c) ==
    /\ Exists(c)
    /\ calls[c].tenant # NoTenant
    /\ c \notin LegalHolds

(* Only the objects the row names are deleted.                             *)
FirstErasure(item) == IF item.keys THEN "audio" ELSE "row"

NextErasure(kind) ==
    CASE kind = "audio" -> "transcript"
      [] kind = "transcript" -> "report"
      [] kind = "report" -> "row"

EraseBegin(t, c) ==
    /\ erasure[t].pc = "idle"
    /\ MayErase(c)
    /\ erasure' = [erasure EXCEPT ![t] = [pc |-> FirstErasure(calls[c]), call |-> c]]
    /\ mishaps' = [mishaps EXCEPT ![c] = @ \cup {"erasing"}]
    /\ UNCHANGED <<calls, objects>>

EraseObject(t) ==
    /\ erasure[t].pc \in Kinds
    /\ DeleteObject(erasure[t].call, erasure[t].pc)
    /\ EraserGoto(t, NextErasure(erasure[t].pc))
    /\ UNCHANGED <<calls, mishaps>>

EraseRow(t) ==
    /\ erasure[t].pc = "row"
    /\ DeleteRow(erasure[t].call)
    /\ mishaps' = [mishaps EXCEPT ![erasure[t].call] = @ \cup {"erased"}]
    /\ EraserDone(t)
    /\ UNCHANGED objects

(* The request fails half-way; nothing resumes it.                         *)
EraseFails(t) ==
    /\ erasure[t].pc # "idle"
    /\ EraserDone(t)
    /\ UNCHANGED storeVars

EraserStep(t) ==
    \/ \E c \in Calls : EraseBegin(t, c)
    \/ EraseObject(t) \/ EraseRow(t) \/ EraseFails(t)

ErasureInit == erasure = [t \in Erasers |-> IdleErasure]

ErasureTypeOK ==
    /\ erasure \in [Erasers -> Erasing]
    /\ \A t \in Erasers : erasure[t].pc # "idle" => erasure[t].call \in Calls
==============================================================================
