----------------------------- MODULE Organizations -----------------------------
(***************************************************************************)
(* The organizations table and its two writers: save_preflight of          *)
(* call_center_integration.py, an endpoint with a thread per request, and  *)
(* generate_prompt_guidance of learning.py, a job run from outside.  Both  *)
(* rewrite the whole record with update_item, which creates it as well.    *)
(***************************************************************************)
EXTENDS TenantPolicies

CONSTANTS
    Clients,            \* tenants whose organization somebody writes
    NoOrganization,     \* no record
    Writers,            \* threads and jobs that write organization records
    MaxWrites           \* bound: writes begun in one behaviour

(* `profile' is the number of the write that saved the integration         *)
(* profile, `guidance' the completed calls the prompt guidance summarises; *)
(* 0 and {} when the field is missing.                                     *)
Organization == [profile : 0..MaxWrites, guidance : SUBSET CallIds]

ASSUME OrganizationsAssumption ==
    /\ MaxWrites \in Nat
    /\ Clients \subseteq TenantIds
    /\ NoOrganization \notin Organization

VARIABLES
    orgs,       \* the record of each tenant
    writing,    \* what each writer is doing
    begun,      \* writes begun so far
    latest,     \* history: what was written last into each field
    overlapped  \* history: tenants two writers were busy with at once

orgVars == <<orgs, writing, begun, latest, overlapped>>

NewOrganization == [profile |-> 0, guidance |-> {}]

(* `set' is the field a writer assigns; it takes it from `new'.            *)
IdleWriter ==
    [pc |-> "idle", tenant |-> NoOrganization, set |-> "profile",
     new |-> NewOrganization, seen |-> NoOrganization]

Registered(t) == orgs[t] # NoOrganization

(* Mutant: update_item starts from an empty record.                        *)
OrganizationForgotten(seen) == NewOrganization

(* The record update_item applies its assignments to.                      *)
OrganizationBase(seen) == IF seen = NoOrganization THEN NewOrganization ELSE seen

(* What metrics shows its tenant as prompt_guidance.                       *)
PromptGuidance(t) == IF Registered(t) THEN orgs[t].guidance ELSE {}

Others(w, t) == \E v \in Writers \ {w} : writing[v].pc # "idle" /\ writing[v].tenant = t

BeginWrite(w, t, pc, seen, field, new) ==
    /\ writing[w].pc = "idle"
    /\ begun < MaxWrites
    /\ begun' = begun + 1
    /\ writing' = [writing EXCEPT ![w] =
                     [pc |-> pc, tenant |-> t, set |-> field, new |-> new, seen |-> seen]]
    /\ overlapped' = IF Others(w, t) THEN overlapped \cup {t} ELSE overlapped
    /\ UNCHANGED <<orgs, latest>>

(* update_item comes first: its read begins the write.                     *)
SavePreflight(w, t) ==
    BeginWrite(w, t, "write", orgs[t], "profile", [NewOrganization EXCEPT !.profile = begun + 1])

(* Mutant: the query names no tenant.                                      *)
CompletedOfAll(t) == {c \in CallIds : calls[c].status = "completed"}

(* summarize_tenant_performance keeps the completed calls of its query;    *)
(* update_item follows.                                                    *)
Completed(t) == {c \in CallIds : calls[c].tenant = t /\ calls[c].status = "completed"}

GenerateGuidance(w, t) ==
    BeginWrite(w, t, "read", NoOrganization, "guidance",
               [NewOrganization EXCEPT !.guidance = Completed(t)])

OrganizationRead(w) ==
    /\ writing[w].pc = "read"
    /\ writing' = [writing EXCEPT ![w].pc = "write", ![w].seen = orgs[writing[w].tenant]]
    /\ UNCHANGED <<orgs, begun, latest, overlapped>>

OrganizationWrite(w) ==
    LET t == writing[w].tenant
        f == writing[w].set
    IN  /\ writing[w].pc = "write"
        /\ orgs' = [orgs EXCEPT ![t] =
                      [OrganizationBase(writing[w].seen) EXCEPT ![f] = writing[w].new[f]]]
        /\ latest' = [latest EXCEPT ![t][f] = writing[w].new[f]]
        /\ writing' = [writing EXCEPT ![w] = IdleWriter]
        /\ UNCHANGED <<begun, overlapped>>

(* A database error, or the end of the process.                            *)
WriterFails(w) ==
    /\ writing[w].pc # "idle"
    /\ writing' = [writing EXCEPT ![w] = IdleWriter]
    /\ UNCHANGED <<orgs, begun, latest, overlapped>>

OrganizationsInit ==
    /\ orgs = [t \in TenantIds |-> NoOrganization]
    /\ writing = [w \in Writers |-> IdleWriter]
    /\ begun = 0
    /\ latest = [t \in TenantIds |-> NewOrganization]
    /\ overlapped = {}

(*------------------------------ properties ------------------------------*)

(* The record holds what was last written into each of its fields, by      *)
(* whichever writer: unless two writers were busy with the organization at *)
(* once, neither writes back an older value of the other's field.          *)
SavedFieldsStay ==
    \A t \in TenantIds \ overlapped :
        (IF Registered(t) THEN orgs[t] ELSE NewOrganization) = latest[t]

(* The guidance metrics shows never drops a call that stayed completed,    *)
(* with the same exception: only one that a later event, a failed attempt  *)
(* or an erasure took back.                                                *)
GuidanceOnlyGrows ==
    [][\A t \in TenantIds \ overlapped' :
         \A c \in PromptGuidance(t) \ PromptGuidance(t)' : past[c] = "undone"]_orgVars
==============================================================================
