--------------------------- MODULE TenantPolicies ---------------------------
(***************************************************************************)
(* tenant_policy.py and its callers.  The policy file is read and          *)
(* validated as a whole on every look-up, so an edit takes effect between  *)
(* any two steps of a call: its start or first event                       *)
(* (outbound_agent.py), its turns (llm_server.py) and its analysis         *)
(* (worker.py).                                                            *)
(***************************************************************************)
EXTENDS Naturals, Sequences, SequencesExt

CONSTANTS
    TenantIds, Assistants, CallIds,
    FieldSets,      \* values of analysis_fields
    NoFields,       \* no analysis_fields
    NoTenant,       \* a call without a row
    Entries,        \* entries somebody may write into the file
    MaxEntries      \* bound: entries of the file

(* How validate_registry's checks of one entry end.  Missing fields of     *)
(* validate_tenant_compliance raise an HTTPException, everything before    *)
(* and after that call (number, approvals, vapi_assistant_id,              *)
(* analysis_fields) a ValueError.                                          *)
Verdicts == {"ok", "ValueError", "HTTPException"}

Entry == [tenant : TenantIds, assistant : Assistants,
          fields : FieldSets \cup {NoFields}, verdict : Verdicts]

ASSUME PoliciesAssumption ==
    /\ Entries \subseteq Entry
    /\ NoFields \notin FieldSets
    /\ NoTenant \notin TenantIds
    /\ MaxEntries \in Nat

(* Every status but "completed" is open here: "queued" and "failed", what  *)
(* a start or an event wrote, and what an event may still write.           *)
Row ==
    [status   : {"absent", "open", "completed"},
     provider : {"none", "vapi", "call_center"},
     tenant   : TenantIds \cup {NoTenant},
     analysed : BOOLEAN,        \* the row has an analysis
     fields   : FieldSets \cup {NoFields}]

NoRow ==
    [status |-> "absent", provider |-> "none", tenant |-> NoTenant,
     analysed |-> FALSE, fields |-> NoFields]

(* A worker's attempt at a call, and the custom fields it asked for.       *)
Attempt ==
    [pc : {"idle", "loaded", "analysed", "reporting"}, fields : FieldSets \cup {NoFields}]

NoAttempt == [pc |-> "idle", fields |-> NoFields]

VARIABLES
    entries,    \* the tenants of the file in its order; none in an unreadable one
    issuer,     \* the tenant whose provider issued each call id; never changes
    calls,      \* the row of each call
    work,       \* the attempt at each call; message groups allow one
    chats,      \* the tenants each call's turns were answered for
    inForce,    \* history: <<tenant, fields>> of approved files
    excused,    \* history: calls whose tenant was without fields meanwhile
    past        \* history: whether each call was completed, and whether undone

vars == <<entries, issuer, calls, work, chats, inForce, excused, past>>

(*----------------------------- the look-ups -----------------------------*)
(* Mutant: only the first entry is validated.                              *)
ValidateFirst == IF entries = <<>> THEN "ValueError" ELSE Head(entries).verdict

(* policy_registry and validate_registry: the whole file, in its order, so *)
(* the first entry that fails decides the exception.  A file that cannot   *)
(* be read or parsed and one without tenants end alike.                    *)
Validate ==
    LET bad == SelectInSeq(entries, LAMBDA e : e.verdict # "ok")
    IN  IF entries = <<>> THEN "ValueError"
        ELSE IF bad = 0 THEN "ok" ELSE entries[bad].verdict

(* Mutant: the first entry of the file counts as none.                     *)
ByIdButFirst(t) ==
    LET i == SelectInSeq(entries, LAMBDA e : e.tenant = t) IN  IF i = 1 THEN 0 ELSE i

(* Positions in the file; 0 when there is none.                            *)
ById(t)        == SelectInSeq(entries, LAMBDA e : e.tenant = t)
ByAssistant(a) == SelectInSeq(entries, LAMBDA e : e.assistant = a)

(* tenant_by_id answers None for a ValueError and lets an HTTPException    *)
(* pass; tenant_by_vapi_assistant_id raises for both.                      *)
Found(i) == Validate = "ok" /\ i # 0

(* Mutant: the analysis asks for the fields of the file's first tenant.    *)
FieldsOfFirst(t) == IF Found(1) THEN entries[1].fields ELSE NoFields

(* `(tenant_by_id(tenant_id) or {}).get("analysis_fields", [])'            *)
FieldsOf(t) == IF Found(ById(t)) THEN entries[ById(t)].fields ELSE NoFields

(*------------------------------- the file -------------------------------*)
(* What a file grants, for the histories: an approved file has every entry *)
(* in order.                                                               *)
Given(es) ==
    IF \A i \in DOMAIN es : es[i].verdict = "ok"
    THEN {<<es[i].tenant, es[i].fields>> : i \in DOMAIN es} ELSE {}

Lapses(t, es) ==
    LET own == {g \in Given(es) : g[1] = t}
    IN  own = {} \/ <<t, NoFields>> \in own

Files == UNION {[1..n -> Entries] : n \in 0..MaxEntries}

(* Someone replaces the file, spoils it or mends it.                       *)
Edit(es) ==
    /\ entries' = es
    /\ inForce' = inForce \cup Given(es)
    /\ excused' = excused \cup {c \in CallIds : past[c] # "new" /\ Lapses(issuer[c], es)}
    /\ UNCHANGED <<issuer, calls, work, chats, past>>

(*------------------------------- the calls ------------------------------*)
(* A row counts as completed while its tenant can find it so.              *)
PastOf(before, row) ==
    LET done == row.status = "completed" /\ row.tenant # NoTenant
    IN  IF before \in {"completed", "undone"}
        THEN IF done THEN before ELSE "undone"
        ELSE IF done THEN "completed" ELSE "open"

SetRow(c, row) ==
    /\ calls' = [calls EXCEPT ![c] = row]
    /\ past' = [past EXCEPT ![c] = PastOf(@, row)]
    /\ UNCHANGED <<entries, issuer, chats, inForce>>

SetWork(c, pc, fields) == work' = [work EXCEPT ![c] = [pc |-> pc, fields |-> fields]]

Enter(c, t, provider, status) ==
    /\ calls[c].status = "absent"
    /\ t = issuer[c]
    /\ SetRow(c, [NoRow EXCEPT !.status = status, !.tenant = t, !.provider = provider])
    /\ excused' = IF Lapses(t, entries) THEN excused \cup {c} ELSE excused
    /\ UNCHANGED work

(* start_vapi_call, and the first event of a call without a row, which may *)
(* say that it is completed.                                               *)
Accept(c, t, status) ==
    /\ Found(ById(t))
    /\ Enter(c, t, "vapi", status)

(* A later event looks up nothing; its status is written whatever the row  *)
(* says.                                                                   *)
LaterEvent(c, status) ==
    /\ calls[c].provider = "vapi"
    /\ SetRow(c, [calls[c] EXCEPT !.status = status])
    /\ UNCHANGED <<work, excused>>

(* erase_call.  An attempt at the call goes on.                            *)
Erase(c) ==
    /\ calls[c].status # "absent"
    /\ SetRow(c, NoRow)
    /\ UNCHANGED <<work, excused>>

(* A turn of the Custom LLM endpoint.                                      *)
Chat(c, a) ==
    /\ Found(ByAssistant(a))
    /\ chats' = [chats EXCEPT ![c] = @ \cup {entries[ByAssistant(a)].tenant}]
    /\ UNCHANGED <<entries, issuer, calls, work, inForce, excused, past>>

(*------------------------------ the attempts ----------------------------*)
(* process reads the row; without a tenant, or completed, it goes no       *)
(* further.                                                                *)
Load(c) ==
    /\ work[c].pc = "idle"
    /\ calls[c].status = "open" /\ calls[c].tenant # NoTenant
    /\ SetWork(c, "loaded", NoFields)
    /\ UNCHANGED <<entries, issuer, calls, chats, inForce, excused, past>>

(* It asks for the custom fields of the call's tenant.                     *)
Analyse(c) ==
    /\ work[c].pc = "loaded"
    /\ Validate # "HTTPException"
    /\ SetWork(c, "analysed", FieldsOf(issuer[c]))
    /\ UNCHANGED <<entries, issuer, calls, chats, inForce, excused, past>>

(* The update that completes the row; one erased meanwhile comes back      *)
(* without its tenant.                                                     *)
Complete(c) ==
    /\ work[c].pc = "analysed"
    /\ SetRow(c, [calls[c] EXCEPT !.status = "completed", !.analysed = TRUE,
                                  !.fields = work[c].fields])
    /\ SetWork(c, "reporting", NoFields)
    /\ UNCHANGED excused

(* The report is mailed, or the process dies.                              *)
AttemptEnds(c) ==
    /\ work[c].pc # "idle"
    /\ SetWork(c, "idle", NoFields)
    /\ UNCHANGED <<entries, issuer, calls, chats, inForce, excused, past>>

(* The attempt fails, for the HTTPException of any tenant's entry, for its *)
(* mail or for another reason: handle_processing_failure writes "queued"   *)
(* or "failed", also over "completed".                                     *)
AttemptFails(c) ==
    /\ work[c].pc # "idle"
    /\ calls[c].status # "absent"
    /\ SetRow(c, [calls[c] EXCEPT !.status = "open"])
    /\ SetWork(c, "idle", NoFields)
    /\ UNCHANGED excused

Init ==
    /\ entries = <<>>
    /\ issuer \in [CallIds -> TenantIds]
    /\ calls = [c \in CallIds |-> NoRow]
    /\ work = [c \in CallIds |-> NoAttempt]
    /\ chats = [c \in CallIds |-> {}]
    /\ inForce = {}
    /\ excused = {}
    /\ past = [c \in CallIds |-> "new"]

Next ==
    \/ \E es \in Files : Edit(es)
    \/ \E c \in CallIds :
         \/ \E status \in {"open", "completed"} :
              (\E t \in TenantIds : Accept(c, t, status)) \/ LaterEvent(c, status)
         \/ \E a \in Assistants : Chat(c, a)
         \/ Erase(c) \/ Load(c) \/ Analyse(c) \/ Complete(c) \/ AttemptEnds(c)
         \/ AttemptFails(c)

Spec == Init /\ [][Next]_vars

(*------------------------------ properties ------------------------------*)

(* The custom fields an attempt holds, and those of the analysis a row     *)
(* keeps through later events, failures and erasures, are ones that an     *)
(* approved file gave the call's own tenant, not another's.                *)
FieldsWereInForce ==
    \A c \in CallIds :
        \A f \in {work[c].fields, calls[c].fields} \ {NoFields} : <<issuer[c], f>> \in inForce

(* An analysis is stored without custom fields only if, at some time since *)
(* the call was first accepted, its tenant had none or some entry was not  *)
(* in order: a mended file is seen by the very next attempt.               *)
LostFieldsHadACause ==
    \A c \in CallIds :
        (calls[c].analysed /\ calls[c].fields = NoFields) => c \in excused
==============================================================================
