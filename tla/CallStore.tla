------------------------------ MODULE CallStore ------------------------------
(***************************************************************************)
(* The calls table of database.py and the call artefacts in object         *)
(* storage, as the worker, the webhook handlers and the privacy endpoint   *)
(* share them.  Every transaction of database.py is one atomic access to   *)
(* `calls'; update_item and a conditional put_item are two accesses each,  *)
(* so their callers keep the row they read (a snapshot) between the two.   *)
(***************************************************************************)
EXTENDS Naturals, FiniteSets

CONSTANTS
    Calls,          \* call_sid values
    Tenants,        \* tenant ids of the tenant policies
    TenantOf,       \* the tenant whose provider issued each call id
    EventStatuses,  \* the statuses Vapi's events carry: any text, also one of ours
    NoTenant,       \* a row without a tenant_id
    NoItem          \* no row

OwnStatuses == {"none", "outbound_started", "received", "queued", "completed", "failed"}
Statuses    == OwnStatuses \cup EventStatuses
Kinds       == {"audio", "transcript", "report"}
Providers   == {"none", "vapi", "call_center"}
Directions  == {"none", "inbound", "outbound"}

(* What the properties tell apart in a row: `recorded' is a non-empty      *)
(* recording_url, `keys' the three object keys and the analysis (written   *)
(* by one update), `retry' the retry_count.                                *)
Item ==
    [tenant    : Tenants \cup {NoTenant},
     provider  : Providers,
     direction : Directions,
     status    : Statuses,
     recorded  : BOOLEAN,
     retry     : Nat,
     keys      : BOOLEAN]

Snapshot == Item \cup {NoItem}

(* What happened to a call that excuses a later surprise; a history        *)
(* variable, read by properties only.  A status of the program's own is    *)
(* noted when an event of Vapi's wrote it.                                 *)
Mishaps ==
    {"stale write", "erasing", "erased", "not sent", "ack lost", "overlap"} \cup OwnStatuses

ASSUME CallStoreAssumption ==
    /\ TenantOf \in [Calls -> Tenants]
    /\ NoTenant \notin Tenants
    /\ NoItem \notin Item

VARIABLES
    calls,      \* the row of each call
    objects,    \* the artefacts of each call in the bucket
    mishaps     \* history: what befell each call

storeVars == <<calls, objects, mishaps>>

(* A row built from nothing but its key, as update_item starts it when the *)
(* call has no row.                                                        *)
EmptyItem ==
    [tenant |-> NoTenant, provider |-> "none", direction |-> "none",
     status |-> "none", recorded |-> FALSE, retry |-> 0, keys |-> FALSE]

(* Mutant: update_item does not start from the row it read.                *)
BaseForgotten(seen) == EmptyItem

(* The row update_item applies its assignments to.                         *)
Base(seen) == IF seen = NoItem THEN EmptyItem ELSE seen

Exists(c) == calls[c] # NoItem

HasStatus(c, s) == Exists(c) /\ calls[c].status = s

(* The upsert that ends put_item: the whole row replaces whatever is there *)
(* now, whether or not that is what the caller read.  `said' is noted.     *)
Upsert(c, seen, item, said) ==
    /\ calls' = [calls EXCEPT ![c] = item]
    /\ mishaps' = [mishaps EXCEPT ![c] = @ \cup said \cup
                      (IF calls[c] = seen THEN {} ELSE {"stale write"})]

(* delete_item: the row goes, whoever wrote it last.                       *)
DeleteRow(c) == calls' = [calls EXCEPT ![c] = NoItem]

(* put_object and delete_object: idempotent, last write wins.              *)
PutObject(c, kind)    == objects' = [objects EXCEPT ![c] = @ \cup {kind}]
DeleteObject(c, kind) == objects' = [objects EXCEPT ![c] = @ \ {kind}]

StoreInit ==
    /\ calls   = [c \in Calls |-> NoItem]
    /\ objects = [c \in Calls |-> {}]
    /\ mishaps = [c \in Calls |-> {}]

StoreTypeOK ==
    /\ calls   \in [Calls -> Snapshot]
    /\ objects \in [Calls -> SUBSET Kinds]
    /\ mishaps \in [Calls -> SUBSET Mishaps]
==============================================================================
