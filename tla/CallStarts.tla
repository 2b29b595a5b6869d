----------------------------- MODULE CallStarts -----------------------------
(***************************************************************************)
(* The Custom LLM endpoint of llm_server.py, as far as it keeps state: the *)
(* durable marker that claims the first request of a call, each process's  *)
(* cache of calls already claimed, and the audits it writes in the         *)
(* background.  The handler awaits nothing once it has its request body,   *)
(* so a process serves one request at a time; two processes interleave     *)
(* between the SELECT and the upsert of a claim.  (An escalation_detected  *)
(* audit is scheduled and written like a turn_processed one and is left    *)
(* out.)                                                                   *)
(***************************************************************************)
EXTENDS Naturals, Sequences, SequencesExt, FiniteSets

CONSTANTS
    Procs,      \* API processes
    CallIds,    \* values of call.id
    NoCall,     \* no call: the process makes no claim
    CacheSize,  \* STARTED_CALL_CACHE_MAX_SIZE
    MaxTurns    \* bound: requests served in one behaviour

ASSUME CallStartsAssumption ==
    /\ CacheSize \in Nat \ {0}
    /\ MaxTurns \in Nat

VARIABLES
    marked,     \* calls with a custom_llm_started# row among the audit events
    turn,       \* the claim each process is making
    cache,      \* STARTED_CALL_CACHE of each process, oldest first
    tasks,      \* BACKGROUND_TASKS of each process: audits not yet written
    audits,     \* audits written
    starts,     \* history: the call_started audits scheduled, and by whom
    served,     \* history: the calls each process served since it started
    turns       \* requests so far

vars == <<marked, turn, cache, tasks, audits, starts, served, turns>>

Claim == [pc : {"idle", "check", "insert"}, call : CallIds \cup {NoCall}, turn : 0..MaxTurns]
Idle  == [pc |-> "idle", call |-> NoCall, turn |-> 0]
Audit == [kind : {"call_started", "turn_processed"}, call : CallIds, turn : 1..MaxTurns]
Start == [proc : Procs, call : CallIds, turn : 1..MaxTurns]

Init ==
    /\ marked = {}
    /\ turn   = [p \in Procs |-> Idle]
    /\ cache  = [p \in Procs |-> <<>>]
    /\ tasks  = [p \in Procs |-> {}]
    /\ audits = {}
    /\ starts = {}
    /\ served = [p \in Procs |-> <<>>]
    /\ turns  = 0

Claiming(p, pc) == turn[p].pc = pc
CallOf(p) == turn[p].call

(*------------------------------- the cache ------------------------------*)
Cached(p, c) == c \in Range(cache[p])

(* Mutant: a hit leaves the entry where it is.                             *)
RenewedOnce(q, c) == IF c \in Range(q) THEN q ELSE Append(q, c)

(* A hit moves the entry to the recent end; a new entry starts there.      *)
Renewed(q, c) ==
    IF c \in Range(q) THEN Append(RemoveAt(q, CHOOSE i \in DOMAIN q : q[i] = c), c)
                      ELSE Append(q, c)

(* Mutant: the entry that fills the cache does not evict the oldest one.   *)
EvictedLate(q) == IF Len(q) > CacheSize + 1 THEN Tail(q) ELSE q

Evicted(q) == IF Len(q) > CacheSize THEN Tail(q) ELSE q

(* Every served request leaves its call in the cache and one turn audit,   *)
(* and those in `kinds', to a background task.                             *)
Serve(p, c, n, kinds) ==
    /\ cache'  = [cache EXCEPT ![p] = Evicted(Renewed(@, c))]
    /\ served' = [served EXCEPT ![p] = Append(@, c)]
    /\ tasks'  = [tasks EXCEPT ![p] =
                    @ \cup [kind : kinds \cup {"turn_processed"}, call : {c}, turn : {n}]]

(*------------------------------ the handler -----------------------------*)
Request(p, c) ==
    /\ Claiming(p, "idle")
    /\ turns < MaxTurns
    /\ turns' = turns + 1
    /\ \/ /\ Cached(p, c)
          /\ Serve(p, c, turns', {})
          /\ UNCHANGED turn
       \/ /\ ~Cached(p, c)
          /\ turn' = [turn EXCEPT ![p] = [pc |-> "check", call |-> c, turn |-> turns']]
          /\ UNCHANGED <<cache, served, tasks>>
    /\ UNCHANGED <<marked, audits, starts>>

(* Mutant: the claim trusts the cache alone.                               *)
TakenNever(c) == FALSE

(* The SELECT of the conditional put_item.                                 *)
Taken(c) == c \in marked

CheckMarker(p) ==
    /\ Claiming(p, "check")
    /\ \/ /\ Taken(CallOf(p))
          /\ Serve(p, CallOf(p), turn[p].turn, {})
          /\ turn' = [turn EXCEPT ![p] = Idle]
       \/ /\ ~Taken(CallOf(p))
          /\ turn' = [turn EXCEPT ![p].pc = "insert"]
          /\ UNCHANGED <<cache, served, tasks>>
    /\ UNCHANGED <<marked, audits, starts, turns>>

(* The upsert that ends put_item, then the rest of the handler.            *)
InsertMarker(p) ==
    LET c == CallOf(p)  n == turn[p].turn
    IN  /\ Claiming(p, "insert")
        /\ marked' = marked \cup {c}
        /\ starts' = starts \cup {[proc |-> p, call |-> c, turn |-> n]}
        /\ Serve(p, c, n, {"call_started"})
        /\ turn' = [turn EXCEPT ![p] = Idle]
        /\ UNCHANGED <<audits, turns>>

(* Mutant: a failed claim is remembered as made.                           *)
CacheAfterFailureKept(p) == Evicted(Renewed(cache[p], CallOf(p)))

CacheAfterFailure(p) == cache[p]

(* A database error answers 500 before anything is cached or scheduled.    *)
(* The upsert may have been committed all the same.                        *)
ClaimFails(p) ==
    /\ turn[p].pc \in {"check", "insert"}
    /\ \/ UNCHANGED marked
       \/ /\ Claiming(p, "insert")
          /\ marked' = marked \cup {CallOf(p)}
    /\ turn'  = [turn EXCEPT ![p] = Idle]
    /\ cache' = [cache EXCEPT ![p] = CacheAfterFailure(p)]
    /\ UNCHANGED <<tasks, audits, starts, served, turns>>

(*---------------------------- background tasks --------------------------*)
(* Tasks run in threads, in any order, once the handler has returned.      *)
WriteAudit(p) ==
    \E a \in tasks[p] :
        /\ audits' = audits \cup {a}
        /\ tasks'  = [tasks EXCEPT ![p] = @ \ {a}]
        /\ UNCHANGED <<marked, turn, cache, starts, served, turns>>

(* _finish_background_task logs the failure and forgets the task.          *)
LoseAudit(p) ==
    \E a \in tasks[p] :
        /\ tasks' = [tasks EXCEPT ![p] = @ \ {a}]
        /\ UNCHANGED <<marked, turn, cache, audits, starts, served, turns>>

(* The process ends and is started again: nothing in memory survives.      *)
Restart(p) ==
    /\ turn'   = [turn EXCEPT ![p] = Idle]
    /\ cache'  = [cache EXCEPT ![p] = <<>>]
    /\ tasks'  = [tasks EXCEPT ![p] = {}]
    /\ served' = [served EXCEPT ![p] = <<>>]
    /\ UNCHANGED <<marked, audits, starts, turns>>

Next ==
    \E p \in Procs :
        \/ \E c \in CallIds : Request(p, c)
        \/ CheckMarker(p) \/ InsertMarker(p) \/ ClaimFails(p)
        \/ WriteAudit(p) \/ LoseAudit(p) \/ Restart(p)

Spec == Init /\ [][Next]_vars

(*------------------------------ properties ------------------------------*)

(* Every variable keeps its shape, and no cache outgrows its bound.         *)
TypeOK ==
    /\ marked \subseteq CallIds
    /\ turn   \in [Procs -> Claim]
    /\ cache  \in [Procs -> Seq(CallIds)] /\ \A p \in Procs : Len(cache[p]) <= CacheSize
    /\ tasks  \in [Procs -> SUBSET Audit]
    /\ audits \subseteq Audit
    /\ starts \subseteq Start
    /\ served \in [Procs -> Seq(CallIds)]
    /\ turns  \in 0..MaxTurns

(* No process announces the start of a call a second time, whatever its    *)
(* cache evicted, however often it was restarted and whatever the other    *)
(* processes claimed meanwhile: claim_call_start finds the durable marker. *)
OneStartPerProcess ==
    \A s, t \in starts : (s.proc = t.proc /\ s.call = t.call) => s = t

(* A call a process no longer asks the database about, and a call any      *)
(* audit tells of, has its durable marker: no failed claim is cached.      *)
KnownCallsAreMarked ==
    /\ \A p \in Procs : Range(cache[p]) \cup {a.call : a \in tasks[p]} \subseteq marked
    /\ \A a \in audits : a.call \in marked

(* The last time that a process with the history s served call c.          *)
LastServed(s, c) ==
    CHOOSE i \in DOMAIN s : s[i] = c /\ \A j \in DOMAIN s : s[j] = c => j <= i

Ordered(q, s) ==
    \A i, j \in DOMAIN q : i < j => LastServed(s, q[i]) < LastServed(s, q[j])

Newest(q, s) ==
    \A c \in Range(s) : \A i \in DOMAIN q :
        LastServed(s, c) > LastServed(s, q[i]) => c \in Range(q)

(* The cache is what an LRU cache should be: the CacheSize calls served    *)
(* last, in the order in which they were served last.                      *)
CacheIsLeastRecentlyUsed ==
    \A p \in Procs :
        /\ Cardinality(Range(cache[p])) = Min({Cardinality(Range(served[p])), CacheSize})
        /\ Ordered(cache[p], served[p])
        /\ Newest(cache[p], served[p])
==============================================================================
