-------------------------- MODULE CallStartsProofs --------------------------
(***************************************************************************)
(* Proofs for any number of processes and calls and any cache size: no     *)
(* process announces the start of a call twice, an argument that never     *)
(* mentions the cache, since the durable marker carries it alone; no call  *)
(* is cached or audited without its marker; and the cache holds the calls  *)
(* served last, in the order in which they were served last.               *)
(***************************************************************************)
EXTENDS CallStarts, SequenceTheorems, FiniteSetTheorems, TLAPS

TurnOK == turn \in [Procs -> Claim] /\ turns \in Nat

(* Whoever announced a call left its marker, markers are never removed,    *)
(* and a process that found no marker has not announced the call.          *)
StartInv ==
    /\ TurnOK
    /\ \A s \in starts : s.call \in marked
    /\ \A p \in Procs, s \in starts :
         (Claiming(p, "insert") /\ s.proc = p) => s.call # CallOf(p)
    /\ OneStartPerProcess

(* StartInv holds at the start and through every step.                     *)
THEOREM StartInvariant == Spec => []StartInv
<1>1. Init => StartInv
  BY CallStartsAssumption DEF Init, StartInv, TurnOK, Claim, Idle, Claiming, OneStartPerProcess
<1>2. StartInv /\ [Next]_vars => StartInv'
  <2> SUFFICES ASSUME StartInv, [Next]_vars
               PROVE  StartInv'
    OBVIOUS
  <2> USE CallStartsAssumption DEF Claim, Idle, Claiming, CallOf
  <2>1. ASSUME NEW p \in Procs, NEW c \in CallIds, Request(p, c)
        PROVE  StartInv'
    <3>1. UNCHANGED <<marked, starts>> /\ turns' = turns + 1 /\ turns' \in 1..MaxTurns
      BY <2>1, CallStartsAssumption DEF Request, StartInv, TurnOK
    <3>2. \/ UNCHANGED turn
          \/ turn' = [turn EXCEPT ![p] = [pc |-> "check", call |-> c, turn |-> turns']]
      BY <2>1 DEF Request
    <3> QED
      BY <3>1, <3>2 DEF StartInv, TurnOK, OneStartPerProcess
  <2>2. ASSUME NEW p \in Procs, CheckMarker(p)
        PROVE  StartInv'
    <3>1. turn[p] \in Claim
      BY <2>2 DEF CheckMarker, StartInv, TurnOK
    <3>2. UNCHANGED <<marked, starts, turns>>
      BY <2>2 DEF CheckMarker
    <3>3. CASE turn' = [turn EXCEPT ![p] = Idle]
      BY <3>2, <3>3 DEF StartInv, TurnOK, OneStartPerProcess
    <3>4. CASE ~Taken(CallOf(p)) /\ turn' = [turn EXCEPT ![p].pc = "insert"]
      BY <3>1, <3>2, <3>4 DEF StartInv, TurnOK, OneStartPerProcess, Taken
    <3> QED
      BY <2>2, <3>3, <3>4 DEF CheckMarker
  <2>3. ASSUME NEW p \in Procs, InsertMarker(p)
        PROVE  StartInv'
    <3> DEFINE new == [proc |-> p, call |-> CallOf(p), turn |-> turn[p].turn]
    <3>1. /\ Claiming(p, "insert")
          /\ marked' = marked \cup {CallOf(p)}
          /\ starts' = starts \cup {new}
          /\ turn' = [turn EXCEPT ![p] = Idle]
          /\ UNCHANGED turns
      BY <2>3 DEF InsertMarker
    <3>2. TurnOK'
      BY <3>1 DEF StartInv, TurnOK
    <3>3. \A s \in starts' : s.call \in marked'
      BY <3>1 DEF StartInv
    <3>4. \A q \in Procs, s \in starts' :
            (Claiming(q, "insert")' /\ s.proc = q) => s.call # CallOf(q)'
      BY <3>1 DEF StartInv, TurnOK
    <3>5. OneStartPerProcess'
      BY <3>1 DEF StartInv, OneStartPerProcess
    <3> QED
      BY <3>2, <3>3, <3>4, <3>5 DEF StartInv
  <2>4. ASSUME NEW p \in Procs, ClaimFails(p)
        PROVE  StartInv'
    <3>1. /\ marked \subseteq marked'
          /\ turn' = [turn EXCEPT ![p] = Idle]
          /\ UNCHANGED <<starts, turns>>
      BY <2>4 DEF ClaimFails
    <3> QED
      BY <3>1 DEF StartInv, TurnOK, OneStartPerProcess
  <2>5. ASSUME NEW p \in Procs, WriteAudit(p) \/ LoseAudit(p) \/ UNCHANGED vars
        PROVE  StartInv'
    <3>1. UNCHANGED <<marked, turn, starts, turns>>
      BY <2>5 DEF WriteAudit, LoseAudit, vars
    <3> QED
      BY <3>1 DEF StartInv, TurnOK, OneStartPerProcess
  <2>6. ASSUME NEW p \in Procs, Restart(p)
        PROVE  StartInv'
    <3>1. turn' = [turn EXCEPT ![p] = Idle] /\ UNCHANGED <<marked, starts, turns>>
      BY <2>6 DEF Restart
    <3> QED
      BY <3>1 DEF StartInv, TurnOK, OneStartPerProcess
  <2>7. CASE UNCHANGED vars
    BY <2>7 DEF StartInv, TurnOK, OneStartPerProcess, vars
  <2> QED
    BY <2>1, <2>2, <2>3, <2>4, <2>5, <2>6, <2>7 DEF Next
<1> QED
  BY <1>1, <1>2, PTL DEF Spec

(* No process announces the start of a call a second time, whatever its    *)
(* cache evicted and however often it was restarted.                       *)
THEOREM StartsOncePerProcess == Spec => []OneStartPerProcess
<1>1. StartInv => OneStartPerProcess
  BY DEF StartInv
<1> QED
  BY StartInvariant, <1>1, PTL

(*------------------------- what the cache does --------------------------*)

CacheIn(q, S) == q \in Seq(S) /\ Len(q) <= CacheSize

(* RemoveAt takes one entry out and keeps the others in their order.       *)
LEMMA RemoveAtEntries ==
  ASSUME NEW S, NEW q \in Seq(S), NEW k \in 1..Len(q)
  PROVE  /\ RemoveAt(q, k) \in Seq(S)
         /\ Len(RemoveAt(q, k)) = Len(q) - 1
         /\ \A i \in 1..(Len(q) - 1) : RemoveAt(q, k)[i] = IF i < k THEN q[i] ELSE q[i + 1]
<1> DEFINE a == SubSeq(q, 1, k - 1)
           b == SubSeq(q, k + 1, Len(q))
<1>1. Len(q) \in Nat /\ \A i \in 1..Len(q) : q[i] \in S
  BY LenProperties, ElementOfSeq
<1>2. k - 1 \in Int /\ k + 1 \in Int /\ \A i \in 1..(k - 1) : q[i] \in S
  BY <1>1
<1>3. a \in Seq(S) /\ Len(a) = k - 1 /\ \A i \in 1..(k - 1) : a[i] = q[i]
  <2>1. /\ a \in Seq(S)
        /\ Len(a) = IF 1 <= k - 1 THEN (k - 1) - 1 + 1 ELSE 0
        /\ \A i \in 1..((k - 1) - 1 + 1) : a[i] = q[1 + i - 1]
    BY <1>2, SubSeqProperties
  <2> QED
    BY <2>1, <1>1
<1>4. /\ b \in Seq(S) /\ Len(b) = Len(q) - k
      /\ \A i \in 1..(Len(q) - k) : b[i] = q[k + i]
  <2>1. \A i \in (k + 1)..Len(q) : q[i] \in S
    BY <1>1
  <2>2. /\ b \in Seq(S)
        /\ Len(b) = IF k + 1 <= Len(q) THEN Len(q) - (k + 1) + 1 ELSE 0
        /\ \A i \in 1..(Len(q) - (k + 1) + 1) : b[i] = q[(k + 1) + i - 1]
    BY <1>1, <1>2, <2>1, SubSeqProperties
  <2> QED
    BY <2>2, <1>1
<1> HIDE DEF a, b
<1>5. /\ a \o b \in Seq(S)
      /\ Len(a \o b) = Len(q) - 1
      /\ \A i \in 1..(Len(q) - 1) : (a \o b)[i] = IF i <= k - 1 THEN a[i] ELSE b[i - (k - 1)]
  <2>1. /\ a \o b \in Seq(S)
        /\ Len(a \o b) = Len(a) + Len(b)
        /\ \A i \in 1..(Len(a) + Len(b)) :
             (a \o b)[i] = IF i <= Len(a) THEN a[i] ELSE b[i - Len(a)]
    BY <1>3, <1>4, ConcatProperties
  <2>2. Len(a) + Len(b) = Len(q) - 1
    BY <1>1, <1>3, <1>4
  <2> QED
    BY <2>1, <2>2, <1>3
<1>6. \A i \in 1..(Len(q) - 1) : (a \o b)[i] = IF i < k THEN q[i] ELSE q[i + 1]
  <2> TAKE i \in 1..(Len(q) - 1)
  <2>1. CASE i < k
    BY <2>1, <1>1, <1>3, <1>4, <1>5
  <2>2. CASE ~(i < k)
    <3>1. i - (k - 1) \in 1..(Len(q) - k) /\ k + (i - (k - 1)) = i + 1
      BY <2>2, <1>1
    <3>2. (a \o b)[i] = b[i - (k - 1)]
      BY <2>2, <1>1, <1>3, <1>4, <1>5
    <3> QED
      BY <3>1, <3>2, <2>2, <1>4
  <2> QED
    BY <2>1, <2>2
<1> QED
  BY <1>5, <1>6 DEF RemoveAt, a, b

(* Each entry of r but the newest, c, is an entry of q, in the order of q; *)
(* every call of q but c is among them, and c is not if q repeats no call. *)
Renewal(q, c, r, from) ==
    /\ Len(r) = IF c \in Range(q) THEN Len(q) ELSE Len(q) + 1
    /\ r[Len(r)] = c
    /\ from \in [1..(Len(r) - 1) -> 1..Len(q)]
    /\ \A i \in 1..(Len(r) - 1) : r[i] = q[from[i]]
    /\ \A i, j \in 1..(Len(r) - 1) : i < j => from[i] < from[j]
    /\ \A j \in 1..Len(q) : q[j] # c => \E i \in 1..(Len(r) - 1) : from[i] = j
    /\ (\A i, j \in 1..Len(q) : q[i] = q[j] => i = j)
         => \A i \in 1..(Len(r) - 1) : r[i] # c

(* Renewing a call makes it the newest entry and keeps the others' order.  *)
LEMMA RenewedEntries ==
  ASSUME NEW S, NEW q \in Seq(S), NEW c \in S
  PROVE  Renewed(q, c) \in Seq(S) /\ \E from : Renewal(q, c, Renewed(q, c), from)
<1> DEFINE r == Renewed(q, c)
<1>1. /\ Len(q) \in Nat /\ DOMAIN q = 1..Len(q) /\ Range(q) = {q[i] : i \in 1..Len(q)}
      /\ \A i \in 1..Len(q) : q[i] \in S
  BY LenProperties, ElementOfSeq, RangeEquality
<1>2. CASE c \in Range(q)
  <2> DEFINE k == CHOOSE i \in DOMAIN q : q[i] = c
             m == RemoveAt(q, k)
             from == [i \in 1..(Len(q) - 1) |-> IF i < k THEN i ELSE i + 1]
  <2>1. k \in 1..Len(q) /\ q[k] = c
    BY <1>1, <1>2
  <2>2. r = Append(m, c)
    BY <1>2 DEF Renewed
  <2> HIDE DEF k
  <2>3. /\ m \in Seq(S) /\ Len(m) = Len(q) - 1
        /\ \A i \in 1..(Len(q) - 1) : m[i] = IF i < k THEN q[i] ELSE q[i + 1]
    BY <2>1, RemoveAtEntries
  <2> HIDE DEF m, r
  <2>4. /\ r \in Seq(S) /\ Len(r) = Len(q) /\ r[Len(q)] = c
        /\ \A i \in 1..(Len(q) - 1) : r[i] = m[i]
    <3>1. /\ Append(m, c) \in Seq(S)
          /\ Len(Append(m, c)) = Len(m) + 1
          /\ \A i \in 1..Len(m) : Append(m, c)[i] = m[i]
          /\ Append(m, c)[Len(m) + 1] = c
      BY <2>3, AppendProperties
    <3> QED
      BY <3>1, <2>2, <2>3, <1>1
  <2>5. /\ from \in [1..(Len(q) - 1) -> 1..Len(q)]
        /\ \A i \in 1..(Len(q) - 1) : from[i] # k /\ m[i] = q[from[i]]
        /\ \A i, j \in 1..(Len(q) - 1) : i < j => from[i] < from[j]
    BY <1>1, <2>1, <2>3
  <2>6. ASSUME NEW j \in 1..Len(q), q[j] # c
        PROVE  \E i \in 1..(Len(q) - 1) : from[i] = j
    <3>1. CASE j < k
      BY <3>1, <2>1, <1>1
    <3>2. CASE j > k
      <4>1. j - 1 \in 1..(Len(q) - 1) /\ ~(j - 1 < k)
        BY <3>2, <2>1, <1>1
      <4>2. from[j - 1] = j
        BY <4>1
      <4> QED
        BY <4>1, <4>2
    <3>3. j # k
      BY <2>6, <2>1
    <3> QED
      BY <3>1, <3>2, <3>3, <2>1
  <2> HIDE DEF from
  <2>7. \A i \in 1..(Len(q) - 1) : r[i] = q[from[i]]
    BY <2>4, <2>5
  <2>8. (\A i, j \in 1..Len(q) : q[i] = q[j] => i = j) => \A i \in 1..(Len(q) - 1) : r[i] # c
    BY <2>1, <2>5, <2>7
  <2>9. Renewal(q, c, r, from)
    BY <1>2, <2>4, <2>5, <2>6, <2>7, <2>8 DEF Renewal
  <2> QED
    BY <2>4, <2>9 DEF r
<1>3. CASE c \notin Range(q)
  <2> DEFINE from == [i \in 1..Len(q) |-> i]
  <2>1. r = Append(q, c)
    BY <1>3 DEF Renewed
  <2> HIDE DEF r
  <2>2. /\ r \in Seq(S) /\ Len(r) = Len(q) + 1 /\ r[Len(q) + 1] = c
        /\ \A i \in 1..Len(q) : r[i] = q[i]
    BY <2>1, AppendProperties
  <2>3. \A i \in 1..Len(q) : q[i] # c
    BY <1>1, <1>3
  <2>4. Len(r) - 1 = Len(q)
    BY <1>1, <2>2
  <2>5. /\ from \in [1..Len(q) -> 1..Len(q)]
        /\ \A i \in 1..Len(q) : r[i] = q[from[i]] /\ r[i] # c
        /\ \A i, j \in 1..Len(q) : i < j => from[i] < from[j]
        /\ \A j \in 1..Len(q) : q[j] # c => \E i \in 1..Len(q) : from[i] = j
    BY <2>2, <2>3
  <2> HIDE DEF from
  <2>6. Renewal(q, c, r, from)
    BY <1>3, <2>2, <2>4, <2>5 DEF Renewal
  <2> QED
    BY <2>2, <2>6 DEF r
<1> QED
  BY <1>2, <1>3

(* Evicting takes the oldest entry out of a cache that has outgrown its    *)
(* bound by one.                                                           *)
LEMMA EvictedEntries ==
  ASSUME NEW S, NEW r \in Seq(S), Len(r) <= CacheSize + 1
  PROVE  \E gone \in {0, 1} :
           /\ gone = IF Len(r) = CacheSize + 1 THEN 1 ELSE 0
           /\ CacheIn(Evicted(r), S)
           /\ Len(Evicted(r)) = Len(r) - gone
           /\ \A i \in 1..Len(Evicted(r)) : Evicted(r)[i] = r[i + gone]
<1>1. Len(r) \in Nat /\ CacheSize \in Nat \ {0}
  BY CallStartsAssumption, LenProperties
<1>2. CASE Len(r) = CacheSize + 1
  <2>1. r # <<>>
    BY <1>1, <1>2, EmptySeq
  <2>2. /\ Tail(r) \in Seq(S) /\ Len(Tail(r)) = Len(r) - 1
        /\ \A i \in 1..Len(Tail(r)) : Tail(r)[i] = r[i + 1]
    BY <2>1, HeadTailProperties
  <2>3. Evicted(r) = Tail(r)
    BY <1>1, <1>2 DEF Evicted
  <2> QED
    BY <2>2, <2>3, <1>1, <1>2 DEF CacheIn
<1>3. CASE Len(r) # CacheSize + 1
  <2>1. Evicted(r) = r /\ Len(r) <= CacheSize
    BY <1>1, <1>3 DEF Evicted
  <2>2. \A i \in 1..Len(r) : r[i + 0] = r[i]
    BY <1>1
  <2> QED
    BY <2>1, <2>2, <1>1, <1>3 DEF CacheIn
<1> QED
  BY <1>2, <1>3

(* A cache that renews a call keeps its bound and tells of no other call.  *)
LEMMA CacheTypes ==
  ASSUME NEW S, NEW q, CacheIn(q, S), NEW c \in S
  PROVE  /\ CacheIn(Evicted(Renewed(q, c)), S)
         /\ Range(Evicted(Renewed(q, c))) \subseteq Range(q) \cup {c}
<1>1. /\ q \in Seq(S) /\ Len(q) \in Nat /\ Len(q) <= CacheSize
      /\ Range(q) = {q[i] : i \in 1..Len(q)} /\ CacheSize \in Nat
  BY CallStartsAssumption, LenProperties, RangeEquality DEF CacheIn
<1>2. PICK r : r = Renewed(q, c)
  OBVIOUS
<1>3. r \in Seq(S)
  BY <1>1, <1>2, RenewedEntries
<1>4. PICK from : Renewal(q, c, r, from)
  BY <1>1, <1>2, RenewedEntries
<1>5. Len(r) \in Nat /\ Len(r) <= CacheSize + 1
  BY <1>1, <1>3, <1>4, LenProperties DEF Renewal
<1>6. \A i \in 1..Len(r) : r[i] \in Range(q) \cup {c}
  <2> TAKE i \in 1..Len(r)
  <2>1. CASE i = Len(r)
    BY <2>1, <1>4 DEF Renewal
  <2>2. CASE i # Len(r)
    <3>1. i \in 1..(Len(r) - 1)
      BY <2>2, <1>5
    <3>2. r[i] = q[from[i]] /\ from[i] \in 1..Len(q)
      BY <3>1, <1>4 DEF Renewal
    <3> QED
      BY <3>2, <1>1
  <2> QED
    BY <2>1, <2>2
<1>7. PICK e : e = Evicted(r)
  OBVIOUS
<1>8. PICK gone \in {0, 1} :
        /\ CacheIn(e, S) /\ Len(e) = Len(r) - gone
        /\ \A i \in 1..Len(e) : e[i] = r[i + gone]
  BY <1>3, <1>5, <1>7, EvictedEntries
<1>9. Range(e) = {e[i] : i \in 1..Len(e)}
  BY <1>8, RangeEquality DEF CacheIn
<1>10. \A i \in 1..Len(e) : e[i] \in Range(q) \cup {c}
  BY <1>5, <1>6, <1>8
<1> QED
  BY <1>2, <1>7, <1>8, <1>9, <1>10

(*-------------------- types and markers of the state --------------------*)

(* A process that makes a claim makes it for a call and a request.         *)
ClaimsAreOfCalls ==
    \A p \in Procs :
        turn[p].pc # "idle" => turn[p].call \in CallIds /\ turn[p].turn \in 1..MaxTurns

(* What is cached, to be audited or audited of a call has its marker.      *)
MarkInv == TypeOK /\ ClaimsAreOfCalls /\ KnownCallsAreMarked

(* What serving a call leaves in memory, when the call has its marker.     *)
LEMMA ServeKeeps ==
  ASSUME NEW p \in Procs, NEW c \in CallIds, NEW n \in 1..MaxTurns,
         NEW kinds \in SUBSET {"call_started"},
         TypeOK, KnownCallsAreMarked, Serve(p, c, n, kinds),
         marked \cup {c} \subseteq marked'
  PROVE  /\ cache' \in [Procs -> Seq(CallIds)] /\ \A q \in Procs : Len(cache'[q]) <= CacheSize
         /\ served' \in [Procs -> Seq(CallIds)]
         /\ tasks' \in [Procs -> SUBSET Audit]
         /\ \A q \in Procs : Range(cache'[q]) \cup {a.call : a \in tasks'[q]} \subseteq marked'
<1>1. /\ cache' = [cache EXCEPT ![p] = Evicted(Renewed(@, c))]
      /\ served' = [served EXCEPT ![p] = Append(@, c)]
      /\ tasks' = [tasks EXCEPT ![p] =
                     @ \cup [kind : kinds \cup {"turn_processed"}, call : {c}, turn : {n}]]
  BY DEF Serve
<1>2. CacheIn(cache[p], CallIds)
  BY DEF TypeOK, CacheIn
<1>3. PICK e : e = Evicted(Renewed(cache[p], c))
  OBVIOUS
<1>4. e \in Seq(CallIds) /\ Len(e) <= CacheSize /\ Range(e) \subseteq Range(cache[p]) \cup {c}
  BY <1>2, <1>3, CacheTypes DEF CacheIn
<1>5. PICK new : new = [kind : kinds \cup {"turn_processed"}, call : {c}, turn : {n}]
  OBVIOUS
<1>6. new \subseteq Audit /\ \A a \in new : a.call = c
  BY <1>5 DEF Audit
<1>7. cache' \in [Procs -> Seq(CallIds)] /\ \A q \in Procs : cache'[q] = IF q = p THEN e ELSE cache[q]
  BY <1>1, <1>3, <1>4 DEF TypeOK
<1>8. /\ tasks' \in [Procs -> SUBSET Audit]
      /\ \A q \in Procs : tasks'[q] = IF q = p THEN tasks[p] \cup new ELSE tasks[q]
  BY <1>1, <1>5, <1>6 DEF TypeOK
<1>9. served' \in [Procs -> Seq(CallIds)]
  <2>1. Append(served[p], c) \in Seq(CallIds)
    BY AppendProperties DEF TypeOK
  <2> QED
    BY <2>1, <1>1 DEF TypeOK
<1>10. \A q \in Procs : Len(cache'[q]) <= CacheSize
  BY <1>4, <1>7 DEF TypeOK
<1>11. \A q \in Procs : Range(cache'[q]) \subseteq marked'
  BY <1>4, <1>7 DEF KnownCallsAreMarked
<1>12. \A q \in Procs : \A a \in tasks'[q] : a.call \in marked'
  <2>1. \A q \in Procs : \A a \in tasks[q] : a.call \in marked
    BY DEF KnownCallsAreMarked
  <2> QED
    BY <2>1, <1>6, <1>8
<1> QED
  BY <1>7, <1>8, <1>9, <1>10, <1>11, <1>12

(* A step that serves nobody keeps what it neither writes nor grows.       *)
LEMMA MemoryKept ==
  ASSUME TypeOK, KnownCallsAreMarked, marked \subseteq marked', UNCHANGED <<cache, served, tasks>>
  PROVE  /\ cache' \in [Procs -> Seq(CallIds)] /\ \A q \in Procs : Len(cache'[q]) <= CacheSize
         /\ served' \in [Procs -> Seq(CallIds)]
         /\ tasks' \in [Procs -> SUBSET Audit]
         /\ \A q \in Procs : Range(cache'[q]) \cup {a.call : a \in tasks'[q]} \subseteq marked'
BY DEF TypeOK, KnownCallsAreMarked

(* MarkInv holds at the start and through every step.                      *)
THEOREM MarkInvariant == Spec => []MarkInv
<1>1. Init => MarkInv
  <2> SUFFICES ASSUME Init PROVE MarkInv
    OBVIOUS
  <2>1. <<>> \in Seq(CallIds) /\ Len(<<>>) = 0 /\ Range(<<>>) = {}
    BY EmptySeq DEF Range
  <2>2. TypeOK
    BY <2>1, CallStartsAssumption DEF Init, TypeOK, Claim, Idle
  <2>3. ClaimsAreOfCalls
    BY DEF Init, ClaimsAreOfCalls, Idle
  <2>4. KnownCallsAreMarked
    BY <2>1 DEF Init, KnownCallsAreMarked
  <2> QED
    BY <2>2, <2>3, <2>4 DEF MarkInv
<1>2. MarkInv /\ [Next]_vars => MarkInv'
  <2> SUFFICES ASSUME MarkInv, [Next]_vars
               PROVE  MarkInv'
    OBVIOUS
  <2> USE CallStartsAssumption
  <2>0. TypeOK /\ ClaimsAreOfCalls /\ KnownCallsAreMarked
    BY DEF MarkInv
  <2> DEFINE Memory == /\ cache' \in [Procs -> Seq(CallIds)] /\ \A q \in Procs : Len(cache'[q]) <= CacheSize
                       /\ served' \in [Procs -> Seq(CallIds)]
                       /\ tasks' \in [Procs -> SUBSET Audit]
                       /\ \A q \in Procs : Range(cache'[q]) \cup {a.call : a \in tasks'[q]} \subseteq marked'
             Turns == turn' \in [Procs -> Claim] /\ turns' \in 0..MaxTurns /\ ClaimsAreOfCalls'
             Stored == /\ marked' \subseteq CallIds /\ marked \subseteq marked'
                       /\ audits' \subseteq Audit /\ \A a \in audits' : a.call \in marked'
                       /\ starts' \subseteq Start
  <2>a. Memory /\ Turns /\ Stored => MarkInv'
    BY DEF MarkInv, TypeOK, KnownCallsAreMarked
  <2>b. UNCHANGED <<marked, audits, starts>> => Stored
    BY <2>0 DEF TypeOK, KnownCallsAreMarked
  <2>c. \A p \in Procs : turn' = [turn EXCEPT ![p] = Idle] /\ UNCHANGED turns => Turns
    BY <2>0 DEF TypeOK, ClaimsAreOfCalls, Claim, Idle
  <2>d. \A p \in Procs : turn[p].pc # "idle" => CallOf(p) \in CallIds /\ turn[p].turn \in 1..MaxTurns
    BY <2>0 DEF ClaimsAreOfCalls, CallOf
  <2>1. ASSUME NEW p \in Procs, NEW c \in CallIds, Request(p, c)
        PROVE  MarkInv'
    <3>1. UNCHANGED <<marked, audits, starts>> /\ turns' = turns + 1 /\ turns < MaxTurns
      BY <2>1 DEF Request
    <3>2. turns' \in 1..MaxTurns
      BY <3>1, <2>0 DEF TypeOK
    <3>3. CASE Cached(p, c) /\ Serve(p, c, turns', {}) /\ UNCHANGED turn
      <4>1. PICK n \in 1..MaxTurns : n = turns'
        BY <3>2
      <4>2. marked \cup {c} \subseteq marked'
        BY <3>1, <3>3, <2>0 DEF Cached, KnownCallsAreMarked
      <4>3. Memory
        BY <4>1, <4>2, <3>3, <2>0, ServeKeeps
      <4>4. Turns
        BY <3>2, <3>3, <2>0 DEF TypeOK, ClaimsAreOfCalls
      <4> QED
        BY <4>3, <4>4, <3>1, <2>a, <2>b
    <3>4. CASE /\ turn' = [turn EXCEPT ![p] = [pc |-> "check", call |-> c, turn |-> turns']]
               /\ UNCHANGED <<cache, served, tasks>>
      <4>1. Memory
        BY <3>1, <3>4, <2>0, MemoryKept
      <4>2. Turns
        BY <3>2, <3>4, <2>0 DEF TypeOK, ClaimsAreOfCalls, Claim
      <4> QED
        BY <4>1, <4>2, <3>1, <2>a, <2>b
    <3> QED
      BY <2>1, <3>3, <3>4 DEF Request
  <2>2. ASSUME NEW p \in Procs, CheckMarker(p)
        PROVE  MarkInv'
    <3>1. UNCHANGED <<marked, audits, starts, turns>> /\ turn[p].pc = "check"
      BY <2>2 DEF CheckMarker, Claiming
    <3>2. CASE /\ Taken(CallOf(p)) /\ Serve(p, CallOf(p), turn[p].turn, {})
               /\ turn' = [turn EXCEPT ![p] = Idle]
      <4>1. PICK c \in CallIds, n \in 1..MaxTurns : c = CallOf(p) /\ n = turn[p].turn
        BY <3>1, <2>d
      <4>2. marked \cup {c} \subseteq marked'
        BY <3>1, <3>2, <4>1 DEF Taken
      <4>3. Memory
        BY <4>1, <4>2, <3>2, <2>0, ServeKeeps
      <4> QED
        BY <4>3, <3>1, <3>2, <2>a, <2>b, <2>c
    <3>3. CASE turn' = [turn EXCEPT ![p].pc = "insert"] /\ UNCHANGED <<cache, served, tasks>>
      <4>1. Memory
        BY <3>1, <3>3, <2>0, MemoryKept
      <4>2. turn[p] \in Claim
        BY <2>0 DEF TypeOK
      <4>3. Turns
        BY <3>1, <3>3, <4>2, <2>0 DEF TypeOK, ClaimsAreOfCalls, Claim
      <4> QED
        BY <4>1, <4>3, <3>1, <2>a, <2>b
    <3> QED
      BY <2>2, <3>2, <3>3 DEF CheckMarker
  <2>3. ASSUME NEW p \in Procs, InsertMarker(p)
        PROVE  MarkInv'
    <3>1. /\ turn[p].pc = "insert"
          /\ marked' = marked \cup {CallOf(p)}
          /\ starts' = starts \cup {[proc |-> p, call |-> CallOf(p), turn |-> turn[p].turn]}
          /\ Serve(p, CallOf(p), turn[p].turn, {"call_started"})
          /\ turn' = [turn EXCEPT ![p] = Idle]
          /\ UNCHANGED <<audits, turns>>
      BY <2>3 DEF InsertMarker, Claiming
    <3>2. PICK c \in CallIds, n \in 1..MaxTurns : c = CallOf(p) /\ n = turn[p].turn
      BY <3>1, <2>d
    <3>3. Memory
      BY <3>1, <3>2, <2>0, ServeKeeps
    <3>4. Stored
      BY <3>1, <3>2, <2>0 DEF TypeOK, KnownCallsAreMarked, Start
    <3> QED
      BY <3>1, <3>3, <3>4, <2>a, <2>c
  <2>4. ASSUME NEW p \in Procs, ClaimFails(p)
        PROVE  MarkInv'
    <3>1. /\ turn[p].pc # "idle"
          /\ marked' = marked \/ marked' = marked \cup {CallOf(p)}
          /\ turn' = [turn EXCEPT ![p] = Idle]
          /\ UNCHANGED <<tasks, audits, starts, served, turns>>
      BY <2>4 DEF ClaimFails
    <3>2. UNCHANGED cache
      BY <2>4, <2>0 DEF ClaimFails, CacheAfterFailure, TypeOK
    <3>3. Stored
      BY <3>1, <2>0, <2>d DEF TypeOK, KnownCallsAreMarked
    <3>4. Memory
      BY <3>1, <3>2, <3>3, <2>0, MemoryKept
    <3> QED
      BY <3>1, <3>3, <3>4, <2>a, <2>c
  <2>5. ASSUME NEW p \in Procs, WriteAudit(p) \/ LoseAudit(p)
        PROVE  MarkInv'
    <3>1. PICK a \in tasks[p] : /\ audits' \in {audits, audits \cup {a}}
                                /\ tasks' = [tasks EXCEPT ![p] = @ \ {a}]
                                /\ UNCHANGED <<marked, turn, cache, starts, served, turns>>
      BY <2>5 DEF WriteAudit, LoseAudit
    <3>2. Turns
      BY <3>1, <2>0 DEF TypeOK, ClaimsAreOfCalls
    <3>3. a \in Audit /\ a.call \in marked
      BY <3>1, <2>0 DEF TypeOK, KnownCallsAreMarked
    <3>4. Stored
      BY <3>1, <3>3, <2>0 DEF TypeOK, KnownCallsAreMarked
    <3>5. /\ tasks' \in [Procs -> SUBSET Audit]
          /\ \A q \in Procs : tasks'[q] \subseteq tasks[q]
      BY <3>1, <2>0 DEF TypeOK
    <3>6. Memory
      BY <3>1, <3>5, <2>0 DEF TypeOK, KnownCallsAreMarked
    <3> QED
      BY <3>2, <3>4, <3>6, <2>a
  <2>6. ASSUME NEW p \in Procs, Restart(p)
        PROVE  MarkInv'
    <3>1. /\ turn'   = [turn EXCEPT ![p] = Idle]
          /\ cache'  = [cache EXCEPT ![p] = <<>>]
          /\ tasks'  = [tasks EXCEPT ![p] = {}]
          /\ served' = [served EXCEPT ![p] = <<>>]
          /\ UNCHANGED <<marked, audits, starts, turns>>
      BY <2>6 DEF Restart
    <3>2. <<>> \in Seq(CallIds) /\ Len(<<>>) = 0 /\ Range(<<>>) = {}
      BY EmptySeq DEF Range
    <3>3. /\ tasks' \in [Procs -> SUBSET Audit]
          /\ \A q \in Procs : tasks'[q] \subseteq tasks[q]
      BY <3>1, <2>0 DEF TypeOK
    <3>4. /\ cache' \in [Procs -> Seq(CallIds)] /\ \A q \in Procs : Len(cache'[q]) <= CacheSize
          /\ served' \in [Procs -> Seq(CallIds)]
      BY <3>1, <3>2, <2>0 DEF TypeOK
    <3>5. \A q \in Procs : Range(cache'[q]) \subseteq Range(cache[q])
      BY <3>1, <3>2, <2>0 DEF TypeOK
    <3>6. Memory
      BY <3>1, <3>3, <3>4, <3>5, <2>0 DEF KnownCallsAreMarked
    <3> QED
      BY <3>1, <3>6, <2>a, <2>b, <2>c
  <2>7. CASE UNCHANGED vars
    BY <2>7, <2>0 DEF vars, MarkInv, TypeOK, ClaimsAreOfCalls, KnownCallsAreMarked
  <2> QED
    BY <2>1, <2>2, <2>3, <2>4, <2>5, <2>6, <2>7 DEF Next
<1> QED
  BY <1>1, <1>2, PTL DEF Spec

(* Every variable keeps its shape, and no cache outgrows its bound.        *)
THEOREM CallStartsTypes == Spec => []TypeOK
<1>1. MarkInv => TypeOK
  BY DEF MarkInv
<1> QED
  BY MarkInvariant, <1>1, PTL

(* A call a process no longer asks the database about, and a call any      *)
(* audit tells of, has its durable marker.                                 *)
THEOREM CachedCallsAreMarked == Spec => []KnownCallsAreMarked
<1>1. MarkInv => KnownCallsAreMarked
  BY DEF MarkInv
<1> QED
  BY MarkInvariant, <1>1, PTL

(*------------------------ the least recently used -----------------------*)

(* i is the last place of s that serves c.                                 *)
LastAt(s, c, i) ==
    i \in 1..Len(s) /\ s[i] = c /\ \A j \in 1..Len(s) : s[j] = c => j <= i

EachHasALast(s) == \A c \in Range(s) : \E i \in 1..Len(s) : LastAt(s, c, i)

(* A cache q of what s served that has outgrown its bound by extra entries *)
(* is in order, misses no newer call, and is full or misses nothing.       *)
Recent(q, s, extra) ==
    /\ EachHasALast(s)
    /\ Range(q) \subseteq Range(s)
    /\ Ordered(q, s)
    /\ Newest(q, s)
    /\ Len(q) <= CacheSize + extra
    /\ CacheSize <= Len(q) \/ Range(s) \subseteq Range(q)

(* LastServed is the only last place there is.                             *)
LEMMA LastServedIsLast ==
  ASSUME NEW S, NEW s \in Seq(S), NEW c, NEW i, LastAt(s, c, i)
  PROVE  LastServed(s, c) = i /\ i \in Nat
<1>1. Len(s) \in Nat /\ DOMAIN s = 1..Len(s)
  BY LenProperties
<1>2. \A k \in DOMAIN s :
        (s[k] = c /\ \A j \in DOMAIN s : s[j] = c => j <= k) => k = i
  BY <1>1 DEF LastAt
<1>3. i \in DOMAIN s /\ s[i] = c /\ \A j \in DOMAIN s : s[j] = c => j <= i
  BY <1>1 DEF LastAt
<1> QED
  BY <1>1, <1>2, <1>3 DEF LastServed

(* Serving c makes its place the last and leaves the other calls' places.  *)
LEMMA ServedLast ==
  ASSUME NEW S, NEW s \in Seq(S), NEW c \in S, EachHasALast(s)
  PROVE  /\ Append(s, c) \in Seq(S)
         /\ EachHasALast(Append(s, c))
         /\ Range(Append(s, c)) = Range(s) \cup {c}
         /\ LastServed(Append(s, c), c) = Len(s) + 1
         /\ \A d \in Range(s) : LastServed(s, d) \in 1..Len(s)
         /\ \A d \in Range(s) \ {c} : LastServed(Append(s, c), d) = LastServed(s, d)
<1>1. PICK t : t = Append(s, c)
  OBVIOUS
<1>2. /\ t \in Seq(S) /\ Len(t) = Len(s) + 1 /\ Len(s) \in Nat /\ Len(t) \in Nat
      /\ \A i \in 1..Len(s) : t[i] = s[i]
      /\ t[Len(s) + 1] = c
  BY <1>1, AppendProperties, LenProperties
<1>3. Range(s) = {s[i] : i \in 1..Len(s)} /\ Range(t) = {t[i] : i \in 1..Len(t)}
  BY <1>2, RangeEquality
<1>4. Range(t) = Range(s) \cup {c}
  <2>1. 1..Len(t) = 1..Len(s) \cup {Len(s) + 1}
    BY <1>2
  <2> QED
    BY <2>1, <1>2, <1>3
<1>5. LastAt(t, c, Len(s) + 1)
  BY <1>2 DEF LastAt
<1>6. ASSUME NEW d \in Range(s)
      PROVE  \E i \in 1..Len(s) : LastAt(s, d, i) /\ LastServed(s, d) = i
  <2>1. PICK i \in 1..Len(s) : LastAt(s, d, i)
    BY DEF EachHasALast
  <2> QED
    BY <2>1, LastServedIsLast
<1>7. ASSUME NEW d \in Range(s), d # c
      PROVE  \E i \in 1..Len(s) : LastAt(t, d, i) /\ LastServed(s, d) = i /\ LastServed(t, d) = i
  <2>1. PICK i \in 1..Len(s) : LastAt(s, d, i) /\ LastServed(s, d) = i
    BY <1>6
  <2>2. LastAt(t, d, i)
    <3>1. i \in 1..Len(t) /\ t[i] = d
      BY <2>1, <1>2 DEF LastAt
    <3>2. ASSUME NEW j \in 1..Len(t), t[j] = d PROVE j <= i
      <4>1. j \in 1..Len(s)
        BY <3>2, <1>2, <1>7
      <4> QED
        BY <4>1, <3>2, <2>1, <1>2 DEF LastAt
    <3> QED
      BY <3>1, <3>2 DEF LastAt
  <2> QED
    BY <2>1, <2>2, <1>2, LastServedIsLast
<1>8. EachHasALast(t)
  <2> SUFFICES ASSUME NEW d \in Range(t) PROVE \E i \in 1..Len(t) : LastAt(t, d, i)
    BY DEF EachHasALast
  <2>1. CASE d = c
    BY <2>1, <1>2, <1>5
  <2>2. CASE d # c
    BY <2>2, <1>2, <1>4, <1>7
  <2> QED
    BY <2>1, <2>2
<1>9. LastServed(t, c) = Len(s) + 1
  BY <1>2, <1>5, LastServedIsLast
<1> QED
  BY <1>1, <1>2, <1>4, <1>6, <1>7, <1>8, <1>9

(* Two entries of an ordered cache never tell of the same call.            *)
LEMMA OrderedIsDistinct ==
  ASSUME NEW S, NEW q \in Seq(S), NEW T, NEW s \in Seq(T), Recent(q, s, 0)
  PROVE  \A i, j \in 1..Len(q) : q[i] = q[j] => i = j
<1>1. /\ Len(q) \in Nat /\ DOMAIN q = 1..Len(q) /\ Range(q) = {q[i] : i \in 1..Len(q)}
      /\ Len(s) \in Nat
  BY LenProperties, RangeEquality
<1>2. \A i \in 1..Len(q) : LastServed(s, q[i]) \in Nat
  BY <1>1, LastServedIsLast DEF Recent, EachHasALast
<1>3. \A i, j \in 1..Len(q) : i < j => LastServed(s, q[i]) < LastServed(s, q[j])
  BY <1>1 DEF Recent, Ordered
<1> QED
  BY <1>1, <1>2, <1>3

(* Renewing the call that is served keeps a cache recent but for its bound.*)
LEMMA RenewedIsRecent ==
  ASSUME NEW S, NEW q \in Seq(S), NEW s \in Seq(S), NEW c \in S, Recent(q, s, 0)
  PROVE  Recent(Renewed(q, c), Append(s, c), 1)
<1>1. PICK r, t : r = Renewed(q, c) /\ t = Append(s, c)
  OBVIOUS
<1>2. r \in Seq(S) /\ \E from : Renewal(q, c, r, from)
  BY <1>1, RenewedEntries
<1>3. PICK from : Renewal(q, c, r, from)
  BY <1>2
<1>4. /\ Len(q) \in Nat /\ DOMAIN q = 1..Len(q) /\ Range(q) = {q[i] : i \in 1..Len(q)}
      /\ Len(r) \in Nat /\ DOMAIN r = 1..Len(r) /\ Range(r) = {r[i] : i \in 1..Len(r)}
      /\ Len(s) \in Nat /\ CacheSize \in Nat
  BY <1>2, LenProperties, RangeEquality, CallStartsAssumption
<1>n. Len(q) \in Nat /\ Len(r) \in Nat /\ Len(s) \in Nat /\ CacheSize \in Nat
  BY <1>4
<1>5. /\ t \in Seq(S) /\ EachHasALast(t) /\ Range(t) = Range(s) \cup {c}
      /\ LastServed(t, c) = Len(s) + 1
      /\ \A d \in Range(s) : LastServed(s, d) \in 1..Len(s)
      /\ \A d \in Range(s) \ {c} : LastServed(t, d) = LastServed(s, d)
  BY <1>1, ServedLast DEF Recent
<1>6. /\ Len(r) = IF c \in Range(q) THEN Len(q) ELSE Len(q) + 1
      /\ r[Len(r)] = c
      /\ \A i \in 1..(Len(r) - 1) :
           from[i] \in 1..Len(q) /\ r[i] = q[from[i]] /\ r[i] # c
      /\ \A i, j \in 1..(Len(r) - 1) : i < j => from[i] < from[j]
      /\ \A j \in 1..Len(q) : q[j] # c => \E i \in 1..(Len(r) - 1) : from[i] = j
  <2>1. \A i, j \in 1..Len(q) : q[i] = q[j] => i = j
    BY OrderedIsDistinct
  <2> QED
    BY <2>1, <1>3 DEF Renewal
<1>7. Len(r) \in 1..(Len(q) + 1) /\ Len(r) >= Len(q)
  <2>1. c \in Range(q) => Len(q) # 0
    BY <1>4
  <2>2. Len(r) = IF c \in Range(q) THEN Len(q) ELSE Len(q) + 1
    BY <1>6
  <2> QED
    BY <2>1, <2>2, <1>n
<1>u. \A i \in 1..(Len(r) - 1) : i \in 1..Len(r)
  BY <1>n
<1>8. \A i \in 1..(Len(r) - 1) :
        /\ r[i] \in Range(q) /\ r[i] \in Range(s)
        /\ LastServed(t, r[i]) = LastServed(s, q[from[i]])
        /\ LastServed(t, r[i]) < Len(s) + 1
  <2> TAKE i \in 1..(Len(r) - 1)
  <2>1. from[i] \in 1..Len(q) /\ r[i] = q[from[i]] /\ r[i] # c
    BY <1>6
  <2>2. r[i] \in Range(q)
    BY <2>1, <1>4
  <2>3. r[i] \in Range(s)
    BY <2>2 DEF Recent
  <2>4. LastServed(t, r[i]) = LastServed(s, r[i]) /\ LastServed(s, r[i]) \in 1..Len(s)
    BY <2>1, <2>3, <1>5
  <2>5. LastServed(s, r[i]) < Len(s) + 1
    BY <2>4, <1>n
  <2> QED
    BY <2>1, <2>2, <2>3, <2>4, <2>5
<1>9. \A d \in Range(q) : d \in Range(r)
  <2> TAKE d \in Range(q)
  <2>1. CASE d = c
    BY <2>1, <1>4, <1>6, <1>7
  <2>2. CASE d # c
    <3>1. PICK j \in 1..Len(q) : q[j] = d
      BY <1>4
    <3>2. PICK i \in 1..(Len(r) - 1) : from[i] = j
      BY <3>1, <2>2, <1>6
    <3>3. r[i] = d /\ i \in 1..Len(r)
      BY <3>1, <3>2, <1>u, <1>6
    <3> QED
      BY <3>3, <1>4
  <2> QED
    BY <2>1, <2>2
<1>10. c \in Range(r) /\ \A i \in 1..Len(r) : r[i] = c \/ i \in 1..(Len(r) - 1)
  <2>1. Len(r) \in 1..Len(r) /\ r[Len(r)] = c
    BY <1>n, <1>6, <1>7
  <2>2. \A i \in 1..Len(r) : i = Len(r) \/ i \in 1..(Len(r) - 1)
    BY <1>n
  <2> QED
    BY <2>1, <2>2, <1>4
<1>11. Range(r) \subseteq Range(t)
  BY <1>4, <1>5, <1>8, <1>10
<1>12. Ordered(r, t)
  <2> SUFFICES ASSUME NEW i \in 1..Len(r), NEW j \in 1..Len(r), i < j
               PROVE  LastServed(t, r[i]) < LastServed(t, r[j])
    BY <1>4 DEF Ordered
  <2>1. i \in 1..(Len(r) - 1)
    BY <1>n
  <2>2. CASE j = Len(r)
    BY <2>1, <2>2, <1>5, <1>6, <1>8
  <2>3. CASE j # Len(r)
    <3>1. j \in 1..(Len(r) - 1)
      BY <2>3, <1>n
    <3>2. LastServed(s, q[from[i]]) < LastServed(s, q[from[j]])
      BY <2>1, <3>1, <1>4, <1>6 DEF Recent, Ordered
    <3> QED
      BY <2>1, <3>1, <3>2, <1>8
  <2> QED
    BY <2>2, <2>3
<1>13. Newest(r, t)
  <2> SUFFICES ASSUME NEW d \in Range(t), NEW i \in 1..Len(r),
                      LastServed(t, d) > LastServed(t, r[i])
               PROVE  d \in Range(r)
    BY <1>4 DEF Newest
  <2>1. CASE d = c
    BY <2>1, <1>10
  <2>2. CASE d # c
    <3>1. d \in Range(s) /\ LastServed(t, d) = LastServed(s, d) /\ LastServed(s, d) \in 1..Len(s)
      BY <2>2, <1>5
    <3>2. i # Len(r)
      <4> SUFFICES ASSUME i = Len(r) PROVE FALSE
        OBVIOUS
      <4>1. LastServed(t, r[i]) = Len(s) + 1
        BY <1>5, <1>6
      <4> QED
        BY <4>1, <3>1, <1>n
    <3>3. i \in 1..(Len(r) - 1)
      BY <3>2, <1>n
    <3>4. LastServed(s, d) > LastServed(s, q[from[i]]) /\ from[i] \in DOMAIN q
      BY <3>1, <3>3, <1>4, <1>6, <1>8
    <3>5. d \in Range(q)
      BY <3>1, <3>4 DEF Recent, Newest
    <3> QED
      BY <3>5, <1>9
  <2> QED
    BY <2>1, <2>2
<1>14. CacheSize <= Len(r) \/ Range(t) \subseteq Range(r)
  <2>1. CASE CacheSize <= Len(q)
    BY <2>1, <1>n, <1>7
  <2>2. CASE Range(s) \subseteq Range(q)
    BY <2>2, <1>5, <1>9, <1>10
  <2> QED
    BY <2>1, <2>2 DEF Recent
<1>15. Len(r) <= CacheSize + 1
  <2>1. Len(q) <= CacheSize + 0
    BY DEF Recent
  <2> QED
    BY <2>1, <1>n, <1>7
<1> QED
  BY <1>1, <1>5, <1>11, <1>12, <1>13, <1>14, <1>15 DEF Recent

(* Evicting the oldest entry makes a recent cache keep its bound.          *)
LEMMA EvictedIsRecent ==
  ASSUME NEW S, NEW r \in Seq(S), NEW s \in Seq(S), Recent(r, s, 1)
  PROVE  Recent(Evicted(r), s, 0)
<1>1. PICK e : e = Evicted(r)
  OBVIOUS
<1>2. /\ Len(r) \in Nat /\ DOMAIN r = 1..Len(r) /\ Range(r) = {r[i] : i \in 1..Len(r)}
      /\ CacheSize \in Nat
  BY LenProperties, RangeEquality, CallStartsAssumption
<1>n. Len(r) \in Nat /\ CacheSize \in Nat
  BY <1>2
<1>3. Len(r) <= CacheSize + 1
  BY DEF Recent
<1>4. PICK gone \in {0, 1} :
        /\ gone = IF Len(r) = CacheSize + 1 THEN 1 ELSE 0
        /\ CacheIn(e, S)
        /\ Len(e) = Len(r) - gone
        /\ \A i \in 1..Len(e) : e[i] = r[i + gone]
  BY <1>1, <1>3, EvictedEntries
<1>5. /\ Len(e) \in Nat /\ DOMAIN e = 1..Len(e) /\ Range(e) = {e[i] : i \in 1..Len(e)}
  BY <1>4, LenProperties, RangeEquality DEF CacheIn
<1>o. Len(e) = Len(r) - gone /\ Len(e) \in Nat
  BY <1>4, <1>5
<1>6. \A i \in 1..Len(e) : i + gone \in 1..Len(r) /\ e[i] = r[i + gone]
  <2> TAKE i \in 1..Len(e)
  <2>1. e[i] = r[i + gone]
    BY <1>4
  <2> QED
    BY <2>1, <1>n, <1>o
<1>7. Range(e) \subseteq Range(r)
  BY <1>2, <1>5, <1>6
<1>8. \A i \in 1..Len(r) : LastServed(s, r[i]) \in Nat
  BY <1>2, LastServedIsLast DEF Recent, EachHasALast
<1>9. \A i, j \in 1..Len(r) : i < j => LastServed(s, r[i]) < LastServed(s, r[j])
  BY <1>2 DEF Recent, Ordered
<1>10. Ordered(e, s)
  <2> SUFFICES ASSUME NEW i \in 1..Len(e), NEW j \in 1..Len(e), i < j
               PROVE  LastServed(s, e[i]) < LastServed(s, e[j])
    BY <1>5 DEF Ordered
  <2>1. i + gone < j + gone
    BY <1>5
  <2> QED
    BY <2>1, <1>6, <1>9
<1>11. Newest(e, s)
  <2> SUFFICES ASSUME NEW d \in Range(s), NEW i \in 1..Len(e),
                      LastServed(s, d) > LastServed(s, e[i])
               PROVE  d \in Range(e)
    BY <1>5 DEF Newest
  <2>1. PICK k \in 1..Len(r) : r[k] = d
    BY <1>2, <1>6 DEF Recent, Newest
  <2>2. k > i + gone
    <3>1. ~(k = i + gone) /\ ~(k < i + gone)
      BY <2>1, <1>2, <1>6, <1>8, <1>9
    <3> QED
      BY <3>1, <1>2, <1>6
  <2>3. k - gone \in 1..Len(e) /\ (k - gone) + gone = k
    BY <2>1, <2>2, <1>n, <1>o
  <2>4. e[k - gone] = d
    BY <2>1, <2>3, <1>6
  <2> QED
    BY <2>3, <2>4, <1>5
<1>12. CacheSize <= Len(e) \/ Range(s) \subseteq Range(e)
  <2>1. CASE gone = 1
    <3>1. Len(r) = CacheSize + 1
      BY <2>1, <1>4
    <3> QED
      BY <3>1, <2>1, <1>n, <1>o
  <2>2. CASE gone = 0
    <3>1. Len(e) = Len(r)
      BY <2>2, <1>n, <1>o
    <3>2. \A i \in 1..Len(r) : e[i] = r[i]
      BY <2>2, <3>1, <1>2, <1>6
    <3>3. Range(e) = Range(r)
      BY <3>1, <3>2, <1>2, <1>5
    <3> QED
      BY <3>1, <3>3 DEF Recent
  <2> QED
    BY <2>1, <2>2
<1>13. Len(e) <= CacheSize + 0
  BY <1>n, <1>4 DEF CacheIn
<1>14. EachHasALast(s) /\ Range(e) \subseteq Range(s)
  BY <1>7 DEF Recent
<1> QED
  BY <1>1, <1>10, <1>11, <1>12, <1>13, <1>14 DEF Recent

(* Every process's cache is recent in what that process has served.        *)
CachesAreRecent == \A p \in Procs : Recent(cache[p], served[p], 0)

(* CachesAreRecent holds at the start and through every step: a request    *)
(* that is served renews its call and evicts the oldest, no other does.    *)
THEOREM RecentInvariant == Spec => []CachesAreRecent
<1>0. ASSUME NEW p \in Procs PROVE Recent(<<>>, <<>>, 0)
  <2>1. <<>> \in Seq(CallIds) /\ Len(<<>>) = 0 /\ Range(<<>>) = {} /\ DOMAIN <<>> = {}
    BY EmptySeq, LenProperties DEF Range
  <2> QED
    BY <2>1, CallStartsAssumption DEF Recent, EachHasALast, Ordered, Newest
<1>1. Init => CachesAreRecent
  BY <1>0 DEF Init, CachesAreRecent
<1>2. CachesAreRecent /\ TypeOK /\ ClaimsAreOfCalls /\ [Next]_vars => CachesAreRecent'
  <2> SUFFICES ASSUME CachesAreRecent, TypeOK, ClaimsAreOfCalls, [Next]_vars
               PROVE  CachesAreRecent'
    OBVIOUS
  <2>1. ASSUME UNCHANGED <<cache, served>> PROVE CachesAreRecent'
    BY <2>1 DEF CachesAreRecent
  <2>2. ASSUME NEW p \in Procs, NEW c \in CallIds, NEW n, NEW kinds, Serve(p, c, n, kinds)
        PROVE  CachesAreRecent'
    <3>1. /\ cache' = [cache EXCEPT ![p] = Evicted(Renewed(@, c))]
          /\ served' = [served EXCEPT ![p] = Append(@, c)]
      BY <2>2 DEF Serve
    <3>2. cache[p] \in Seq(CallIds) /\ served[p] \in Seq(CallIds) /\ Recent(cache[p], served[p], 0)
      BY DEF TypeOK, CachesAreRecent
    <3>3. PICK r, s : r = Renewed(cache[p], c) /\ s = Append(served[p], c)
      OBVIOUS
    <3>4. Recent(r, s, 1)
      BY <3>2, <3>3, RenewedIsRecent
    <3>5. r \in Seq(CallIds) /\ s \in Seq(CallIds)
      BY <3>2, <3>3, RenewedEntries, AppendProperties
    <3>6. PICK e : e = Evicted(r)
      OBVIOUS
    <3>7. Recent(e, s, 0)
      BY <3>4, <3>5, <3>6, EvictedIsRecent
    <3>8. \A q \in Procs : /\ cache'[q] = IF q = p THEN e ELSE cache[q]
                           /\ served'[q] = IF q = p THEN s ELSE served[q]
      BY <3>1, <3>3, <3>6 DEF TypeOK
    <3>9. \A q \in Procs : Recent(cache'[q], served'[q], 0)
      <4> TAKE q \in Procs
      <4>1. CASE q = p
        BY <4>1, <3>7, <3>8
      <4>2. CASE q # p
        <5>1. cache'[q] = cache[q] /\ served'[q] = served[q]
          BY <4>2, <3>8
        <5> QED
          BY <5>1 DEF CachesAreRecent
      <4> QED
        BY <4>1, <4>2
    <3> QED
      BY <3>9 DEF CachesAreRecent
  <2>3. \A p \in Procs : turn[p].pc # "idle" => CallOf(p) \in CallIds
    BY DEF ClaimsAreOfCalls, CallOf
  <2>4. ASSUME NEW p \in Procs, NEW c \in CallIds, Request(p, c)
        PROVE  CachesAreRecent'
    BY <2>4, <2>1, <2>2 DEF Request
  <2>5. ASSUME NEW p \in Procs, CheckMarker(p)
        PROVE  CachesAreRecent'
    <3>1. CallOf(p) \in CallIds
      BY <2>3, <2>5 DEF CheckMarker, Claiming
    <3>2. CASE Serve(p, CallOf(p), turn[p].turn, {})
      BY <3>1, <3>2, <2>2
    <3>3. CASE UNCHANGED <<cache, served>>
      BY <3>3, <2>1
    <3> QED
      BY <2>5, <3>2, <3>3 DEF CheckMarker
  <2>6. ASSUME NEW p \in Procs, InsertMarker(p)
        PROVE  CachesAreRecent'
    <3>1. CallOf(p) \in CallIds
      BY <2>3, <2>6 DEF InsertMarker, Claiming
    <3>2. Serve(p, CallOf(p), turn[p].turn, {"call_started"})
      BY <2>6 DEF InsertMarker
    <3> QED
      BY <3>1, <3>2, <2>2
  <2>7. ASSUME NEW p \in Procs, ClaimFails(p)
        PROVE  CachesAreRecent'
    <3>1. UNCHANGED <<cache, served>>
      BY <2>7 DEF ClaimFails, CacheAfterFailure, TypeOK
    <3> QED
      BY <3>1, <2>1
  <2>8. ASSUME NEW p \in Procs, WriteAudit(p) \/ LoseAudit(p)
        PROVE  CachesAreRecent'
    BY <2>8, <2>1 DEF WriteAudit, LoseAudit
  <2>9. ASSUME NEW p \in Procs, Restart(p)
        PROVE  CachesAreRecent'
    <3>1. \A q \in Procs : \/ cache'[q] = <<>> /\ served'[q] = <<>>
                           \/ cache'[q] = cache[q] /\ served'[q] = served[q]
      BY <2>9 DEF Restart, TypeOK
    <3>2. \A q \in Procs : Recent(cache'[q], served'[q], 0)
      <4> TAKE q \in Procs
      <4>1. CASE cache'[q] = <<>> /\ served'[q] = <<>>
        BY <4>1, <1>0
      <4>2. CASE cache'[q] = cache[q] /\ served'[q] = served[q]
        BY <4>2 DEF CachesAreRecent
      <4> QED
        BY <4>1, <4>2, <3>1
    <3> QED
      BY <3>2 DEF CachesAreRecent
  <2>10. CASE UNCHANGED vars
    BY <2>10, <2>1 DEF vars
  <2> QED
    BY <2>4, <2>5, <2>6, <2>7, <2>8, <2>9, <2>10 DEF Next
<1>3. MarkInv => TypeOK /\ ClaimsAreOfCalls
  BY DEF MarkInv
<1> QED
  BY <1>1, <1>2, <1>3, MarkInvariant, PTL DEF Spec

(* An ordered cache has as many calls as entries.                          *)
LEMMA EntriesAreCounted ==
  ASSUME NEW S, NEW q \in Seq(S), NEW T, NEW s \in Seq(T), Recent(q, s, 0)
  PROVE  Cardinality(Range(q)) = Len(q)
<1>1. Len(q) \in Nat /\ q \in [1..Len(q) -> S] /\ Range(q) = {q[i] : i \in 1..Len(q)}
  BY LenProperties, RangeEquality
<1>2. \A i, j \in 1..Len(q) : q[i] = q[j] => i = j
  BY OrderedIsDistinct
<1>3. q \in Bijection(1..Len(q), Range(q))
  BY <1>1, <1>2 DEF Bijection, Injection, Surjection, IsInjective
<1>4. IsFiniteSet(1..Len(q)) /\ Cardinality(1..Len(q)) = Len(q)
  <2>1. PICK n \in Nat : n = Len(q)
    BY <1>1
  <2>2. Cardinality(1..n) = IF 1 > n THEN 0 ELSE n - 1 + 1
    BY FS_Interval
  <2>3. IsFiniteSet(1..n) /\ Cardinality(1..n) = n
    BY <2>2, FS_Interval
  <2> QED
    BY <2>1, <2>3
<1> QED
  BY <1>3, <1>4, FS_Bijection DEF ExistsBijection

(* The smaller of two numbers is the one Min takes.                        *)
LEMMA MinOfTwo ==
  ASSUME NEW a \in Nat, NEW b \in Nat
  PROVE  Min({a, b}) = IF a <= b THEN a ELSE b
<1> DEFINE m == IF a <= b THEN a ELSE b
<1>1. m \in {a, b} /\ \A y \in {a, b} : m <= y
  OBVIOUS
<1>2. \A x \in {a, b} : (\A y \in {a, b} : x <= y) => x = m
  OBVIOUS
<1> QED
  BY <1>1, <1>2 DEF Min

(* The cache is what an LRU cache should be: the CacheSize calls served    *)
(* last, in the order in which they were served last.                      *)
THEOREM CachesTheNewest == Spec => []CacheIsLeastRecentlyUsed
<1>1. CachesAreRecent /\ TypeOK => CacheIsLeastRecentlyUsed
  <2> SUFFICES ASSUME CachesAreRecent, TypeOK, NEW p \in Procs
               PROVE  /\ Cardinality(Range(cache[p])) = Min({Cardinality(Range(served[p])), CacheSize})
                      /\ Ordered(cache[p], served[p])
                      /\ Newest(cache[p], served[p])
    BY DEF CacheIsLeastRecentlyUsed
  <2>1. PICK q, s : q = cache[p] /\ s = served[p]
    OBVIOUS
  <2>2. q \in Seq(CallIds) /\ s \in Seq(CallIds) /\ Recent(q, s, 0)
    BY <2>1 DEF TypeOK, CachesAreRecent
  <2>3. Cardinality(Range(q)) = Len(q) /\ Len(q) \in Nat /\ CacheSize \in Nat
    BY <2>2, EntriesAreCounted, LenProperties, CallStartsAssumption
  <2>4. IsFiniteSet(Range(s)) /\ Cardinality(Range(s)) \in Nat
    <3>1. Len(s) \in Nat /\ s \in [1..Len(s) -> CallIds] /\ Range(s) = {s[i] : i \in 1..Len(s)}
      BY <2>2, LenProperties, RangeEquality
    <3>2. s \in Surjection(1..Len(s), Range(s))
      BY <3>1 DEF Surjection
    <3> QED
      BY <3>1, <3>2, FS_Interval, FS_Surjection, FS_CardinalityType
  <2>5. Range(q) \subseteq Range(s) /\ Len(q) <= CacheSize
    BY <2>2, <2>3 DEF Recent
  <2>6. Cardinality(Range(q)) <= Cardinality(Range(s))
    BY <2>4, <2>5, FS_Subset
  <2>7. CacheSize <= Len(q) \/ Range(s) = Range(q)
    BY <2>2, <2>5 DEF Recent
  <2>8. Cardinality(Range(q)) = Min({Cardinality(Range(s)), CacheSize})
    BY <2>3, <2>4, <2>5, <2>6, <2>7, MinOfTwo
  <2> QED
    BY <2>1, <2>2, <2>8 DEF Recent
<1>2. MarkInv => TypeOK
  BY DEF MarkInv
<1> QED
  BY <1>1, <1>2, MarkInvariant, RecentInvariant, PTL
==============================================================================
