----------------------------- MODULE TenancyProofs -----------------------------
(***************************************************************************)
(* For every set of tenants, calls, entries and writers: the policy        *)
(* look-ups fail closed and read the call's own tenant, and the            *)
(* organization record keeps what its writers saved.                       *)
(***************************************************************************)
EXTENDS Tenancy, WellFoundedInduction, TLAPS

Pasts == {"new", "open", "completed", "undone"}

PolicyType ==
    /\ entries \in Seq(Entries)
    /\ issuer \in [CallIds -> TenantIds]
    /\ calls \in [CallIds -> Row]
    /\ work \in [CallIds -> Attempt]
    /\ chats \in [CallIds -> SUBSET TenantIds]
    /\ past \in [CallIds -> Pasts]

(*------------------------------ the look-ups ----------------------------*)

(* The first position in a file is a position in it.                       *)
LEMMA FirstOf ==
    ASSUME NEW I, I \subseteq Nat, I # {}
    PROVE  Min(I) \in I
<1>1. PICK x \in I : \A y \in I : ~(<<y, x>> \in OpToRel(<, Nat))
  BY NatLessThanWellFounded, WFMin
<1>2. \A y \in I : x <= y
  <2> SUFFICES ASSUME NEW y \in I PROVE x <= y
    OBVIOUS
  <2>1. x \in Nat /\ y \in Nat /\ ~(y < x)
    BY <1>1 DEF OpToRel
  <2> QED BY <2>1
<1> QED BY <1>2 DEF Min

(* What is in the file was given by Entries.                               *)
LEMMA EntryTypes ==
    ASSUME PolicyType, NEW i \in DOMAIN entries
    PROVE  /\ entries[i] \in Entries /\ i \in Nat \ {0}
           /\ entries[i].tenant \in TenantIds
           /\ entries[i].fields \in FieldSets \cup {NoFields}
<1>1. entries \in Seq(Entries)
  BY DEF PolicyType
<1>2. entries[i] \in Entries /\ i \in Nat \ {0}
  BY <1>1
<1>3. entries[i] \in Entry
  BY <1>2, PoliciesAssumption
<1> QED BY <1>2, <1>3 DEF Entry

(* A look-up finds the first entry that matches, or nothing when no entry  *)
(* does.                                                                   *)
LEMMA Positions ==
    ASSUME PolicyType
    PROVE  /\ \A t : ById(t) # 0 => ById(t) \in DOMAIN entries /\ entries[ById(t)].tenant = t
           /\ \A t : ById(t) = 0 => \A i \in DOMAIN entries : entries[i].tenant # t
           /\ \A a : ByAssistant(a) # 0 => ByAssistant(a) \in DOMAIN entries
<1>0. DOMAIN entries = 1..Len(entries) /\ Len(entries) \in Nat
  BY DEF PolicyType
<1>1. ASSUME NEW t
      PROVE  /\ ById(t) # 0 => ById(t) \in DOMAIN entries /\ entries[ById(t)].tenant = t
             /\ ById(t) = 0 => \A i \in DOMAIN entries : entries[i].tenant # t
  <2> DEFINE I == {i \in 1..Len(entries) : entries[i].tenant = t}
  <2>1. ById(t) = IF I # {} THEN Min(I) ELSE 0
    BY DEF ById, SelectInSeq
  <2>2. I # {} => Min(I) \in I
    <3>1. I \subseteq Nat
      BY <1>0
    <3> HIDE DEF I
    <3> QED BY <3>1, FirstOf
  <2>3. 0 \notin I
    BY <1>0
  <2> QED BY <1>0, <2>1, <2>2, <2>3
<1>2. ASSUME NEW a
      PROVE  ByAssistant(a) # 0 => ByAssistant(a) \in DOMAIN entries
  <2> DEFINE I == {i \in 1..Len(entries) : entries[i].assistant = a}
  <2>1. ByAssistant(a) = IF I # {} THEN Min(I) ELSE 0
    BY DEF ByAssistant, SelectInSeq
  <2>2. I # {} => Min(I) \in I
    <3>1. I \subseteq Nat
      BY <1>0
    <3> HIDE DEF I
    <3> QED BY <3>1, FirstOf
  <2> QED BY <1>0, <2>1, <2>2
<1> QED BY <1>1, <1>2

(* The validation of the whole file passes exactly when the file grants    *)
(* something.                                                              *)
LEMMA Validation ==
    ASSUME PolicyType
    PROVE  IF Validate = "ok"
           THEN \A i \in DOMAIN entries : entries[i].verdict = "ok"
           ELSE Given(entries) = {}
<1> DEFINE I == {i \in 1..Len(entries) : entries[i].verdict # "ok"}
           bad == SelectInSeq(entries, LAMBDA e : e.verdict # "ok")
<1>0. DOMAIN entries = 1..Len(entries) /\ Len(entries) \in Nat
  BY DEF PolicyType
<1>1. bad = IF I # {} THEN Min(I) ELSE 0
  BY DEF SelectInSeq
<1>2. I # {} => Min(I) \in I
  <2>1. I \subseteq Nat
    BY <1>0
  <2> HIDE DEF I
  <2> QED BY <2>1, FirstOf
<1>3. 0 \notin I
  BY <1>0
<1>4. Validate = IF entries = <<>> THEN "ValueError"
                 ELSE IF bad = 0 THEN "ok" ELSE entries[bad].verdict
  BY DEF Validate
<1>5. CASE entries = <<>>
  <2>1. DOMAIN entries = {}
    BY <1>5
  <2>2. Given(entries) = {}
    BY <2>1 DEF Given
  <2> QED BY <1>4, <1>5, <2>2
<1>6. CASE entries # <<>> /\ I = {}
  BY <1>0, <1>6, <1>1, <1>4
<1>7. CASE entries # <<>> /\ I # {}
  <2>1. bad \in I
    BY <1>1, <1>2, <1>7
  <2>2. bad # 0 /\ bad \in DOMAIN entries /\ entries[bad].verdict # "ok"
    BY <1>0, <1>3, <2>1
  <2>3. Validate # "ok"
    BY <1>4, <1>7, <2>2
  <2> QED BY <2>2, <2>3 DEF Given
<1> QED BY <1>5, <1>6, <1>7

(* What a look-up finds, an approved file gives.                           *)
LEMMA FoundIsGiven ==
    ASSUME PolicyType, NEW i \in DOMAIN entries, Validate = "ok"
    PROVE  <<entries[i].tenant, entries[i].fields>> \in Given(entries)
BY Validation DEF Given

(* Unless the tenant has lapsed it is found, and with fields.              *)
LEMMA UnlapsedHasFields ==
    ASSUME PolicyType, NEW t, ~Lapses(t, entries)
    PROVE  FieldsOf(t) # NoFields
<1>1. PICK g \in Given(entries) : g[1] = t
  BY DEF Lapses
<1>2. <<t, NoFields>> \notin Given(entries)
  BY DEF Lapses
<1>3. Validate = "ok"
  BY <1>1, Validation
<1>4. PICK i \in DOMAIN entries : g = <<entries[i].tenant, entries[i].fields>>
  BY <1>1 DEF Given
<1>5. ById(t) # 0
  BY <1>1, <1>4, Positions
<1>6. ById(t) \in DOMAIN entries /\ entries[ById(t)].tenant = t
  BY <1>5, Positions
<1>7. entries[ById(t)].fields # NoFields
  BY <1>2, <1>3, <1>6, FoundIsGiven
<1> QED BY <1>3, <1>5, <1>7 DEF FieldsOf, Found

(* What the analysis asks for was given to the tenant, or is nothing.      *)
LEMMA FieldsAreGiven ==
    ASSUME PolicyType, NEW t
    PROVE  /\ FieldsOf(t) \in FieldSets \cup {NoFields}
           /\ FieldsOf(t) # NoFields => <<t, FieldsOf(t)>> \in Given(entries)
<1>1. CASE Found(ById(t))
  <2>1. ById(t) \in DOMAIN entries /\ entries[ById(t)].tenant = t /\ Validate = "ok"
    BY <1>1, Positions DEF Found
  <2>2. FieldsOf(t) = entries[ById(t)].fields
    BY <1>1 DEF FieldsOf
  <2> QED BY <2>1, <2>2, EntryTypes, FoundIsGiven
<1>2. CASE ~Found(ById(t))
  BY <1>2 DEF FieldsOf
<1> QED BY <1>1, <1>2

(*-------------------------- policies and calls --------------------------*)

(* What the histories say of one call: a tenant that lapsed since the call *)
(* was first accepted is excused at once, so whoever is not excused is     *)
(* found by the next look-up.                                              *)
CallInv(c) ==
    /\ past[c] # "new" /\ c \notin excused => ~Lapses(issuer[c], entries)
    /\ work[c].pc # "idle" \/ calls[c].status # "absent" => past[c] # "new"
    /\ calls[c].analysed /\ calls[c].fields = NoFields => c \in excused
    /\ work[c].pc = "analysed" /\ work[c].fields = NoFields => c \in excused
    /\ calls[c].tenant \in {issuer[c], NoTenant}
    /\ calls[c].provider # "none" => calls[c].tenant = issuer[c] /\ calls[c].status # "absent"
    /\ past[c] = "completed" => calls[c].status = "completed" /\ calls[c].tenant = issuer[c]
    /\ calls[c].status = "completed" /\ calls[c].tenant # NoTenant
         => past[c] \in {"completed", "undone"}

PolicyInv ==
    /\ Given(entries) \subseteq inForce
    /\ FieldsWereInForce
    /\ \A c \in CallIds : CallInv(c)
    /\ ServedTenantsWereApproved

LEMMA NoRowType == NoRow \in Row /\ NoAttempt \in Attempt
BY DEF NoRow, Row, NoAttempt, Attempt

(* At first nothing is in force and there are no calls.                    *)
LEMMA InitPolicy == TenancyInit => PolicyType /\ PolicyInv
<1> SUFFICES ASSUME TenancyInit PROVE PolicyType /\ PolicyInv
  OBVIOUS
<1>1. PolicyType
  BY NoRowType DEF TenancyInit, Init, PolicyType, Pasts
<1>2. /\ entries = <<>> /\ inForce = {}
      /\ \A c \in CallIds : /\ calls[c] = NoRow /\ work[c] = NoAttempt /\ chats[c] = {}
                            /\ past[c] = "new"
  BY DEF TenancyInit, Init
<1>3. DOMAIN entries = {}
  BY <1>2
<1>4. Given(entries) = {}
  BY <1>3 DEF Given
<1>5. \A c \in CallIds : CallInv(c)
  BY <1>2 DEF CallInv, NoRow, NoAttempt
<1> QED BY <1>1, <1>2, <1>4, <1>5
      DEF PolicyInv, FieldsWereInForce, ServedTenantsWereApproved, NoRow, NoAttempt

(* Any edit leaves a file made of Entries.                                 *)
LEMMA EditType == ASSUME PolicyType, NEW es \in Files, Edit(es) PROVE PolicyType'
<1>1. PICK n \in 0..MaxEntries : es \in [1..n -> Entries]
  BY DEF Files
<1>2. n \in Nat /\ es \in Seq(Entries)
  BY <1>1, PoliciesAssumption
<1> QED BY <1>2 DEF Edit, PolicyType

(* An edit: what it grants is in force, and whom it lapses is excused.     *)
LEMMA EditKeeps ==
    ASSUME PolicyType, PolicyInv, NEW es \in Files, Edit(es), UNCHANGED orgVars
    PROVE  PolicyInv'
<1>2. /\ entries' = es /\ inForce' = inForce \cup Given(es)
      /\ UNCHANGED <<issuer, calls, work, chats, past>>
      /\ \A c \in CallIds : c \in excused'
           <=> c \in excused \/ (past[c] # "new" /\ Lapses(issuer[c], es))
  BY DEF Edit
<1>3. Given(entries)' \subseteq inForce'
  BY <1>2
<1>4. FieldsWereInForce'
  BY <1>2 DEF PolicyInv, FieldsWereInForce
<1>5. ServedTenantsWereApproved'
  BY <1>2 DEF PolicyInv, ServedTenantsWereApproved, Registered, orgVars
<1>6. ASSUME NEW c \in CallIds PROVE CallInv(c)'
  <2>1. CallInv(c)
    BY DEF PolicyInv
  <2>2. Lapses(issuer[c], entries)' <=> Lapses(issuer[c], es)
    BY <1>2
  <2> QED BY <1>2, <2>1, <2>2 DEF CallInv
<1> QED BY <1>3, <1>4, <1>5, <1>6 DEF PolicyInv

(* A step that sets one row, and what the new row must satisfy.            *)
LEMMA RowKeeps ==
    ASSUME PolicyType, PolicyInv, UNCHANGED orgVars,
           NEW c \in CallIds, NEW row \in Row, SetRow(c, row), excused \subseteq excused',
           work' = work \/ \E pc \in {"idle", "reporting"} : SetWork(c, pc, NoFields),
           row.fields # NoFields => <<issuer[c], row.fields>> \in inForce,
           c \notin excused' => ~Lapses(issuer[c], entries),
           row.analysed /\ row.fields = NoFields => c \in excused',
           row.tenant \in {issuer[c], NoTenant},
           row.provider # "none" => row.tenant = issuer[c] /\ row.status # "absent",
           row.provider = "vapi" => \E g \in inForce : g[1] = row.tenant,
           row.provider = "call_center" => Registered(row.tenant)
    PROVE  PolicyType' /\ PolicyInv'
<1>1. /\ UNCHANGED <<entries, issuer, chats, inForce, orgs>>
      /\ calls' = [calls EXCEPT ![c] = row]
      /\ past' = [past EXCEPT ![c] = PastOf(past[c], row)]
  BY DEF SetRow, orgVars
<1>2. /\ calls'[c] = row /\ \A d \in CallIds \ {c} : calls'[d] = calls[d]
      /\ past'[c] = PastOf(past[c], row) /\ \A d \in CallIds \ {c} : past'[d] = past[d]
  BY <1>1 DEF PolicyType
<1>3. /\ work' \in [CallIds -> Attempt] /\ \A d \in CallIds \ {c} : work'[d] = work[d]
      /\ work'[c] = work[c] \/ (work'[c].fields = NoFields /\ work'[c].pc # "analysed")
  BY DEF PolicyType, SetWork, Attempt
<1>4. PastOf(past[c], row) \in Pasts \ {"new"}
  BY DEF PastOf, PolicyType, Pasts
<1>5. PolicyType'
  BY <1>1, <1>3, <1>4 DEF PolicyType
<1>6. Given(entries)' = Given(entries)
  BY <1>1
<1>7. FieldsWereInForce'
  <2> SUFFICES ASSUME NEW d \in CallIds, NEW f \in {work'[d].fields, calls'[d].fields} \ {NoFields}
               PROVE  <<issuer[d], f>> \in inForce
    BY <1>1 DEF FieldsWereInForce
  <2>1. \A g \in {work[d].fields, calls[d].fields} \ {NoFields} : <<issuer[d], g>> \in inForce
    BY DEF PolicyInv, FieldsWereInForce
  <2> QED BY <1>2, <1>3, <2>1
<1>8. ServedTenantsWereApproved'
  BY <1>1, <1>2 DEF PolicyInv, ServedTenantsWereApproved, Registered
<1>9. ASSUME NEW d \in CallIds PROVE CallInv(d)'
  <2>1. CallInv(d)
    BY DEF PolicyInv
  <2>2. Lapses(issuer[d], entries)' <=> Lapses(issuer[d], entries)
    BY <1>1
  <2>3. CASE d # c
    BY <1>1, <1>2, <1>3, <2>1, <2>2, <2>3 DEF CallInv
  <2>4. CASE d = c
    <3>1. past'[d] # "new" /\ issuer'[d] = issuer[d] /\ calls'[d] = row
      BY <1>1, <1>2, <1>4, <2>4
    <3>2. /\ past'[d] = "completed" => row.status = "completed" /\ row.tenant # NoTenant
          /\ row.status = "completed" /\ row.tenant # NoTenant
               => past'[d] \in {"completed", "undone"}
      BY <1>2, <2>4 DEF PastOf
    <3>3. work'[d].pc = "analysed" /\ work'[d].fields = NoFields => d \in excused'
      BY <1>3, <2>1, <2>4 DEF CallInv
    <3> QED BY <2>2, <2>4, <3>1, <3>2, <3>3 DEF CallInv
  <2> QED BY <2>3, <2>4
<1> QED BY <1>1, <1>5, <1>6, <1>7, <1>8, <1>9 DEF PolicyInv

(* A call enters with the tenant that its look-up approved of.             *)
LEMMA EnterKeeps ==
    ASSUME PolicyType, PolicyInv, UNCHANGED orgVars, NEW c \in CallIds, NEW t \in TenantIds,
           NEW provider \in {"vapi", "call_center"}, NEW status \in {"open", "completed"},
           Enter(c, t, provider, status),
           provider = "vapi" => \E g \in inForce : g[1] = t,
           provider = "call_center" => Registered(t)
    PROVE  PolicyType' /\ PolicyInv'
<1> DEFINE row == [NoRow EXCEPT !.status = status, !.tenant = t, !.provider = provider]
<1>1. /\ row \in Row /\ row.status = status /\ row.tenant = t /\ row.provider = provider
      /\ row.fields = NoFields /\ row.analysed = FALSE
  BY DEF NoRow, Row
<1>2. /\ SetRow(c, row) /\ t = issuer[c] /\ work' = work
      /\ excused' = IF Lapses(t, entries) THEN excused \cup {c} ELSE excused
  BY DEF Enter
<1> HIDE DEF row
<1> QED BY <1>1, <1>2, RowKeeps

(* The row of a call that was accepted is rewritten, by whomever.          *)
LEMMA RewriteKeeps ==
    ASSUME PolicyType, PolicyInv, UNCHANGED orgVars, NEW c \in CallIds,
           \/ \E status \in {"open", "completed"} : LaterEvent(c, status)
           \/ Erase(c) \/ Complete(c) \/ AttemptFails(c)
    PROVE  PolicyType' /\ PolicyInv'
<1>0. calls[c] \in Row /\ work[c] \in Attempt /\ issuer[c] \in TenantIds /\ CallInv(c)
  BY DEF PolicyType, PolicyInv
<1>1. UNCHANGED excused
  BY DEF LaterEvent, Erase, Complete, AttemptFails
<1>2. c \notin excused => ~Lapses(issuer[c], entries)
  <2>1. work[c].pc # "idle" \/ calls[c].status # "absent" \/ calls[c].provider # "none"
    BY DEF LaterEvent, Erase, Complete, AttemptFails
  <2>2. calls[c].provider # "none" => calls[c].status # "absent"
    BY DEF PolicyInv, CallInv
  <2> QED BY <1>0, <2>1, <2>2 DEF CallInv
<1>3. /\ calls[c].fields # NoFields => <<issuer[c], calls[c].fields>> \in inForce
      /\ work[c].fields # NoFields => <<issuer[c], work[c].fields>> \in inForce
      /\ calls[c].provider = "vapi" => \E g \in inForce : g[1] = calls[c].tenant
      /\ calls[c].provider = "call_center" => Registered(calls[c].tenant)
  BY DEF PolicyInv, FieldsWereInForce, ServedTenantsWereApproved
<1>4. CASE \E status \in {"open", "completed"} : LaterEvent(c, status)
  <2>1. PICK status \in {"open", "completed"} : LaterEvent(c, status)
    BY <1>4
  <2> DEFINE row == [calls[c] EXCEPT !.status = status]
  <2>2. SetRow(c, row) /\ work' = work
    BY <2>1 DEF LaterEvent
  <2>3. /\ row \in Row /\ row.tenant = calls[c].tenant /\ row.provider = calls[c].provider
        /\ row.fields = calls[c].fields /\ row.analysed = calls[c].analysed
        /\ row.status # "absent"
    BY <1>0 DEF Row
  <2> HIDE DEF row
  <2> QED BY <1>0, <1>1, <1>2, <1>3, <2>2, <2>3, RowKeeps DEF CallInv
<1>5. CASE Erase(c)
  <2>1. SetRow(c, NoRow) /\ work' = work
    BY <1>5 DEF Erase
  <2>2. /\ NoRow \in Row /\ NoRow.tenant = NoTenant /\ NoRow.provider = "none"
        /\ NoRow.fields = NoFields /\ NoRow.analysed = FALSE
    BY NoRowType DEF NoRow
  <2> QED BY <1>0, <1>1, <1>2, <2>1, <2>2, RowKeeps
<1>6. CASE Complete(c)
  <2> DEFINE row == [calls[c] EXCEPT !.status = "completed", !.analysed = TRUE,
                                     !.fields = work[c].fields]
  <2>1. SetRow(c, row) /\ SetWork(c, "reporting", NoFields) /\ work[c].pc = "analysed"
    BY <1>6 DEF Complete
  <2>2. /\ row \in Row /\ row.tenant = calls[c].tenant /\ row.provider = calls[c].provider
        /\ row.fields = work[c].fields /\ row.status # "absent"
    BY <1>0 DEF Row, Attempt
  <2> HIDE DEF row
  <2> QED BY <1>0, <1>1, <1>2, <1>3, <2>1, <2>2, RowKeeps DEF CallInv
<1>7. CASE AttemptFails(c)
  <2> DEFINE row == [calls[c] EXCEPT !.status = "open"]
  <2>1. SetRow(c, row) /\ SetWork(c, "idle", NoFields)
    BY <1>7 DEF AttemptFails
  <2>2. /\ row \in Row /\ row.tenant = calls[c].tenant /\ row.provider = calls[c].provider
        /\ row.fields = calls[c].fields /\ row.analysed = calls[c].analysed
        /\ row.status # "absent"
    BY <1>0 DEF Row
  <2> HIDE DEF row
  <2> QED BY <1>0, <1>1, <1>2, <1>3, <2>1, <2>2, RowKeeps DEF CallInv
<1> QED BY <1>4, <1>5, <1>6, <1>7

(* An attempt beside the row: only Analyse looks anything up.              *)
LEMMA WorkKeeps ==
    ASSUME PolicyType, PolicyInv, UNCHANGED orgVars, NEW c \in CallIds,
           Load(c) \/ Analyse(c) \/ AttemptEnds(c)
    PROVE  PolicyType' /\ PolicyInv'
<1>0. CallInv(c) /\ UNCHANGED <<entries, issuer, calls, chats, inForce, excused, past, orgs>>
  BY DEF PolicyInv, Load, Analyse, AttemptEnds, orgVars
<1>1. PICK pc, f :
        /\ SetWork(c, pc, f) /\ pc \in {"idle", "loaded", "analysed"} /\ f \in FieldSets \cup {NoFields}
        /\ f # NoFields => <<issuer[c], f>> \in inForce
        /\ pc = "analysed" /\ f = NoFields => c \in excused
        /\ pc # "idle" => past[c] # "new"
  <2>1. CASE Load(c)
    BY <1>0, <2>1 DEF Load, CallInv
  <2>2. CASE Analyse(c)
    <3> DEFINE f == FieldsOf(issuer[c])
    <3>1. past[c] # "new" /\ (c \notin excused => ~Lapses(issuer[c], entries))
      BY <1>0, <2>2 DEF Analyse, CallInv
    <3>2. f \in FieldSets \cup {NoFields} /\ (f # NoFields => <<issuer[c], f>> \in inForce)
      BY FieldsAreGiven DEF PolicyInv
    <3>3. f = NoFields => c \in excused
      BY <3>1, UnlapsedHasFields
    <3>4. SetWork(c, "analysed", f)
      BY <2>2 DEF Analyse
    <3> HIDE DEF f
    <3> QED BY <3>1, <3>2, <3>3, <3>4
  <2>3. CASE AttemptEnds(c)
    BY <2>3 DEF AttemptEnds
  <2> QED BY <2>1, <2>2, <2>3
<1>2. /\ work' \in [CallIds -> Attempt] /\ \A d \in CallIds \ {c} : work'[d] = work[d]
      /\ work'[c].pc = pc /\ work'[c].fields = f
  BY <1>1 DEF PolicyType, SetWork, Attempt
<1>3. PolicyType'
  BY <1>0, <1>2 DEF PolicyType
<1>4. FieldsWereInForce'
  <2> SUFFICES ASSUME NEW d \in CallIds, NEW g \in {work'[d].fields, calls[d].fields} \ {NoFields}
               PROVE  <<issuer[d], g>> \in inForce
    BY <1>0 DEF FieldsWereInForce
  <2>1. \A h \in {work[d].fields, calls[d].fields} \ {NoFields} : <<issuer[d], h>> \in inForce
    BY DEF PolicyInv, FieldsWereInForce
  <2> QED BY <1>1, <1>2, <2>1
<1>5. ServedTenantsWereApproved'
  BY <1>0 DEF PolicyInv, ServedTenantsWereApproved, Registered
<1>6. ASSUME NEW d \in CallIds PROVE CallInv(d)'
  <2>1. CallInv(d)
    BY DEF PolicyInv
  <2>2. Lapses(issuer[d], entries)' <=> Lapses(issuer[d], entries)
    BY <1>0
  <2>3. /\ work'[d].pc # "idle" => past[d] # "new"
        /\ work'[d].pc = "analysed" /\ work'[d].fields = NoFields => d \in excused
    BY <1>1, <1>2, <2>1 DEF CallInv
  <2> QED BY <1>0, <2>1, <2>2, <2>3 DEF CallInv
<1>7. Given(entries)' = Given(entries) /\ inForce' = inForce
  BY <1>0
<1> QED BY <1>3, <1>4, <1>5, <1>6, <1>7 DEF PolicyInv

(* A turn is answered for the tenant of the entry it found.                *)
LEMMA ChatKeeps ==
    ASSUME PolicyType, PolicyInv, UNCHANGED orgVars, NEW c \in CallIds, NEW a, Chat(c, a)
    PROVE  PolicyType' /\ PolicyInv'
<1> DEFINE i == ByAssistant(a)
<1>1. i \in DOMAIN entries /\ Validate = "ok"
  BY Positions DEF Chat, Found
<1>2. <<entries[i].tenant, entries[i].fields>> \in inForce /\ entries[i].tenant \in TenantIds
  BY <1>1, FoundIsGiven, EntryTypes DEF PolicyInv
<1>3. /\ UNCHANGED <<entries, issuer, calls, work, inForce, excused, past, orgs>>
      /\ chats' = [chats EXCEPT ![c] = @ \cup {entries[i].tenant}]
  BY DEF Chat, orgVars
<1> HIDE DEF i
<1>4. PolicyType'
  BY <1>2, <1>3 DEF PolicyType
<1>5. ServedTenantsWereApproved'
  <2> SUFFICES ASSUME NEW d \in CallIds
               PROVE  /\ \A t \in chats'[d] \cup (IF calls[d].provider = "vapi" THEN {calls[d].tenant} ELSE {}) :
                            \E g \in inForce : g[1] = t
                      /\ calls[d].provider = "call_center" => Registered(calls[d].tenant)
    BY <1>3 DEF ServedTenantsWereApproved, Registered
  <2>1. chats'[d] \subseteq chats[d] \cup {entries[i].tenant}
    BY <1>3 DEF PolicyType
  <2>2. \E g \in inForce : g[1] = entries[i].tenant
    BY <1>2
  <2> QED BY <2>1, <2>2 DEF PolicyInv, ServedTenantsWereApproved
<1>6. ASSUME NEW d \in CallIds PROVE CallInv(d)'
  <2>1. CallInv(d)
    BY DEF PolicyInv
  <2>2. Lapses(issuer[d], entries)' <=> Lapses(issuer[d], entries)
    BY <1>3
  <2> QED BY <1>3, <2>1, <2>2 DEF CallInv
<1>7. FieldsWereInForce' /\ Given(entries)' \subseteq inForce'
  BY <1>3 DEF PolicyInv, FieldsWereInForce
<1> QED BY <1>4, <1>5, <1>6, <1>7 DEF PolicyInv

(*------------------------------ organizations ---------------------------*)

Writing ==
    [pc : {"idle", "read", "write"}, tenant : TenantIds \cup {NoOrganization},
     set : {"profile", "guidance"},
     new : Organization, seen : Organization \cup {NoOrganization}]

OrgType ==
    /\ orgs \in [TenantIds -> Organization \cup {NoOrganization}]
    /\ writing \in [Writers -> Writing]
    /\ \A w \in Writers : writing[w].pc # "idle" => writing[w].tenant \in TenantIds
    /\ begun \in 0..MaxWrites
    /\ latest \in [TenantIds -> Organization]

Busy(w, t) == writing[w].pc # "idle" /\ writing[w].tenant = t

(* The calls that were ever completed for their tenant, and those that are *)
(* so no more.                                                             *)
Once(t) == {c \in CallIds : issuer[c] = t /\ past[c] \in {"completed", "undone"}}
Undone  == {c \in CallIds : past[c] = "undone"}

LEMMA CompletedOrUndone ==
    ASSUME PolicyType, PolicyInv, NEW t \in TenantIds
    PROVE  Completed(t) \subseteq Once(t) /\ Once(t) \subseteq Completed(t) \cup Undone
<1>1. t # NoTenant
  BY PoliciesAssumption
<1>2. \A c \in CallIds : CallInv(c)
  BY DEF PolicyInv
<1>3. ASSUME NEW c \in Completed(t) PROVE c \in Once(t)
  <2>1. c \in CallIds /\ calls[c].tenant = t /\ calls[c].status = "completed"
    BY DEF Completed
  <2> QED BY <1>1, <1>2, <2>1 DEF CallInv, Once
<1>4. ASSUME NEW c \in Once(t), c \notin Undone PROVE c \in Completed(t)
  <2>1. c \in CallIds /\ issuer[c] = t /\ past[c] = "completed"
    BY <1>4 DEF Once, Undone
  <2> QED BY <1>2, <2>1 DEF CallInv, Completed
<1> QED BY <1>3, <1>4

(* As long as nobody overlapped, a tenant has one writer and that writer   *)
(* holds the record as it is; a summary lacks nothing of the one stored    *)
(* that is still true.                                                     *)
OrgInv ==
    /\ \A v, w \in Writers : \A t \in TenantIds \ overlapped : Busy(v, t) /\ Busy(w, t) => v = w
    /\ \A w \in Writers : \A t \in TenantIds \ overlapped :
         /\ Busy(w, t) /\ writing[w].pc = "write" => writing[w].seen = orgs[t]
         /\ Busy(w, t) /\ writing[w].set = "guidance" => PromptGuidance(t) \subseteq writing[w].new.guidance \cup Undone
    /\ \A w \in Writers : \A t \in TenantIds : Busy(w, t) =>
         /\ writing[w].new.guidance \subseteq Once(t)
         /\ writing[w].seen # NoOrganization => writing[w].seen.guidance \subseteq Once(t)
    /\ SavedFieldsStay
    /\ \A t \in TenantIds : PromptGuidance(t) \subseteq Once(t)

(* Guidance within the calls its tenant once completed is its own.         *)
LEMMA OwnGuidance ==
    ASSUME OrgInv PROVE GuidanceIsTheTenantsOwn
BY DEF OrgInv, GuidanceIsTheTenantsOwn, Once

LEMMA NewOrgType == NewOrganization \in Organization /\ NewOrganization.guidance = {}
<1>1. 0 \in 0..MaxWrites
  BY OrganizationsAssumption
<1> QED BY <1>1 DEF NewOrganization, Organization

(* At first there are no records and no writers.                           *)
LEMMA InitOrgs == TenancyInit => OrgType /\ OrgInv
<1> SUFFICES ASSUME TenancyInit PROVE OrgType /\ OrgInv
  OBVIOUS
<1>1. /\ orgs = [t \in TenantIds |-> NoOrganization]
      /\ writing = [w \in Writers |-> IdleWriter]
      /\ begun = 0 /\ overlapped = {}
      /\ latest = [t \in TenantIds |-> NewOrganization]
  BY DEF TenancyInit, OrganizationsInit
<1>2. IdleWriter \in Writing /\ IdleWriter.pc = "idle"
  BY NewOrgType DEF IdleWriter, Writing
<1>3. OrgType
  <2>1. begun \in 0..MaxWrites
    BY <1>1, OrganizationsAssumption
  <2> QED BY <1>1, <1>2, <2>1, NewOrgType DEF OrgType
<1>4. OrgInv
  BY <1>1, <1>2 DEF OrgInv, Busy, SavedFieldsStay, PromptGuidance, Registered
<1> QED BY <1>3, <1>4

CallStep ==
    \/ Next
    \/ \E c \in CallIds, t \in TenantIds : AcceptBridged(c, t)

(* Calls move on beside the writers: what was completed once was, and what *)
(* was undone stays so.                                                    *)
LEMMA HistoryGrows ==
    ASSUME PolicyType, CallStep
    PROVE  (\A t \in TenantIds : Once(t) \subseteq Once(t)') /\ Undone \subseteq Undone'
<1>1. /\ issuer' = issuer
      /\ \A c \in CallIds : /\ past[c] = "undone" => past'[c] = "undone"
                            /\ past[c] = "completed" => past'[c] \in {"completed", "undone"}
  <2>1. ASSUME NEW es \in Files, Edit(es) PROVE issuer' = issuer /\ past' = past
    BY <2>1 DEF Edit
  <2>2. ASSUME NEW d \in CallIds, NEW row, SetRow(d, row)
        PROVE  /\ issuer' = issuer
               /\ \A c \in CallIds : /\ past[c] = "undone" => past'[c] = "undone"
                                     /\ past[c] = "completed" => past'[c] \in {"completed", "undone"}
    <3>1. /\ issuer' = issuer /\ past'[d] = PastOf(past[d], row)
          /\ \A c \in CallIds \ {d} : past'[c] = past[c]
      BY <2>2 DEF SetRow, PolicyType
    <3>2. /\ past[d] = "undone" => PastOf(past[d], row) = "undone"
          /\ past[d] = "completed" => PastOf(past[d], row) \in {"completed", "undone"}
      BY DEF PastOf
    <3> QED BY <3>1, <3>2
  <2>3. ASSUME NEW c \in CallIds, NEW t \in TenantIds, NEW status,
               Accept(c, t, status) \/ AcceptBridged(c, t)
        PROVE  \E row : SetRow(c, row)
    BY <2>3 DEF Accept, AcceptBridged, Enter
  <2>4. ASSUME NEW c \in CallIds,
               Erase(c) \/ Complete(c) \/ AttemptFails(c) \/ \E status : LaterEvent(c, status)
        PROVE  \E row : SetRow(c, row)
    BY <2>4 DEF Erase, Complete, AttemptFails, LaterEvent
  <2>5. ASSUME NEW c \in CallIds,
               Load(c) \/ Analyse(c) \/ AttemptEnds(c) \/ \E a : Chat(c, a)
        PROVE  issuer' = issuer /\ past' = past
    BY <2>5 DEF Load, Analyse, AttemptEnds, Chat
  <2>6. CASE \E es \in Files : Edit(es)
    BY <2>1, <2>6
  <2>7. CASE ~\E es \in Files : Edit(es)
    <3>1. PICK c \in CallIds :
             \/ \E t \in TenantIds : AcceptBridged(c, t) \/ \E status : Accept(c, t, status)
             \/ Erase(c) \/ Complete(c) \/ AttemptFails(c) \/ \E status : LaterEvent(c, status)
             \/ Load(c) \/ Analyse(c) \/ AttemptEnds(c) \/ \E a : Chat(c, a)
      BY <2>7 DEF CallStep, Next
    <3>2. CASE \E row : SetRow(c, row)
      BY <2>2, <3>2
    <3>3. CASE issuer' = issuer /\ past' = past
      BY <3>3
    <3> QED BY <2>3, <2>4, <2>5, <3>1, <3>2, <3>3
  <2> QED BY <2>6, <2>7
<1>2. ASSUME NEW c \in Undone PROVE c \in Undone'
  <2>1. c \in CallIds /\ past[c] = "undone"
    BY DEF Undone
  <2>2. past'[c] = "undone"
    BY <1>1, <2>1
  <2> QED BY <2>1, <2>2 DEF Undone
<1>3. ASSUME NEW t \in TenantIds, NEW c \in Once(t) PROVE c \in Once(t)'
  <2>1. c \in CallIds /\ issuer[c] = t /\ past[c] \in {"completed", "undone"}
    BY DEF Once
  <2>2. past'[c] \in {"completed", "undone"} /\ issuer' = issuer
    BY <1>1, <2>1
  <2> QED BY <2>1, <2>2 DEF Once
<1> QED BY <1>2, <1>3

(* Steps beside the writers: what they summarise stays history.            *)
LEMMA BesideOrgs ==
    ASSUME PolicyType, OrgType, OrgInv, UNCHANGED orgVars,
           \A t \in TenantIds : Once(t) \subseteq Once(t)', Undone \subseteq Undone'
    PROVE  OrgType' /\ OrgInv'
<1>1. UNCHANGED <<orgs, writing, begun, latest, overlapped>>
  BY DEF orgVars
<1>2. OrgType'
  BY <1>1 DEF OrgType
<1>3. SavedFieldsStay' /\ \A t : PromptGuidance(t)' = PromptGuidance(t)
  BY <1>1 DEF OrgInv, SavedFieldsStay, PromptGuidance, Registered
<1> QED BY <1>1, <1>2, <1>3 DEF OrgInv, Busy

(* A summary names calls.                                                  *)
LEMMA SummaryType == \A t : Completed(t) \in SUBSET CallIds
BY DEF Completed

(* A write begins: with what is stored now, or with a summary of now.      *)
LEMMA BeginKeeps ==
    ASSUME PolicyType, PolicyInv, OrgType, OrgInv, UNCHANGED vars,
           NEW w \in Writers, NEW t \in Clients,
           SavePreflight(w, t) \/ GenerateGuidance(w, t)
    PROVE  OrgType' /\ OrgInv'
<1> DEFINE saving == [NewOrganization EXCEPT !.profile = begun + 1]
           summing == [NewOrganization EXCEPT !.guidance = Completed(t)]
<1>0. t \in TenantIds /\ NoOrganization \notin Organization /\ writing[w].pc = "idle" /\ begun < MaxWrites
  BY OrganizationsAssumption DEF SavePreflight, GenerateGuidance, BeginWrite
<1>1. begun + 1 \in 0..MaxWrites
  BY <1>0, OrganizationsAssumption DEF OrgType
<1>2. /\ saving \in Organization /\ saving.guidance = {}
      /\ summing \in Organization /\ summing.guidance = Completed(t)
  BY <1>1, NewOrgType, SummaryType DEF Organization
<1>3. PICK pc, seen, field, new :
        /\ BeginWrite(w, t, pc, seen, field, new)
        /\ new \in Organization
        /\ \/ pc = "write" /\ seen = orgs[t] /\ field = "profile" /\ new.guidance = {}
           \/ pc = "read" /\ seen = NoOrganization /\ field = "guidance" /\ new.guidance = Completed(t)
  <2> HIDE DEF saving, summing
  <2>1. CASE SavePreflight(w, t)
    BY <1>2, <2>1 DEF SavePreflight, saving
  <2>2. CASE GenerateGuidance(w, t)
    BY <1>2, <2>2 DEF GenerateGuidance, summing
  <2> QED BY <2>1, <2>2
<1> HIDE DEF saving, summing
<1> DEFINE job == [pc |-> pc, tenant |-> t, set |-> field, new |-> new, seen |-> seen]
<1>4. /\ writing' = [writing EXCEPT ![w] = job] /\ begun' = begun + 1
      /\ orgs' = orgs /\ latest' = latest /\ issuer' = issuer /\ past' = past
      /\ overlapped' = IF Others(w, t) THEN overlapped \cup {t} ELSE overlapped
  BY <1>3 DEF BeginWrite, vars
<1>5. seen \in Organization \cup {NoOrganization}
  BY <1>0, <1>3 DEF OrgType
<1>6. job \in Writing /\ job.pc # "idle" /\ job.tenant = t
  BY <1>0, <1>3, <1>5 DEF Writing
<1>7. writing'[w] = job /\ \A v \in Writers \ {w} : writing'[v] = writing[v]
  BY <1>4 DEF OrgType
<1>8. OrgType'
  <2>1. writing' \in [Writers -> Writing]
    BY <1>4, <1>6 DEF OrgType
  <2> QED BY <1>0, <1>1, <1>4, <1>6, <1>7, <2>1 DEF OrgType
<1>9. \A s \in TenantIds : /\ PromptGuidance(s)' = PromptGuidance(s)
                           /\ Once(s)' = Once(s) /\ Registered(s)' = Registered(s)
  BY <1>4 DEF PromptGuidance, Registered, Once, Undone
<1>10. \A v \in Writers : \A s \in TenantIds \ overlapped' :
         /\ s \notin overlapped
         /\ Busy(v, s)' /\ v # w => Busy(v, s) /\ s # t
         /\ Busy(w, s)' => s = t
  BY <1>4, <1>6, <1>7 DEF Busy, Others
<1>11. \A v, x \in Writers : \A s \in TenantIds \ overlapped' : Busy(v, s)' /\ Busy(x, s)' => v = x
  BY <1>10 DEF OrgInv
<1>12. /\ PromptGuidance(t) \subseteq Once(t) /\ Completed(t) \subseteq Once(t)
       /\ Once(t) \subseteq Completed(t) \cup Undone
  BY <1>0, CompletedOrUndone DEF OrgInv
<1>13. \A v \in Writers : \A s \in TenantIds \ overlapped' :
         /\ Busy(v, s)' /\ writing'[v].pc = "write" => writing'[v].seen = orgs'[s]
         /\ Busy(v, s)' /\ writing'[v].set = "guidance"
              => PromptGuidance(s)' \subseteq writing'[v].new.guidance \cup Undone
  <2> SUFFICES ASSUME NEW v \in Writers, NEW s \in TenantIds \ overlapped', Busy(v, s)'
               PROVE  /\ writing'[v].pc = "write" => writing'[v].seen = orgs'[s]
                      /\ writing'[v].set = "guidance" => PromptGuidance(s) \subseteq writing'[v].new.guidance \cup Undone
    BY <1>9
  <2>1. CASE v = w
    BY <1>3, <1>4, <1>7, <1>10, <1>12, <2>1
  <2>2. CASE v # w
    BY <1>4, <1>7, <1>10, <2>2 DEF OrgInv
  <2> QED BY <2>1, <2>2
<1>14. \A v \in Writers : \A s \in TenantIds : Busy(v, s)' =>
         /\ writing'[v].new.guidance \subseteq Once(s)'
         /\ writing'[v].seen # NoOrganization => writing'[v].seen.guidance \subseteq Once(s)'
  <2> SUFFICES ASSUME NEW v \in Writers, NEW s \in TenantIds, Busy(v, s)'
               PROVE  /\ writing'[v].new.guidance \subseteq Once(s)
                      /\ writing'[v].seen # NoOrganization => writing'[v].seen.guidance \subseteq Once(s)
    BY <1>9
  <2>1. CASE v = w
    <3>1. s = t
      BY <1>6, <1>7, <2>1 DEF Busy
    <3>2. seen # NoOrganization => seen.guidance \subseteq Once(t)
      BY <1>3, <1>12 DEF PromptGuidance, Registered
    <3>3. new.guidance \subseteq Once(t)
      BY <1>3, <1>12
    <3> QED BY <1>7, <2>1, <3>1, <3>2, <3>3
  <2>2. CASE v # w
    BY <1>7, <2>2 DEF OrgInv, Busy
  <2> QED BY <2>1, <2>2
<1>15. SavedFieldsStay' /\ \A s \in TenantIds : PromptGuidance(s)' \subseteq Once(s)'
  BY <1>4, <1>9 DEF OrgInv, SavedFieldsStay
<1>30. Undone' = Undone
  BY <1>4 DEF Undone
<1> QED BY <1>30, <1>8, <1>11, <1>13, <1>14, <1>15 DEF OrgInv

(* The job read the record before it writes it back.                       *)
LEMMA ReadKeeps ==
    ASSUME PolicyType, OrgType, OrgInv, UNCHANGED vars, NEW w \in Writers, OrganizationRead(w)
    PROVE  OrgType' /\ OrgInv'
<1> DEFINE t == writing[w].tenant
           job == [writing[w] EXCEPT !.pc = "write", !.seen = orgs[t]]
<1>1. /\ writing[w] \in Writing /\ writing[w].pc = "read" /\ t \in TenantIds
      /\ orgs[t] \in Organization \cup {NoOrganization}
  BY DEF OrgType, OrganizationRead
<1>2. /\ writing' = [writing EXCEPT ![w] = job]
      /\ orgs' = orgs /\ latest' = latest /\ issuer' = issuer /\ past' = past /\ begun' = begun /\ overlapped' = overlapped
  BY DEF OrganizationRead, vars
<1>3. /\ job \in Writing /\ job.pc = "write" /\ job.tenant = t /\ job.seen = orgs[t]
      /\ job.new = writing[w].new /\ job.set = writing[w].set
  BY <1>1 DEF Writing
<1>4. writing'[w] = job /\ \A v \in Writers \ {w} : writing'[v] = writing[v]
  BY <1>2 DEF OrgType
<1>5. OrgType'
  BY <1>1, <1>2, <1>3, <1>4 DEF OrgType
<1>6. \A s \in TenantIds : /\ PromptGuidance(s)' = PromptGuidance(s)
                           /\ Once(s)' = Once(s) /\ Registered(s)' = Registered(s)
  BY <1>2 DEF PromptGuidance, Registered, Once, Undone
<1>7. \A v \in Writers : \A s \in TenantIds : Busy(v, s)' <=> Busy(v, s)
  <2>1. \A v \in Writers : /\ writing'[v].pc # "idle" <=> writing[v].pc # "idle"
                           /\ writing'[v].tenant = writing[v].tenant
    <3> HIDE DEF job
    <3> QED BY <1>1, <1>3, <1>4
  <2> QED BY <2>1 DEF Busy
<1>8. Busy(w, t) /\ \A s : Busy(w, s) => s = t
  BY <1>1 DEF Busy
<1> HIDE DEF job, t
<1>9. \A v \in Writers : \A s \in TenantIds \ overlapped :
         /\ Busy(v, s) /\ writing'[v].pc = "write" => writing'[v].seen = orgs'[s]
         /\ Busy(v, s) /\ writing'[v].set = "guidance" => PromptGuidance(s) \subseteq writing'[v].new.guidance \cup Undone
  BY <1>2, <1>3, <1>4, <1>8 DEF OrgInv
<1>10. \A v \in Writers : \A s \in TenantIds : Busy(v, s) =>
         /\ writing'[v].new.guidance \subseteq Once(s)
         /\ writing'[v].seen # NoOrganization => writing'[v].seen.guidance \subseteq Once(s)
  <2>1. orgs[t] # NoOrganization => orgs[t].guidance \subseteq Once(t)
    BY <1>1 DEF OrgInv, PromptGuidance, Registered
  <2> QED BY <1>3, <1>4, <1>8, <2>1 DEF OrgInv
<1>11. SavedFieldsStay'
  BY <1>2, <1>6 DEF OrgInv, SavedFieldsStay
<1>30. Undone' = Undone
  BY <1>2 DEF Undone
<1> QED BY <1>30, <1>2, <1>5, <1>6, <1>7, <1>9, <1>10, <1>11 DEF OrgInv

(* A writer that fails has changed nothing.                                *)
LEMMA FailKeeps ==
    ASSUME PolicyType, OrgType, OrgInv, UNCHANGED vars, NEW w \in Writers, WriterFails(w)
    PROVE  OrgType' /\ OrgInv'
<1>1. /\ writing' = [writing EXCEPT ![w] = IdleWriter]
      /\ orgs' = orgs /\ latest' = latest /\ issuer' = issuer /\ past' = past /\ begun' = begun /\ overlapped' = overlapped
  BY DEF WriterFails, vars
<1>2. IdleWriter \in Writing /\ IdleWriter.pc = "idle"
  BY NewOrgType DEF IdleWriter, Writing
<1>3. writing'[w] = IdleWriter /\ \A v \in Writers \ {w} : writing'[v] = writing[v]
  BY <1>1 DEF OrgType
<1>4. OrgType'
  BY <1>1, <1>2, <1>3 DEF OrgType
<1>5. \A v \in Writers : \A s : Busy(v, s)' => Busy(v, s) /\ writing'[v] = writing[v]
  BY <1>2, <1>3 DEF Busy
<1>6. \A s \in TenantIds : /\ PromptGuidance(s)' = PromptGuidance(s)
                           /\ Once(s)' = Once(s) /\ Registered(s)' = Registered(s)
  BY <1>1 DEF PromptGuidance, Registered, Once, Undone
<1>7. SavedFieldsStay'
  BY <1>1, <1>6 DEF OrgInv, SavedFieldsStay
<1>30. Undone' = Undone
  BY <1>1 DEF Undone
<1> QED BY <1>30, <1>1, <1>4, <1>5, <1>6, <1>7 DEF OrgInv

(* The write: what it stores for its tenant, and that it touches no other. *)
LEMMA WriteEffect ==
    ASSUME OrgType, OrgInv, NEW w \in Writers, OrganizationWrite(w)
    PROVE  LET t == writing[w].tenant
               f == writing[w].set
               base == OrganizationBase(writing[w].seen)
               org == [base EXCEPT ![f] = writing[w].new[f]]
           IN  /\ t \in TenantIds /\ Busy(w, t) /\ writing[w].pc = "write"
               /\ orgs' = [orgs EXCEPT ![t] = org]
               /\ org \in Organization /\ orgs'[t] = org /\ org # NoOrganization
               /\ base \in Organization
               /\ org.guidance = IF f = "guidance" THEN writing[w].new.guidance ELSE base.guidance
               /\ f \in {"profile", "guidance"}
               /\ \A s \in TenantIds \ {t} : orgs'[s] = orgs[s]
<1> DEFINE t == writing[w].tenant
           f == writing[w].set
           base == OrganizationBase(writing[w].seen)
           org == [base EXCEPT ![f] = writing[w].new[f]]
<1>1. /\ writing[w] \in Writing /\ writing[w].pc = "write" /\ t \in TenantIds
      /\ orgs' = [orgs EXCEPT ![t] = org]
  BY DEF OrgType, OrganizationWrite
<1>2. f \in {"profile", "guidance"} /\ writing[w].new \in Organization
  BY <1>1 DEF Writing
<1>3. base \in Organization
  <2>1. writing[w].seen \in Organization \cup {NoOrganization}
    BY <1>1 DEF Writing
  <2> QED BY <2>1, NewOrgType DEF OrganizationBase
<1>4. /\ org \in Organization
      /\ org.guidance = IF f = "guidance" THEN writing[w].new.guidance ELSE base.guidance
  <2> HIDE DEF f, base
  <2>1. CASE f = "profile"
    BY <1>2, <1>3, <2>1 DEF Organization
  <2>2. CASE f = "guidance"
    BY <1>2, <1>3, <2>2 DEF Organization
  <2> QED BY <1>2, <2>1, <2>2
<1>5. org # NoOrganization
  BY <1>4, OrganizationsAssumption
<1>6. Busy(w, t)
  BY <1>1 DEF Busy
<1> HIDE DEF org, base, f
<1>7. orgs'[t] = org /\ \A s \in TenantIds \ {t} : orgs'[s] = orgs[s]
  BY <1>1 DEF OrgType
<1> QED BY <1>1, <1>2, <1>3, <1>4, <1>5, <1>6, <1>7 DEF f, base, org

(* The write: without an overlap nothing came between it and its read.     *)
LEMMA WriteKeeps ==
    ASSUME PolicyType, OrgType, OrgInv, UNCHANGED vars, NEW w \in Writers, OrganizationWrite(w)
    PROVE  OrgType' /\ OrgInv'
<1>0. PICK t : t = writing[w].tenant
  OBVIOUS
<1> DEFINE f == writing[w].set
           base == OrganizationBase(writing[w].seen)
           org == [base EXCEPT ![f] = writing[w].new[f]]
<1>1. /\ t \in TenantIds /\ Busy(w, t) /\ writing[w].pc = "write"
      /\ orgs' = [orgs EXCEPT ![t] = org]
      /\ org \in Organization /\ orgs'[t] = org /\ org # NoOrganization
      /\ base \in Organization
      /\ org.guidance = IF f = "guidance" THEN writing[w].new.guidance ELSE base.guidance
      /\ f \in {"profile", "guidance"}
      /\ \A s \in TenantIds \ {t} : orgs'[s] = orgs[s]
  BY <1>0, WriteEffect
<1>2. /\ latest' = [latest EXCEPT ![t] = [latest[t] EXCEPT ![f] = writing[w].new[f]]]
      /\ writing' = [writing EXCEPT ![w] = IdleWriter]
      /\ begun' = begun /\ overlapped' = overlapped /\ issuer' = issuer /\ past' = past
  BY <1>0 DEF OrganizationWrite, vars
<1>3. IdleWriter \in Writing /\ IdleWriter.pc = "idle"
  BY NewOrgType DEF IdleWriter, Writing
<1>4. writing'[w] = IdleWriter /\ \A v \in Writers \ {w} : writing'[v] = writing[v]
  BY <1>2 DEF OrgType
<1>5. writing[w].new \in Organization
  BY DEF OrgType, Writing
<1>6. [latest[t] EXCEPT ![f] = writing[w].new[f]] \in Organization
  <2>0. latest[t] \in Organization
    BY <1>1 DEF OrgType
  <2>1. CASE f = "profile"
    <3> HIDE DEF f
    <3> QED BY <1>5, <2>0, <2>1 DEF Organization
  <2>2. CASE f = "guidance"
    <3> HIDE DEF f
    <3> QED BY <1>5, <2>0, <2>2 DEF Organization
  <2> QED BY <1>1, <2>1, <2>2
<1>7. latest' \in [TenantIds -> Organization] /\ writing' \in [Writers -> Writing]
  <2> HIDE DEF f
  <2> QED BY <1>2, <1>3, <1>6 DEF OrgType
<1>8. orgs' \in [TenantIds -> Organization \cup {NoOrganization}]
  <2> HIDE DEF org
  <2> QED BY <1>1 DEF OrgType
<1>9. OrgType'
  BY <1>2, <1>3, <1>4, <1>7, <1>8 DEF OrgType
<1>10. \A v \in Writers : \A s : Busy(v, s)' => v # w /\ Busy(v, s) /\ writing'[v] = writing[v]
  BY <1>3, <1>4 DEF Busy
<1>11. \A v \in Writers : \A s \in TenantIds \ overlapped : Busy(v, s)' => s # t
  BY <1>1, <1>10 DEF OrgInv
<1>12. Undone' = Undone /\ \A s : Once(s)' = Once(s)
  BY <1>2 DEF Once, Undone
<1> HIDE DEF org
<1>13. \A s \in TenantIds \ {t} : /\ PromptGuidance(s)' = PromptGuidance(s)
                                  /\ Registered(s)' <=> Registered(s)
  BY <1>1 DEF PromptGuidance, Registered
<1>14. PromptGuidance(t)' = org.guidance /\ Registered(t)'
  BY <1>1 DEF PromptGuidance, Registered
<1>15. org.guidance \subseteq Once(t)
  <2>1. writing[w].new.guidance \subseteq Once(t)
    BY <1>1 DEF OrgInv
  <2>2. base.guidance \subseteq Once(t)
    <3>1. writing[w].seen # NoOrganization => writing[w].seen.guidance \subseteq Once(t)
      BY <1>1 DEF OrgInv
    <3> QED BY <3>1, NewOrgType DEF OrganizationBase
  <2> QED BY <1>1, <2>1, <2>2
<1>16. \A s \in TenantIds : PromptGuidance(s)' \subseteq Once(s)'
  <2> SUFFICES ASSUME NEW s \in TenantIds PROVE PromptGuidance(s)' \subseteq Once(s)
    BY <1>12
  <2>1. CASE s = t
    BY <1>14, <1>15, <2>1
  <2>2. CASE s # t
    BY <1>13, <2>2 DEF OrgInv
  <2> QED BY <2>1, <2>2
<1>17. SavedFieldsStay'
  <2> SUFFICES ASSUME NEW s \in TenantIds \ overlapped
               PROVE  (IF Registered(s)' THEN orgs'[s] ELSE NewOrganization) = latest'[s]
    BY <1>2 DEF SavedFieldsStay
  <2>1. (IF Registered(s) THEN orgs[s] ELSE NewOrganization) = latest[s]
    BY DEF OrgInv, SavedFieldsStay
  <2>2. CASE s = t
    <3>1. writing[w].seen = orgs[t]
      BY <1>1, <2>2 DEF OrgInv
    <3>2. base = latest[t]
      BY <2>1, <2>2, <3>1 DEF OrganizationBase, Registered
    <3>3. latest'[t] = org
      <4> HIDE DEF base, f
      <4> QED BY <1>1, <1>2, <3>2 DEF org, OrgType
    <3> QED BY <1>1, <1>14, <2>2, <3>3
  <2>3. CASE s # t
    <3>1. latest'[s] = latest[s]
      <4> HIDE DEF f
      <4> QED BY <1>1, <1>2, <2>3 DEF OrgType
    <3> QED BY <1>1, <1>13, <2>1, <2>3, <3>1
  <2> QED BY <2>2, <2>3
<1>18. \A v \in Writers : \A s \in TenantIds \ overlapped :
         /\ Busy(v, s)' /\ writing'[v].pc = "write" => writing'[v].seen = orgs'[s]
         /\ Busy(v, s)' /\ writing'[v].set = "guidance"
              => PromptGuidance(s)' \subseteq writing'[v].new.guidance \cup Undone
  <2> QED BY <1>1, <1>10, <1>11, <1>13 DEF OrgInv
<1>19. \A v \in Writers : \A s \in TenantIds : Busy(v, s)' =>
         /\ writing'[v].new.guidance \subseteq Once(s)'
         /\ writing'[v].seen # NoOrganization => writing'[v].seen.guidance \subseteq Once(s)'
  BY <1>10, <1>12 DEF OrgInv
<1>20. \A v, x \in Writers : \A s \in TenantIds \ overlapped : Busy(v, s)' /\ Busy(x, s)' => v = x
  BY <1>10 DEF OrgInv
<1> QED BY <1>2, <1>9, <1>12, <1>16, <1>17, <1>18, <1>19, <1>20 DEF OrgInv

WriterActs(w) ==
    \/ \E t \in Clients : SavePreflight(w, t) \/ GenerateGuidance(w, t)
    \/ OrganizationRead(w) \/ OrganizationWrite(w) \/ WriterFails(w)

(* A record is never deleted, so a call of the bridge stays registered.    *)
LEMMA RegisteredStays ==
    ASSUME OrgType, OrgInv, NEW w \in Writers, WriterActs(w)
    PROVE  \A t \in TenantIds : Registered(t) => Registered(t)'
<1>1. CASE OrganizationWrite(w)
  <2>1. \A t \in TenantIds : orgs'[t] = orgs[t] \/ orgs'[t] # NoOrganization
    BY <1>1, WriteEffect
  <2> QED BY <2>1 DEF Registered
<1>2. CASE orgs' = orgs
  BY <1>2 DEF Registered
<1>3. OrganizationRead(w) \/ WriterFails(w) => orgs' = orgs
  BY DEF OrganizationRead, WriterFails
<1>4. (\E t \in Clients : SavePreflight(w, t) \/ GenerateGuidance(w, t)) => orgs' = orgs
  BY DEF SavePreflight, GenerateGuidance, BeginWrite
<1> QED BY <1>1, <1>2, <1>3, <1>4 DEF WriterActs

(* Steps beside the policies: who was registered still is.                 *)
LEMMA BesidePolicies ==
    ASSUME PolicyType, PolicyInv, OrgType, OrgInv, UNCHANGED vars,
           \A t \in TenantIds : Registered(t) => Registered(t)'
    PROVE  PolicyType' /\ PolicyInv'
<1>1. UNCHANGED <<entries, issuer, calls, work, chats, inForce, excused, past>>
  BY DEF vars
<1>2. PolicyType'
  BY <1>1 DEF PolicyType
<1>3. ServedTenantsWereApproved'
  <2>1. \A c \in CallIds : calls[c].provider = "call_center" => calls[c].tenant \in TenantIds
    BY DEF PolicyInv, PolicyType, CallInv
  <2> QED BY <1>1, <2>1 DEF PolicyInv, ServedTenantsWereApproved
<1>4. FieldsWereInForce' /\ Given(entries)' \subseteq inForce'
  BY <1>1 DEF PolicyInv, FieldsWereInForce
<1>5. ASSUME NEW c \in CallIds PROVE CallInv(c)'
  <2>1. CallInv(c)
    BY DEF PolicyInv
  <2>2. Lapses(issuer[c], entries)' <=> Lapses(issuer[c], entries)
    BY <1>1
  <2> QED BY <1>1, <2>1, <2>2 DEF CallInv
<1> QED BY <1>2, <1>3, <1>4, <1>5 DEF PolicyInv

(*-------------------------------- theorems ------------------------------*)

TenancyInv == PolicyType /\ PolicyInv /\ OrgType /\ OrgInv

(* A step of the calls or of the policy file, with the records at rest.    *)
LEMMA CallStepKeeps ==
    ASSUME TenancyInv, UNCHANGED orgVars, CallStep
    PROVE  TenancyInv'
<1>1. PolicyType' /\ PolicyInv'
  <2>1. ASSUME NEW es \in Files, Edit(es) PROVE PolicyType' /\ PolicyInv'
    BY <2>1, EditType, EditKeeps DEF TenancyInv
  <2>2. ASSUME NEW c \in CallIds, NEW t \in TenantIds, NEW status \in {"open", "completed"},
               Accept(c, t, status)
        PROVE  PolicyType' /\ PolicyInv'
    <3>1. Found(ById(t)) /\ Enter(c, t, "vapi", status)
      BY <2>2 DEF Accept
    <3>2. ById(t) \in DOMAIN entries /\ entries[ById(t)].tenant = t /\ Validate = "ok"
      BY <3>1, Positions DEF Found, TenancyInv
    <3>3. <<t, entries[ById(t)].fields>> \in inForce
      BY <3>2, FoundIsGiven DEF TenancyInv, PolicyInv
    <3> QED BY <3>1, <3>3, EnterKeeps DEF TenancyInv
  <2>3. ASSUME NEW c \in CallIds, NEW t \in TenantIds, AcceptBridged(c, t) PROVE PolicyType' /\ PolicyInv'
    BY <2>3, EnterKeeps DEF AcceptBridged, TenancyInv
  <2>4. ASSUME NEW c \in CallIds, NEW a \in Assistants, Chat(c, a) PROVE PolicyType' /\ PolicyInv'
    BY <2>4, ChatKeeps DEF TenancyInv
  <2>5. ASSUME NEW c \in CallIds,
               \/ \E status \in {"open", "completed"} : LaterEvent(c, status)
               \/ Erase(c) \/ Complete(c) \/ AttemptFails(c)
        PROVE  PolicyType' /\ PolicyInv'
    BY <2>5, RewriteKeeps DEF TenancyInv
  <2>6. ASSUME NEW c \in CallIds, Load(c) \/ Analyse(c) \/ AttemptEnds(c)
        PROVE  PolicyType' /\ PolicyInv'
    BY <2>6, WorkKeeps DEF TenancyInv
  <2> QED BY <2>1, <2>2, <2>3, <2>4, <2>5, <2>6 DEF CallStep, Next
<1>2. OrgType' /\ OrgInv'
  BY HistoryGrows, BesideOrgs DEF TenancyInv
<1> QED BY <1>1, <1>2 DEF TenancyInv

(* A step of a writer, with the calls and the policy file at rest.         *)
LEMMA WriterStepKeeps ==
    ASSUME TenancyInv, UNCHANGED vars, NEW w \in Writers, WriterActs(w)
    PROVE  TenancyInv'
<1>1. OrgType' /\ OrgInv'
  BY BeginKeeps, ReadKeeps, WriteKeeps, FailKeeps DEF WriterActs, TenancyInv
<1>2. PolicyType' /\ PolicyInv'
  BY RegisteredStays, BesidePolicies DEF TenancyInv
<1> QED BY <1>1, <1>2 DEF TenancyInv

(* Nothing changes.                                                        *)
LEMMA StutterKeeps ==
    ASSUME TenancyInv, UNCHANGED tenancyVars PROVE TenancyInv'
<1>1. UNCHANGED vars /\ UNCHANGED orgVars
  BY DEF tenancyVars
<1>2. \A t \in TenantIds : /\ Registered(t)' = Registered(t)
                          /\ Once(t)' = Once(t)
  BY <1>1 DEF vars, orgVars, Registered, Once
<1>3. PolicyType' /\ PolicyInv'
  BY <1>1, <1>2, BesidePolicies DEF TenancyInv
<1>4. Undone' = Undone
  BY <1>1 DEF vars, Undone
<1>5. OrgType' /\ OrgInv'
  BY <1>1, <1>2, <1>4, BesideOrgs DEF TenancyInv
<1> QED BY <1>3, <1>5 DEF TenancyInv

(* The inductive invariant of the composition.                             *)
LEMMA TenancyInvariant == TenancySpec => []TenancyInv
<1>1. TenancyInit => TenancyInv
  BY InitPolicy, InitOrgs DEF TenancyInv
<1>2. TenancyInv /\ [TenancyNext]_tenancyVars => TenancyInv'
  BY CallStepKeeps, WriterStepKeeps, StutterKeeps DEF TenancyNext, WriterActs, CallStep
<1> QED BY <1>1, <1>2, PTL DEF TenancySpec

(* Whatever is edited and whenever, a call is accepted and a turn answered *)
(* only for a tenant that a file in order has named (tenant_policy.py),    *)
(* and a call of the bridge only for a registered organization.            *)
THEOREM ApprovedOnly == TenancySpec => []ServedTenantsWereApproved
<1>1. TenancyInv => ServedTenantsWereApproved
  BY DEF TenancyInv, PolicyInv
<1> QED BY <1>1, TenancyInvariant, PTL

(* The custom fields of an analysis, in a worker's hand or stored in a     *)
(* row, were given to the call's own tenant by an approved file            *)
(* (worker.py's look-up of analysis_fields).                               *)
THEOREM FieldsInForce == TenancySpec => []FieldsWereInForce
<1>1. TenancyInv => FieldsWereInForce
  BY DEF TenancyInv, PolicyInv
<1> QED BY <1>1, TenancyInvariant, PTL

(* Custom fields are missing from a stored analysis only if, since the     *)
(* call was first accepted, its tenant had none or some entry was not in   *)
(* order.                                                                  *)
THEOREM FieldsLostWithCause == TenancySpec => []LostFieldsHadACause
<1>1. TenancyInv => LostFieldsHadACause
  BY DEF TenancyInv, PolicyInv, CallInv, LostFieldsHadACause
<1> QED BY <1>1, TenancyInvariant, PTL

(* Whoever rewrites an organization record (save_preflight,                *)
(* generate_prompt_guidance): without an overlap both fields stay as they  *)
(* were last saved.                                                        *)
THEOREM FieldsStay == TenancySpec => []SavedFieldsStay
<1>1. TenancyInv => SavedFieldsStay
  BY DEF TenancyInv, OrgInv
<1> QED BY <1>1, TenancyInvariant, PTL

(* The guidance of a tenant is drawn from its own calls and only such as   *)
(* were completed (generate_prompt_guidance).                              *)
THEOREM OwnGuidanceOnly == TenancySpec => []GuidanceIsTheTenantsOwn
<1>1. TenancyInv => GuidanceIsTheTenantsOwn
  BY OwnGuidance DEF TenancyInv, OrgInv
<1> QED BY <1>1, TenancyInvariant, PTL

(* The prompt guidance that metrics shows drops only calls that were taken *)
(* back by a later event, a failed attempt or an erasure, unless two       *)
(* writers overlapped (generate_prompt_guidance).                          *)
THEOREM GuidanceGrows == TenancySpec => GuidanceOnlyGrows
<1> DEFINE Grows == \A t \in TenantIds \ overlapped' :
                      \A c \in PromptGuidance(t) \ PromptGuidance(t)' : past[c] = "undone"
<1>1. ASSUME TenancyInv, NEW w \in Writers, OrganizationWrite(w) PROVE Grows
  <2> SUFFICES ASSUME NEW t \in TenantIds \ overlapped
               PROVE  PromptGuidance(t) \subseteq PromptGuidance(t)' \cup Undone
    BY <1>1 DEF OrganizationWrite, Undone
  <2>1. CASE t # writing[w].tenant
    <3>1. orgs'[t] = orgs[t]
      BY <1>1, <2>1, WriteEffect DEF TenancyInv
    <3> QED BY <3>1 DEF PromptGuidance, Registered
  <2>2. CASE t = writing[w].tenant
    <3> DEFINE base == OrganizationBase(writing[w].seen)
    <3>1. /\ Busy(w, t) /\ writing[w].pc = "write" /\ orgs'[t] # NoOrganization
          /\ orgs'[t].guidance = IF writing[w].set = "guidance"
                                 THEN writing[w].new.guidance ELSE base.guidance
      BY <1>1, <2>2, WriteEffect DEF TenancyInv
    <3>2. PromptGuidance(t)' = orgs'[t].guidance
      BY <3>1 DEF PromptGuidance, Registered
    <3>3. writing[w].seen = orgs[t]
      BY <1>1, <3>1 DEF TenancyInv, OrgInv
    <3>4. writing[w].set = "guidance"
            => PromptGuidance(t) \subseteq writing[w].new.guidance \cup Undone
      BY <1>1, <3>1 DEF TenancyInv, OrgInv
    <3>5. PromptGuidance(t) \subseteq base.guidance
      BY <3>3 DEF PromptGuidance, Registered, OrganizationBase
    <3> QED BY <3>1, <3>2, <3>4, <3>5
  <2> QED BY <2>1, <2>2
<1>2. TenancyInv /\ [TenancyNext]_tenancyVars => [Grows]_orgVars
  <2> SUFFICES ASSUME TenancyInv, [TenancyNext]_tenancyVars, orgs' # orgs PROVE Grows
    BY DEF PromptGuidance, Registered
  <2>1. PICK w \in Writers : WriterActs(w)
    BY DEF TenancyNext, tenancyVars, orgVars, WriterActs
  <2>2. OrganizationWrite(w)
    BY <2>1 DEF WriterActs, SavePreflight, GenerateGuidance, BeginWrite, OrganizationRead, WriterFails
  <2> QED BY <1>1, <2>2
<1>3. GuidanceOnlyGrows <=> [][Grows]_orgVars
  BY PTL DEF GuidanceOnlyGrows
<1> HIDE DEF Grows
<1> QED BY <1>2, <1>3, TenancyInvariant, PTL DEF TenancySpec
==============================================================================
