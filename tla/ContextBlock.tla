----------------------------- MODULE ContextBlock -----------------------------
(***************************************************************************)
(* What a turn of the Custom LLM endpoint tells the model about a tenant:  *)
(* the facts table of database.py and build_context_block of               *)
(* llm_server.py, which cuts facts and retrieved chunks to one limit and   *)
(* warns of lost facts.  Texts are their lengths.  A turn reads the facts  *)
(* once and the chunks once and nobody else sees what it read, so it is    *)
(* one step.                                                               *)
(***************************************************************************)
EXTENDS Knowledge

CONSTANTS
    Limit,          \* MAX_CONTEXT_BLOCK_CHARS
    MaxFacts,       \* bound: facts of the tenant
    FactLengths     \* bound: lengths of a fact's line

ASSUME ContextBlockAssumption ==
    /\ Limit \in Nat /\ MaxFacts \in Nat
    /\ MaxContext >= Limit
    /\ FactLengths \subseteq Nat \ {0}

VARIABLES
    facts,      \* tenant_facts: the length of each fact's line, in key order
    retrieved,  \* the length of what retrieve_context returned
    found,      \* history: what it was before MAX_CONTEXT_CHARS
    block,      \* how much of either the block holds, once it is built
    warned      \* facts_dropped of the warning, if it was logged

contextVars == <<facts, retrieved, found, block, warned>>

NoBlock   == [facts |-> -1, retrieved |-> -1]
NoWarning == -1

ContextInit ==
    /\ facts = <<>>
    /\ retrieved = 0
    /\ found = 0
    /\ block = NoBlock
    /\ warned = NoWarning

(*------------------------------- the facts ------------------------------*)
SetFacts(f) ==
    /\ block = NoBlock     \* bound: one turn ends a behaviour
    /\ facts' = f
    /\ UNCHANGED <<knowledgeVars, retrieved, found, block, warned>>

(* A fact of a known key, or one whose key belongs somewhere in the order. *)
UpsertFact ==
    \E n \in FactLengths :
        \/ \E i \in DOMAIN facts : SetFacts([facts EXCEPT ![i] = n])
        \/ /\ Len(facts) < MaxFacts
           /\ \E i \in 1..(Len(facts) + 1) : SetFacts(InsertAt(facts, i, n))

DeleteFact == \E i \in DOMAIN facts : SetFacts(RemoveAt(facts, i))

(*--------------------------- build_context_block ------------------------*)
(* The lengths of the first lines, joined by line feeds.                   *)
Lines == Joined(facts, 1)

Structured == Lines[Len(facts)]

(* Mutant: the line feeds between the lines are not counted.               *)
FactsKeptBare == Max({k \in 0..Len(facts) : Lines[k] - k < Limit})

(* _facts_kept_within_limit counts lines until one does not fit.           *)
FactsKept == Max({k \in 0..Len(facts) : \A i \in 1..k : Lines[i] <= Limit})

Dropped == Len(facts) - FactsKept

(* Mutant: the blank line between facts and documents is forgotten.        *)
RemainingGenerous == Limit - Structured

(* Mutant: the blank line is taken off once for each side.                 *)
RemainingStingy == Limit - Structured - 4

(* The room left beside the facts and the blank line after them.           *)
Remaining == Limit - Structured - 2

UpTo(n) == Min({n, Limit})

Built(f, r) == block' = [facts |-> f, retrieved |-> r]

OnlyRetrieved ==
    /\ Structured = 0
    /\ Built(0, UpTo(retrieved'))
    /\ UNCHANGED warned

OnlyFacts ==
    /\ Structured > 0
    /\ retrieved' = 0
    /\ Built(UpTo(Structured), 0)
    /\ warned' = IF Structured > Limit THEN Dropped ELSE NoWarning

NoRoom ==
    /\ Structured > 0 /\ retrieved' > 0
    /\ Remaining <= 0
    /\ Built(UpTo(Structured), 0)
    /\ warned' = Dropped

Both ==
    /\ Structured > 0 /\ retrieved' > 0
    /\ Remaining > 0
    /\ Built(Structured, Min({retrieved', Remaining}))
    /\ UNCHANGED warned

Turn ==
    /\ block = NoBlock
    /\ \E m \in Matches : retrieved' = RetrieveContext(m) /\ found' = Found(m)
    /\ OnlyRetrieved \/ OnlyFacts \/ NoRoom \/ Both
    /\ UNCHANGED <<knowledgeVars, facts>>

Init == KnowledgeInit /\ ContextInit

(* Splitting a text is nobody else's business: what others do meanwhile    *)
(* can as well be done before the first chunk is stored.                   *)
Next ==
    \/ KnowledgeNext /\ block = NoBlock /\ UNCHANGED contextVars
    \/ pc # "split" /\ (UpsertFact \/ DeleteFact)
    \/ pc # "split" /\ Turn

vars == <<knowledgeVars, contextVars>>

Spec == Init /\ [][Next]_vars

(*------------------------------ properties ------------------------------*)

Separator == IF block.facts > 0 /\ block.retrieved > 0 THEN 2 ELSE 0

(* The block never exceeds its limit, separator included, and documents    *)
(* never push out a fact that would have fitted.                           *)
BlockFits ==
    block # NoBlock =>
        /\ block.facts + Separator + block.retrieved <= Limit
        /\ block.facts = UpTo(Structured)

(* Nothing is left out that would have fitted: when facts or found chunks  *)
(* are cut, at either of the two limits, the block is full up to the blank *)
(* line that chunks would have needed.                                     *)
CutOnlyWhenFull ==
    (block # NoBlock /\ (block.facts < Structured \/ block.retrieved < found)) =>
        block.facts + Separator + block.retrieved >= Limit - 2

(* The lines of which the block does not hold every character.             *)
CutLines == {k \in DOMAIN facts : Lines[k] > block.facts}

(* No fact is cut in silence, and the warning tells how many were.         *)
CutFactsAreReported ==
    block # NoBlock =>
        IF CutLines = {} THEN warned \in {NoWarning, 0}
        ELSE warned = Cardinality(CutLines)
==============================================================================
