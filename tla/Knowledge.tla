------------------------------ MODULE Knowledge ------------------------------
(***************************************************************************)
(* knowledge.py: chunk_text, which splits a document into overlapping      *)
(* chunks, upload_document, which stores them one transaction each, and    *)
(* retrieve_context.  A document is the sequence of its sentences' word    *)
(* counts and its words are numbered, so a chunk is the sequence of the    *)
(* words it joins; as a text it is as long as that.                        *)
(***************************************************************************)
EXTENDS Integers, Sequences, FiniteSets, SequencesExt, FiniteSetsExt

CONSTANTS
    ChunkSizes,     \* values of chunk_size
    Overlaps,       \* values of overlap
    MaxSentences,   \* bound: sentences of a document
    MaxWords,       \* bound: words of a sentence
    MaxResults,     \* how many chunks a search answers
    MaxContext,     \* MAX_CONTEXT_CHARS
    MaxUploads      \* bound: attempts to upload the document

ASSUME KnowledgeAssumption ==
    /\ ChunkSizes \subseteq Nat /\ Overlaps \subseteq Nat
    /\ MaxSentences \in Nat /\ MaxWords \in Nat
    /\ MaxResults \in Nat /\ MaxContext \in Nat

VARIABLES
    units,      \* the sentences
    size,       \* chunk_size
    overlap,
    pc,         \* "split", "insert", "done", "failed"
    pos,        \* sentences consumed
    read,       \* words consumed
    current,
    chunks,
    documents   \* tenant_documents: the chunks stored under each document_id

knowledgeVars == <<units, size, overlap, pc, pos, read, current, chunks, documents>>

Texts == UNION {[1..n -> 1..MaxWords] : n \in 0..MaxSentences}

KnowledgeInit ==
    /\ units \in Texts
    /\ size \in ChunkSizes
    /\ overlap \in Overlaps
    /\ pc = "split"
    /\ pos = 0
    /\ read = 0
    /\ current = <<>>
    /\ chunks = <<>>
    /\ documents = <<<<>>>>

(*------------------------------ chunk_text ------------------------------*)
LastWords(s, n) == SubSeq(s, IF Len(s) > n THEN Len(s) - n + 1 ELSE 1, Len(s))

(* Mutant: words[-0:] is the whole list.                                   *)
CarriedSlice(s) == IF overlap = 0 THEN s ELSE LastWords(s, overlap)

(* What the next chunk begins with.                                        *)
Carried(s) == IF overlap = 0 THEN <<>> ELSE LastWords(s, overlap)

(* Mutant: the limit is noticed one sentence late.                         *)
OverflowsLate(n) == current # <<>> /\ Len(current) > size

Overflows(n) == current # <<>> /\ Len(current) + n > size

(* One turn of the loop over the units.                                    *)
TakeUnit ==
    LET n == units[pos + 1]
        sentence == [i \in 1..n |-> read + i]
    IN  /\ pc = "split"
        /\ pos < Len(units)
        /\ \/ /\ Overflows(n)
              /\ chunks' = Append(chunks, current)
              /\ current' = Carried(current) \o sentence
           \/ /\ ~Overflows(n)
              /\ current' = current \o sentence
              /\ UNCHANGED chunks
        /\ pos' = pos + 1
        /\ read' = read + n
        /\ UNCHANGED <<units, size, overlap, pc, documents>>

EndSplit ==
    /\ pc = "split"
    /\ pos = Len(units)
    /\ chunks' = IF current = <<>> THEN chunks ELSE Append(chunks, current)
    /\ pc' = "insert"
    /\ UNCHANGED <<units, size, overlap, pos, read, current, documents>>

(*---------------------------- upload_document ---------------------------*)
Stored == Last(documents)

NextChunk == chunks[Len(Stored) + 1]

InsertChunk ==
    /\ pc = "insert"
    /\ Len(Stored) < Len(chunks)
    /\ documents' = [documents EXCEPT ![Len(documents)] = Append(@, NextChunk)]
    /\ UNCHANGED <<units, size, overlap, pc, pos, read, current, chunks>>

Uploaded ==
    /\ pc = "insert"
    /\ Len(Stored) = Len(chunks)
    /\ pc' = "done"
    /\ UNCHANGED <<units, size, overlap, pos, read, current, chunks, documents>>

(* An insert raises and the request answers 500.  The chunks already       *)
(* stored stay; the caller never learns their document_id.                 *)
UploadFails ==
    /\ pc = "insert"
    /\ pc' = "failed"
    /\ UNCHANGED <<units, size, overlap, pos, read, current, chunks, documents>>

(* The administrator uploads the file again, under a new document_id.      *)
UploadAgain ==
    /\ pc = "failed"
    /\ Len(documents) < MaxUploads
    /\ documents' = Append(documents, <<>>)
    /\ pc' = "split"
    /\ pos' = 0 /\ read' = 0 /\ current' = <<>> /\ chunks' = <<>>
    /\ UNCHANGED <<units, size, overlap>>

KnowledgeNext ==
    TakeUnit \/ EndSplit \/ InsertChunk \/ Uploaded \/ UploadFails \/ UploadAgain

(*---------------------------- retrieve_context --------------------------*)
StoredChunks == UNION {{d} \X DOMAIN documents[d] : d \in DOMAIN documents}

(* search_document_chunks answers at most so many of the chunks that match *)
(* a question, in some order, those of failed uploads among them.          *)
Matches ==
    {m \in UNION {[1..n -> StoredChunks] : n \in 0..MaxResults} : IsInjective(m)}

(* How long the first k texts are, joined by gap characters.               *)
Joined(lengths, gap) ==
    LET total[k \in 0..Len(lengths)] ==
            IF k = 0 THEN 0
            ELSE total[k - 1] + lengths[k] + (IF k = 1 THEN 0 ELSE gap)
    IN  total

(* The matches, joined by blank lines, before they are cut.                *)
Found(m) ==
    Joined([i \in DOMAIN m |-> Len(documents[m[i][1]][m[i][2]])], 2)[Len(m)]

RetrieveContext(m) == Min({Found(m), MaxContext})

(*------------------------------ properties ------------------------------*)

(* The words of the first k sentences.                                     *)
SentenceEnd(k) == Joined(units, 0)[k]

Before(cs, i) == IF i = 1 THEN <<>> ELSE cs[i - 1]

LastWord(s) == IF s = <<>> THEN 0 ELSE Last(s)

(* How much of chunk i repeats its predecessor, and what it adds.          *)
Repeated(cs, i) == Min({overlap, Len(Before(cs, i))})
News(cs, i) == SubSeq(cs[i], Repeated(cs, i) + 1, Len(cs[i]))

(* An uploaded document is the whole text, in order and once: every chunk  *)
(* is a run of words that begins as far before the end of its predecessor  *)
(* as they overlap and goes on beyond it, and the last one ends the text.  *)
(* Pieces of an earlier failed upload are the first chunks of the same     *)
(* text.                                                                   *)
DocumentsCoverTheText ==
    /\ pc = "done" =>
         /\ \A i \in DOMAIN Stored :
              /\ News(Stored, i) # <<>>
              /\ Stored[i] = [j \in DOMAIN Stored[i] |->
                                LastWord(Before(Stored, i)) - Repeated(Stored, i) + j]
         /\ LastWord(Before(Stored, Len(Stored) + 1)) = SentenceEnd(Len(units))
    /\ pc \in {"done", "failed"} => \A d \in DOMAIN documents : IsPrefix(documents[d], chunks)

(* A chunk is longer than chunk_size only by necessity: it then holds its  *)
(* overlap and a single sentence, nothing else.                            *)
OversizedChunksAreOneSentence ==
    \A i \in DOMAIN chunks :
        Len(chunks[i]) > size =>
            \E k \in DOMAIN units :
                News(chunks, i) = [j \in 1..units[k] |-> SentenceEnd(k - 1) + j]
==============================================================================
