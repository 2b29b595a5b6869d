-------------------------- MODULE ContextBlockProofs --------------------------
(***************************************************************************)
(* Proofs about documents and context blocks.  The lengths of joined texts *)
(* are defined by recursion, and both halves rest on what they are         *)
(* (JoinedLengths): a sum that grows with every text.                      *)
(***************************************************************************)
EXTENDS ContextBlock, SequenceTheorems, FiniteSetTheorems,
        WellFoundedInduction, TLAPS

(*--------------------------- numbers and sums ---------------------------*)

(* A set that holds 0 and with n always n + 1 holds every number.          *)
LEMMA SetInduction ==
    ASSUME NEW T, 0 \in T, \A n \in Nat : n \in T => n + 1 \in T
    PROVE  Nat \subseteq T
<1> SUFFICES ASSUME Nat \ T # {} PROVE FALSE
    OBVIOUS
<1>1. \E m \in Nat \ T : \A n \in Nat \ T : <<n, m>> \notin OpToRel(<, Nat)
    BY WFMin, NatLessThanWellFounded
<1>2. \E m \in Nat \ T : \A n \in Nat \ T : ~(n < m)
    BY <1>1 DEF OpToRel
<1>3. PICK m \in Nat \ T : \A n \in Nat \ T : ~(n < m)
    BY <1>2
<1>4. m # 0 /\ m - 1 \in Nat /\ m - 1 < m /\ (m - 1) + 1 = m
    BY <1>3
<1> QED
    BY <1>3, <1>4

(* The smaller of two numbers.                                             *)
LEMMA MinOfTwo ==
    ASSUME NEW a \in Int, NEW b \in Int
    PROVE  Min({a, b}) = IF a <= b THEN a ELSE b
BY DEF Min

(* A set of numbers up to n has a largest one.                             *)
LEMMA MaxOfSome ==
    ASSUME NEW n \in Nat, NEW S \in SUBSET (0..n), S # {}
    PROVE  Max(S) \in S /\ \A x \in S : Max(S) >= x
<1> DEFINE T == {k \in Nat : \A U \in SUBSET (0..k) : U # {} => \E x \in U : \A y \in U : x >= y}
<1>1. 0 \in T
    <2>1. ASSUME NEW U \in SUBSET (0..0), U # {}
          PROVE  \E x \in U : \A y \in U : x >= y
        <3>1. \A x \in 0..0 : x = 0
            OBVIOUS
        <3>2. PICK x \in U : TRUE
            BY <2>1
        <3>3. \A y \in U : y = 0
            BY <2>1, <3>1
        <3>4. x >= x
            BY <3>2, <3>3
        <3> QED BY <3>2, <3>3, <3>4, Zenon
    <2>2. 0 \in Nat
        OBVIOUS
    <2> QED BY <2>1, <2>2, Zenon
<1>2. ASSUME NEW k \in Nat, k \in T PROVE k + 1 \in T
    <2> SUFFICES ASSUME NEW U \in SUBSET (0..(k + 1)), U # {}
                 PROVE  \E x \in U : \A y \in U : x >= y
        OBVIOUS
    <2>1. CASE k + 1 \in U
        BY <2>1
    <2>2. CASE k + 1 \notin U
        <3>1. U \in SUBSET (0..k)
            BY <2>2
        <3> QED
            BY <3>1, <1>2
    <2> QED
        BY <2>1, <2>2
<1>3. n \in T
    <2> HIDE DEF T
    <2> QED BY <1>1, <1>2, SetInduction
<1> QED
    BY <1>3 DEF Max

(* What a recursive definition of Joined stands for.                       *)
Sums(f, n, lengths, gap) ==
    /\ f \in [0..n -> Nat]
    /\ f[0] = 0
    /\ \A k \in 1..n : f[k] = f[k - 1] + lengths[k] + (IF k = 1 THEN 0 ELSE gap)

LEMMA SumsExist ==
    ASSUME NEW lengths \in Seq(Nat), NEW gap \in Nat
    PROVE  \E f : Sums(f, Len(lengths), lengths, gap)
<1> DEFINE T == {n \in Nat : n <= Len(lengths) => \E f : Sums(f, n, lengths, gap)}
<1>1. 0 \in T
    <2>1. Sums([k \in 0..0 |-> 0], 0, lengths, gap)
        BY DEF Sums
    <2> QED BY <2>1
<1>2. ASSUME NEW n \in Nat, n \in T PROVE n + 1 \in T
    <2> SUFFICES ASSUME n + 1 <= Len(lengths)
                 PROVE  \E f : Sums(f, n + 1, lengths, gap)
        OBVIOUS
    <2>1. PICK f : Sums(f, n, lengths, gap)
        BY <1>2
    <2> DEFINE v == f[n] + lengths[n + 1] + (IF n + 1 = 1 THEN 0 ELSE gap)
               g == [k \in 0..(n + 1) |-> IF k = n + 1 THEN v ELSE f[k]]
    <2>2. lengths[n + 1] \in Nat /\ f[n] \in Nat
        BY <2>1 DEF Sums
    <2>3. v \in Nat
        <3>1. (IF n + 1 = 1 THEN 0 ELSE gap) \in Nat
            OBVIOUS
        <3>2. \A x, y, z \in Nat : x + y + z \in Nat
            OBVIOUS
        <3> QED BY <2>2, <3>1, <3>2, Zenon
    <2> HIDE DEF v
    <2>4. g \in [0..(n + 1) -> Nat] /\ g[0] = 0
        BY <2>1, <2>3 DEF Sums
    <2>5. ASSUME NEW k \in 1..(n + 1)
          PROVE  g[k] = g[k - 1] + lengths[k] + (IF k = 1 THEN 0 ELSE gap)
        <3>1. CASE k = n + 1
            BY <3>1 DEF v
        <3>2. CASE k # n + 1
            <4>1. k \in 1..n /\ k - 1 \in 0..n /\ k \in 0..n /\ k - 1 # n + 1
                BY <3>2
            <4>2. g[k] = f[k] /\ g[k - 1] = f[k - 1]
                BY <4>1
            <4> QED BY <4>1, <4>2, <2>1 DEF Sums
        <3> QED BY <3>1, <3>2
    <2>6. Sums(g, n + 1, lengths, gap)
        BY <2>4, <2>5 DEF Sums
    <2> QED BY <2>6
<1>3. Len(lengths) \in T
    <2> HIDE DEF T
    <2> QED BY <1>1, <1>2, SetInduction
<1> QED BY <1>3

(* Joined sums the lengths and the gaps between them.                      *)
LEMMA JoinedLengths ==
    ASSUME NEW lengths \in Seq(Nat), NEW gap \in Nat
    PROVE  Sums(Joined(lengths, gap), Len(lengths), lengths, gap)
<1> DEFINE n == Len(lengths)
           next(f) == [k \in 0..n |-> IF k = 0 THEN 0
                         ELSE f[k - 1] + lengths[k] + (IF k = 1 THEN 0 ELSE gap)]
           J == Joined(lengths, gap)
<1>0. n \in Nat
    OBVIOUS
<1>1. PICK f : Sums(f, n, lengths, gap)
    BY SumsExist
<1>2. f = next(f)
    BY <1>1, <1>0 DEF Sums
<1>3. J = CHOOSE g : g = next(g)
    BY DEF Joined
<1>4. J = next(J)
    <2> HIDE DEF next, J
    <2> QED BY <1>2, <1>3
<1>5. /\ J[0] = 0
      /\ \A k \in 1..n : J[k] = J[k - 1] + lengths[k] + (IF k = 1 THEN 0 ELSE gap)
    <2> HIDE DEF J
    <2> QED BY <1>4, <1>0
<1> DEFINE T == {k \in Nat : k \in 0..n => J[k] \in Nat}
<1>6. 0 \in T
    BY <1>5
<1>7. ASSUME NEW k \in Nat, k \in T PROVE k + 1 \in T
    <2> SUFFICES ASSUME k + 1 \in 0..n PROVE J[k + 1] \in Nat
        OBVIOUS
    <2>1. k \in 0..n /\ k + 1 \in 1..n /\ (k + 1) - 1 = k
        BY <1>0
    <2>2. J[k] \in Nat /\ lengths[k + 1] \in Nat
        BY <2>1, <1>7
    <2> HIDE DEF J
    <2>3. J[k + 1] = J[k] + lengths[k + 1] + (IF k + 1 = 1 THEN 0 ELSE gap)
        BY <2>1, <1>5
    <2> QED BY <2>2, <2>3
<1>8. \A k \in 0..n : J[k] \in Nat
    <2>1. Nat \subseteq T
        <3> HIDE DEF T
        <3> QED BY <1>6, <1>7, SetInduction
    <2> QED BY <2>1, <1>0
<1>9. J \in [0..n -> Nat]
    <2> HIDE DEF J
    <2> QED BY <1>4, <1>8
<1> QED BY <1>5, <1>9 DEF Sums

(* The sums grow.                                                          *)
LEMMA SumsGrow ==
    ASSUME NEW lengths \in Seq(Nat \ {0}), NEW gap \in Nat, NEW f,
           Sums(f, Len(lengths), lengths, gap),
           NEW i \in 0..Len(lengths), NEW j \in 0..Len(lengths), i < j
    PROVE  f[i] < f[j]
<1> DEFINE T == {k \in Nat : i + 1 + k <= Len(lengths) => f[i] < f[i + 1 + k]}
<1>0. ASSUME NEW k \in 0..Len(lengths), k + 1 <= Len(lengths)
      PROVE  f[k] \in Nat /\ f[k] < f[k + 1]
    <2>1. k + 1 \in 1..Len(lengths) /\ (k + 1) - 1 = k /\ lengths[k + 1] \in Nat \ {0}
        BY <1>0
    <2>2. f[k] \in Nat
        BY DEF Sums
    <2>3. f[k + 1] = f[k] + lengths[k + 1] + (IF k + 1 = 1 THEN 0 ELSE gap)
        BY <2>1 DEF Sums
    <2> QED BY <2>1, <2>2, <2>3
<1>1. 0 \in T
    BY <1>0
<1>2. ASSUME NEW k \in Nat, k \in T PROVE k + 1 \in T
    <2> SUFFICES ASSUME i + 1 + (k + 1) <= Len(lengths)
                 PROVE  f[i] < f[i + 1 + (k + 1)]
        OBVIOUS
    <2>1. f[i] < f[i + 1 + k] /\ i + 1 + k \in 0..Len(lengths)
        BY <1>2
    <2>2. f[i + 1 + k] < f[(i + 1 + k) + 1]
        BY <2>1, <1>0
    <2>3. (i + 1 + k) + 1 = i + 1 + (k + 1)
        OBVIOUS
    <2>4. f[i] \in Nat /\ f[i + 1 + k] \in Nat /\ f[i + 1 + (k + 1)] \in Nat
        <3>1. i \in 0..Len(lengths) /\ i + 1 + (k + 1) \in 0..Len(lengths)
            OBVIOUS
        <3>2. \A x \in 0..Len(lengths) : f[x] \in Nat
            BY DEF Sums
        <3> QED BY <2>1, <3>1, <3>2
    <2> QED BY <2>1, <2>2, <2>3, <2>4
<1>3. j - i - 1 \in T
    <2> HIDE DEF T
    <2>1. j - i - 1 \in Nat
        OBVIOUS
    <2> QED BY <1>1, <1>2, <2>1, SetInduction
<1> QED BY <1>3

(*---------------------------- context blocks ----------------------------*)

(* The lines of the facts, joined, grow from nothing to all of them.       *)
LEMMA LinesGrow ==
    ASSUME facts \in Seq(Nat \ {0})
    PROVE  /\ Len(facts) \in Nat /\ DOMAIN facts = 1..Len(facts)
           /\ \A k \in 0..Len(facts) : Lines[k] \in Nat
           /\ Lines[0] = 0
           /\ \A i, j \in 0..Len(facts) : i < j => Lines[i] < Lines[j]
<1> DEFINE N == Len(facts)
<1>1. N \in Nat /\ DOMAIN facts = 1..N /\ facts \in Seq(Nat)
    OBVIOUS
<1>2. Sums(Lines, N, facts, 1)
    BY <1>1, JoinedLengths DEF Lines
<1>3. ASSUME NEW i \in 0..N, NEW j \in 0..N, i < j
      PROVE  Lines[i] < Lines[j]
    <2> DEFINE L == Lines
    <2>1. Sums(L, N, facts, 1)
        BY <1>2
    <2> HIDE DEF L
    <2>2. L[i] < L[j]
        BY <2>1, <1>3, SumsGrow
    <2> QED BY <2>2 DEF L
<1>4. (\A k \in 0..N : Lines[k] \in Nat) /\ Lines[0] = 0
    <2> DEFINE L == Lines
    <2>1. Sums(L, N, facts, 1)
        BY <1>2
    <2> HIDE DEF L
    <2>2. (\A k \in 0..N : L[k] \in Nat) /\ L[0] = 0
        BY <2>1, <1>1 DEF Sums
    <2> QED BY <2>2 DEF L
<1> QED BY <1>1, <1>3, <1>4

(* The loop keeps every line up to the first one that ends beyond the      *)
(* limit, and those it drops are the ones that do.                         *)
LEMMA DroppedLines ==
    ASSUME facts \in Seq(Nat \ {0})
    PROVE  /\ Dropped = Cardinality({k \in DOMAIN facts : Lines[k] > Limit})
           /\ Structured <= Limit => {k \in DOMAIN facts : Lines[k] > Limit} = {}
           /\ Structured > Limit => {k \in DOMAIN facts : Lines[k] > Limit} # {}
<1> DEFINE L == Lines
           N == Len(facts)
           S == {k \in 0..N : \A i \in 1..k : L[i] <= Limit}
           C == {k \in 1..N : L[k] > Limit}
           K == Max(S)
<1>1. /\ N \in Nat /\ DOMAIN facts = 1..N
      /\ \A k \in 0..N : L[k] \in Nat
      /\ L[0] = 0
      /\ \A i, j \in 0..N : i < j => L[i] < L[j]
    BY LinesGrow
<1>2. Limit \in Nat
    BY ContextBlockAssumption
<1>3. FactsKept = K /\ Structured = L[N] /\ C = {k \in DOMAIN facts : Lines[k] > Limit}
    BY <1>1 DEF FactsKept, Structured
<1>n. Dropped = N - K
    BY <1>3 DEF Dropped
<1> HIDE DEF L, N
<1>4. 0 \in S /\ S \in SUBSET (0..N)
    BY <1>1
<1>5. K \in S /\ \A x \in S : K >= x
    <2> HIDE DEF S
    <2> QED BY <1>1, <1>4, MaxOfSome
<1>6. K \in 0..N /\ \A i \in 1..K : L[i] <= Limit
    BY <1>5
<1>7. ASSUME K < N PROVE L[K + 1] > Limit
    <2> SUFFICES ASSUME ~(L[K + 1] > Limit) PROVE FALSE
        OBVIOUS
    <2>0. PICK k \in 0..N : k = K
        BY <1>6
    <2>1. k + 1 \in 0..N /\ k + 1 \in 1..N /\ L[k + 1] <= Limit
        <3> HIDE DEF K
        <3> QED BY <2>0, <1>1, <1>2, <1>7
    <2>2. \A i \in 1..(k + 1) : L[i] <= Limit
        <3> HIDE DEF K
        <3> QED BY <2>1, <1>6, <2>0
    <2>3. k + 1 \in S
        BY <2>1, <2>2
    <2> HIDE DEF S, K
    <2> QED BY <2>0, <2>3, <1>5
<1> HIDE DEF K, S
<1>8. C = (K + 1)..N
    <2>1. ASSUME NEW k \in 1..N, k <= K PROVE ~(L[k] > Limit)
        BY <2>1, <1>6, <1>1, <1>2
    <2>2. ASSUME NEW k \in 1..N, k > K PROVE L[k] > Limit
        <3>1. K < N /\ K + 1 \in 0..N /\ k \in 0..N
            BY <2>2, <1>6, <1>1
        <3>2. L[K + 1] > Limit
            BY <3>1, <1>7
        <3>3. k = K + 1 \/ L[K + 1] < L[k]
            BY <3>1, <2>2, <1>1, <1>6
        <3>4. L[k] \in Nat /\ L[K + 1] \in Nat
            BY <3>1, <1>1
        <3> QED BY <3>2, <3>3, <3>4, <1>2
    <2>3. \A k \in 1..N : k \in C <=> k \in (K + 1)..N
        BY <2>1, <2>2, <1>6
    <2> QED BY <2>3, <1>6
<1>9. Cardinality(C) = N - K
    <2>1. PICK k \in 0..N : k = K
        BY <1>6
    <2>2. PICK a \in Int, b \in Int : a = k + 1 /\ b = N
        BY <2>1, <1>1
    <2>3. Cardinality(a..b) = IF a > b THEN 0 ELSE b - a + 1
        BY FS_Interval
    <2>4. a..b = C
        BY <2>1, <2>2, <1>8
    <2>5. Cardinality(C) = IF k + 1 > N THEN 0 ELSE N - (k + 1) + 1
        BY <2>2, <2>3, <2>4
    <2> HIDE DEF C
    <2> QED BY <2>1, <2>5, <1>1
<1>10. Structured <= Limit => C = {}
    <2> SUFFICES ASSUME L[N] <= Limit, NEW k \in C PROVE FALSE
        BY <1>3
    <2>1. k \in 1..N /\ L[k] > Limit
        OBVIOUS
    <2> HIDE DEF C
    <2>2. k \in 0..N /\ N \in 0..N /\ (k = N \/ k < N)
        BY <2>1, <1>1
    <2>3. L[k] \in Nat /\ L[N] \in Nat /\ (k = N \/ L[k] < L[N])
        BY <2>2, <1>1
    <2>4. CASE k = N
        BY <2>1, <2>4, <2>3, <1>2
    <2>5. CASE L[k] < L[N]
        BY <2>1, <2>5, <2>3, <1>2
    <2> QED BY <2>3, <2>4, <2>5
<1>11. Structured > Limit => C # {}
    <2> SUFFICES ASSUME L[N] > Limit PROVE N \in C
        BY <1>3
    <2>1. N # 0
        BY <1>1, <1>2
    <2> QED BY <2>1, <1>1
<1> QED
    <2> HIDE DEF C
    <2> QED BY <1>3, <1>n, <1>9, <1>10, <1>11

(* What retrieve_context finds has a length.                               *)
LEMMA FoundLength ==
    ASSUME documents \in Seq(Seq(Seq(Int))), NEW m \in Matches
    PROVE  Found(m) \in Nat
<1>1. PICK n \in 0..MaxResults : m \in [1..n -> StoredChunks]
    BY DEF Matches
<1>2. n \in Nat
    BY <1>1, KnowledgeAssumption
<1> DEFINE lengths == [i \in DOMAIN m |-> Len(documents[m[i][1]][m[i][2]])]
<1>3. \A x \in StoredChunks : Len(documents[x[1]][x[2]]) \in Nat
    <2> SUFFICES ASSUME NEW d \in DOMAIN documents, NEW k \in DOMAIN documents[d]
                 PROVE  Len(documents[d][k]) \in Nat
        BY DEF StoredChunks
    <2>1. documents[d] \in Seq(Seq(Int))
        OBVIOUS
    <2>2. documents[d][k] \in Seq(Int)
        BY <2>1
    <2> QED BY <2>2
<1>4. \A i \in 1..n : lengths[i] \in Nat
    BY <1>1, <1>3
<1>5. lengths \in Seq(Nat) /\ Len(lengths) = n /\ DOMAIN m = 1..n
    <2>1. DOMAIN lengths = 1..n /\ DOMAIN m = 1..n
        BY <1>1
    <2>2. lengths \in [1..n -> Nat]
        BY <1>4, <2>1
    <2> HIDE DEF lengths
    <2> QED BY <2>1, <2>2, <1>2, IsASeq, LenProperties
<1>6. Len(m) = n
    BY <1>1, <1>2, <1>5
<1>7. Sums(Joined(lengths, 2), n, lengths, 2)
    <2> HIDE DEF lengths
    <2> QED BY <1>5, JoinedLengths
<1>8. Joined(lengths, 2)[n] \in Nat
    <2> HIDE DEF lengths
    <2>1. n \in 0..n
        BY <1>2
    <2> QED BY <1>7, <2>1 DEF Sums
<1> QED BY <1>6, <1>8 DEF Found

BlockSound == BlockFits /\ CutOnlyWhenFull /\ CutFactsAreReported

(* A turn builds a block that fits, is full if anything was cut, and tells *)
(* of the facts it cut.                                                    *)
LEMMA TurnSound ==
    ASSUME facts \in Seq(Nat \ {0}), documents \in Seq(Seq(Seq(Int))),
           warned = NoWarning, Turn
    PROVE  BlockSound' /\ block' # NoBlock
<1> DEFINE S == Structured
           C == {k \in DOMAIN facts : Lines[k] > Limit}
           D == Dropped
<1>1. S \in Nat
    BY LinesGrow DEF Structured
<1>2. D = Cardinality(C) /\ (S <= Limit => C = {}) /\ (S > Limit => C # {})
    BY DroppedLines
<1>3. \A k \in DOMAIN facts : Lines[k] \in Nat /\ Lines[k] <= S
    <2> SUFFICES ASSUME NEW k \in DOMAIN facts PROVE Lines[k] \in Nat /\ Lines[k] <= S
        OBVIOUS
    <2>1. k \in 0..Len(facts) /\ Len(facts) \in 0..Len(facts) /\ (k = Len(facts) \/ k < Len(facts))
        BY LinesGrow
    <2>2. Lines[k] \in Nat /\ (Lines[k] = S \/ Lines[k] < S)
        BY <2>1, LinesGrow DEF Structured
    <2> QED BY <2>2, <1>1
<1>4. Limit \in Nat /\ MaxContext \in Nat /\ MaxContext >= Limit
    BY ContextBlockAssumption, KnowledgeAssumption
<1>5. PICK r \in Nat, n \in Nat :
          /\ retrieved' = r /\ found' = n
          /\ r = IF n <= MaxContext THEN n ELSE MaxContext
    <2>1. PICK m \in Matches : retrieved' = RetrieveContext(m) /\ found' = Found(m)
        BY DEF Turn
    <2>2. PICK n \in Nat : n = Found(m)
        BY <2>1, FoundLength
    <2>3. RetrieveContext(m) = IF n <= MaxContext THEN n ELSE MaxContext
        BY <2>2, <1>4, MinOfTwo DEF RetrieveContext
    <2> QED BY <2>1, <2>2, <2>3, <1>4
<1>6. facts' = facts
    BY DEF Turn
<1>7. Structured' = S /\ Lines' = Lines
    BY <1>6 DEF Structured, Lines
<1>8. \A x \in Nat : UpTo(x) = IF x <= Limit THEN x ELSE Limit
    BY <1>4, MinOfTwo DEF UpTo
<1> HIDE DEF S, D, C
<1>9. PICK f \in Nat, t \in Nat :
          /\ block' = [facts |-> f, retrieved |-> t]
          /\ f = IF S <= Limit THEN S ELSE Limit
          /\ f + (IF f > 0 /\ t > 0 THEN 2 ELSE 0) + t <= Limit
          /\ (f < S \/ t < n) => f + (IF f > 0 /\ t > 0 THEN 2 ELSE 0) + t >= Limit - 2
          /\ (warned' = NoWarning /\ S <= Limit) \/ warned' = D
    <2>1. CASE OnlyRetrieved
        <3>1. S = 0 /\ UpTo(r) \in Nat /\ block' = [facts |-> 0, retrieved |-> UpTo(r)] /\ warned' = NoWarning
            BY <2>1, <1>5, <1>8, <1>4 DEF OnlyRetrieved, Built, S
        <3>2. UpTo(r) = IF r <= Limit THEN r ELSE Limit
            BY <1>8
        <3> QED BY <3>1, <3>2, <1>4, <1>5
    <2>2. CASE OnlyFacts
        <3>1. S > 0 /\ r = 0 /\ block' = [facts |-> UpTo(S), retrieved |-> 0]
              /\ warned' = IF S > Limit THEN D ELSE NoWarning
            BY <2>2, <1>5 DEF OnlyFacts, Built, S, D
        <3>2. UpTo(S) = IF S <= Limit THEN S ELSE Limit
            BY <1>8, <1>1
        <3> QED BY <3>1, <3>2, <1>1, <1>4, <1>5
    <2>3. CASE NoRoom
        <3>1. S > 0 /\ r > 0 /\ Limit - S - 2 <= 0 /\ block' = [facts |-> UpTo(S), retrieved |-> 0]
              /\ warned' = D
            BY <2>3, <1>5 DEF NoRoom, Built, S, D, Remaining
        <3>2. UpTo(S) = IF S <= Limit THEN S ELSE Limit
            BY <1>8, <1>1
        <3> QED BY <3>1, <3>2, <1>1, <1>4, <1>5
    <2>4. CASE Both
        <3>1. S > 0 /\ r > 0 /\ Limit - S - 2 > 0
              /\ block' = [facts |-> S, retrieved |-> Min({r, Limit - S - 2})]
              /\ warned' = NoWarning
            BY <2>4, <1>5 DEF Both, Built, S, Remaining
        <3>2. Min({r, Limit - S - 2}) = IF r <= Limit - S - 2 THEN r ELSE Limit - S - 2
            <4>1. PICK a \in Int, b \in Int : a = r /\ b = Limit - S - 2
                <5>1. r \in Int /\ Limit - S - 2 \in Int
                    BY <1>1, <1>4, <1>5
                <5> QED BY <5>1
            <4>2. Min({a, b}) = IF a <= b THEN a ELSE b
                BY MinOfTwo
            <4> QED BY <4>1, <4>2
        <3> QED BY <3>1, <3>2, <1>1, <1>4, <1>5
    <2> QED BY <2>1, <2>2, <2>3, <2>4 DEF Turn
<1>10. block'.facts = f /\ block'.retrieved = t
    BY <1>9
<1>11. Separator' = IF f > 0 /\ t > 0 THEN 2 ELSE 0
    BY <1>10 DEF Separator
<1>12. BlockFits'
    <2>1. UpTo(S) = f
        BY <1>8, <1>9, <1>1
    <2>2. (UpTo(Structured))' = UpTo(S)
        BY <1>7 DEF UpTo
    <2> QED BY <2>1, <2>2, <1>9, <1>10, <1>11 DEF BlockFits
<1>13. CutOnlyWhenFull'
    BY <1>7, <1>5, <1>9, <1>10, <1>11 DEF CutOnlyWhenFull
<1>14. CutFactsAreReported'
    <2>1. CutLines' = {k \in DOMAIN facts : Lines[k] > f}
        BY <1>6, <1>7, <1>10 DEF CutLines
    <2>2. CASE S <= Limit
        <3>1. \A k \in DOMAIN facts : ~(Lines[k] > f)
            BY <2>2, <1>3, <1>9, <1>1
        <3>2. CutLines' = {} /\ C = {}
            BY <3>1, <2>1, <2>2, <1>2
        <3>3. D = 0
            BY <3>2, <1>2, FS_EmptySet
        <3> QED BY <3>2, <3>3, <1>9 DEF CutFactsAreReported
    <2>3. CASE S > Limit
        <3>1. f = Limit /\ warned' = D
            BY <2>3, <1>9, <1>1, <1>4
        <3>2. CutLines' = C
            BY <3>1, <2>1 DEF C
        <3>3. (Cardinality(CutLines))' = D
            BY <3>2, <1>2
        <3> QED BY <3>1, <3>2, <3>3, <2>3, <1>2 DEF CutFactsAreReported
    <2> QED BY <2>2, <2>3, <1>1, <1>4
<1>15. block' # NoBlock
    BY <1>10 DEF NoBlock
<1> QED BY <1>12, <1>13, <1>14, <1>15 DEF BlockSound

(*------------------------------- documents ------------------------------*)

Chunk == Seq(Int)

(* A text to split, with the two arguments of chunk_text.                  *)
IsText(t) ==
    /\ t.units \in Seq(Nat \ {0})
    /\ t.size \in Nat
    /\ t.overlap \in Nat

Text == [units |-> units, size |-> size, overlap |-> overlap]

(* The words of its first k sentences.                                     *)
End(t, k) == Joined(t.units, 0)[k]

(* How much a chunk after s repeats.                                       *)
Overlap(t, s) == Min({t.overlap, Len(s)})

(* Chunk s is what the sentences k+1 to l make of one that follows prev.   *)
Piece(t, prev, s, k, l) ==
    /\ k \in 0..Len(t.units) /\ l \in 0..Len(t.units) /\ k < l
    /\ LastWord(prev) = End(t, k)
    /\ s = [j \in 1..(Overlap(t, prev) + End(t, l) - End(t, k)) |->
               End(t, k) - Overlap(t, prev) + j]
    /\ l = k + 1 \/ Len(s) <= t.size

(* The sentence after l does not fit, or there is none.                    *)
Ended(t, s, l) == l = Len(t.units) \/ Len(s) + t.units[l + 1] > t.size

Whole(t, prev, s) ==
    \E k, l \in 0..Len(t.units) : Piece(t, prev, s, k, l) /\ Ended(t, s, l)

(* Chunks as chunk_text makes them: each holds as many sentences as fit.   *)
Split(t, cs) ==
    /\ cs \in Seq(Chunk)
    /\ \A i \in DOMAIN cs : Whole(t, Before(cs, i), cs[i])

(* The chunk after which the next one is made.                             *)
Latest(cs) == Before(cs, Len(cs) + 1)

(* The sentences of a text end one after the other.                        *)
LEMMA EndsGrow ==
    ASSUME NEW t, IsText(t)
    PROVE  /\ Len(t.units) \in Nat
           /\ \A k \in 0..Len(t.units) : End(t, k) \in Nat
           /\ End(t, 0) = 0
           /\ \A k \in 1..Len(t.units) : End(t, k) = End(t, k - 1) + t.units[k] /\ t.units[k] \in Nat \ {0}
           /\ \A i, j \in 0..Len(t.units) : i < j => End(t, i) < End(t, j)
<1> DEFINE N == Len(t.units)
           f == Joined(t.units, 0)
<1>1. N \in Nat /\ t.units \in Seq(Nat) /\ t.units \in Seq(Nat \ {0})
    BY DEF IsText
<1>2. Sums(f, N, t.units, 0)
    BY <1>1, JoinedLengths
<1>3. \A k : End(t, k) = f[k]
    BY DEF End
<1> HIDE DEF f
<1>4. \A i, j \in 0..N : i < j => f[i] < f[j]
    BY <1>1, <1>2, SumsGrow
<1>5. (\A k \in 0..N : f[k] \in Nat) /\ f[0] = 0
    BY <1>1, <1>2 DEF Sums
<1>6. ASSUME NEW k \in 1..N PROVE f[k] = f[k - 1] + t.units[k] /\ t.units[k] \in Nat \ {0}
    <2>1. f[k] = f[k - 1] + t.units[k] + (IF k = 1 THEN 0 ELSE 0)
        BY <1>2 DEF Sums
    <2>2. t.units[k] \in Nat \ {0} /\ k - 1 \in 0..N
        BY <1>1
    <2>3. f[k - 1] \in Nat
        BY <2>2, <1>5
    <2> QED BY <2>1, <2>2, <2>3
<1> HIDE DEF N
<1>7. \A k \in 1..N : End(t, k) = End(t, k - 1) + t.units[k] /\ t.units[k] \in Nat \ {0}
    BY <1>3, <1>6
<1>8. (\A k \in 0..N : End(t, k) \in Nat) /\ End(t, 0) = 0
    BY <1>3, <1>5
<1>9. \A i, j \in 0..N : i < j => End(t, i) < End(t, j)
    BY <1>3, <1>4
<1> QED BY <1>1, <1>7, <1>8, <1>9 DEF N

LEMMA OverlapFits ==
    ASSUME NEW t, IsText(t), NEW s \in Chunk
    PROVE  Overlap(t, s) \in Nat /\ Overlap(t, s) <= Len(s)
<1>1. PICK a \in Nat, b \in Nat : a = t.overlap /\ b = Len(s)
    BY DEF IsText, Chunk
<1>2. Min({a, b}) = IF a <= b THEN a ELSE b
    BY MinOfTwo
<1> QED BY <1>1, <1>2 DEF Overlap

(* A piece is as long as its overlap and its sentences, and ends with them.*)
LEMMA PieceEnds ==
    ASSUME NEW t, IsText(t), NEW prev \in Chunk, NEW s, NEW k, NEW l,
           Piece(t, prev, s, k, l)
    PROVE  /\ s \in Chunk /\ s # <<>>
           /\ Len(s) = Overlap(t, prev) + End(t, l) - End(t, k)
           /\ End(t, l) > End(t, k)
           /\ LastWord(s) = End(t, l)
<1>1. k \in 0..Len(t.units) /\ l \in 0..Len(t.units) /\ k < l
    BY DEF Piece
<1>2. End(t, k) \in Nat /\ End(t, l) \in Nat /\ End(t, k) < End(t, l)
    BY <1>1, EndsGrow
<1>3. Overlap(t, prev) \in Nat
    BY OverlapFits
<1>4. PICK a \in Nat, b \in Nat, o \in Nat : a = End(t, k) /\ b = End(t, l) /\ o = Overlap(t, prev)
    BY <1>2, <1>3
<1>5. PICK n \in Nat : n = o + b - a /\ n >= 1
    BY <1>2, <1>4
<1>6. s = [j \in 1..n |-> a - o + j]
    BY <1>4, <1>5 DEF Piece
<1>7. s \in Seq(Int) /\ Len(s) = n
    <2>1. s \in [1..n -> Int]
        BY <1>6
    <2> QED BY <2>1, IsASeq
<1>8. s # <<>> /\ s[n] = b
    BY <1>5, <1>6, <1>7
<1>9. LastWord(s) = b
    BY <1>7, <1>8 DEF LastWord, Last
<1> QED BY <1>2, <1>4, <1>5, <1>7, <1>8, <1>9 DEF Chunk

(* What follows a chunk is determined: as many sentences as fit.           *)
LEMMA PieceUnique ==
    ASSUME NEW t, IsText(t), NEW prev \in Chunk, NEW r, NEW s,
           Whole(t, prev, r), Whole(t, prev, s)
    PROVE  r = s
<1> DEFINE N == Len(t.units)
           o == Overlap(t, prev)
<1>1. PICK k \in 0..N, l \in 0..N : Piece(t, prev, r, k, l) /\ Ended(t, r, l)
    BY DEF Whole
<1>2. PICK i \in 0..N, j \in 0..N : Piece(t, prev, s, i, j) /\ Ended(t, s, j)
    BY DEF Whole
<1>3. k = i
    <2>1. End(t, k) = End(t, i)
        BY <1>1, <1>2 DEF Piece
    <2>2. End(t, k) \in Nat /\ End(t, i) \in Nat /\ (k < i => End(t, k) < End(t, i)) /\ (i < k => End(t, i) < End(t, k))
        BY EndsGrow
    <2>3. N \in Nat
        BY EndsGrow
    <2> QED BY <2>1, <2>2, <2>3
(* Neither can go on where the other one stops.                            *)
<1>4. ASSUME NEW x, NEW y, NEW m \in 0..N, NEW n \in 0..N, m < n,
             Piece(t, prev, x, k, m), Ended(t, x, m), Piece(t, prev, y, k, n)
      PROVE  FALSE
    <2>0. N \in Nat /\ o \in Nat
        BY EndsGrow, OverlapFits
    <2>1. m + 1 \in 1..N /\ m + 1 \in 0..N /\ (m + 1) - 1 = m /\ m + 1 <= n
        BY <1>4, <2>0
    <2>2. End(t, m + 1) = End(t, m) + t.units[m + 1] /\ t.units[m + 1] \in Nat
        BY <2>1, EndsGrow
    <2>3. End(t, m + 1) <= End(t, n) /\ End(t, m + 1) \in Nat /\ End(t, n) \in Nat
          /\ End(t, m) \in Nat /\ End(t, k) \in Nat
        <3>1. (\A q \in 0..N : End(t, q) \in Nat) /\ (m + 1 < n => End(t, m + 1) < End(t, n))
            BY <2>1, EndsGrow
        <3>2. m + 1 = n \/ m + 1 < n
            BY <2>1, <2>0
        <3> QED BY <3>1, <3>2, <2>1
    <2>4. Len(x) = o + End(t, m) - End(t, k) /\ Len(y) = o + End(t, n) - End(t, k)
        BY <1>4, PieceEnds
    <2>5. k < m /\ n # k + 1
        BY <1>4, <2>0 DEF Piece
    <2>6. Len(y) <= t.size
        BY <1>4, <2>5 DEF Piece
    <2>7. Len(x) + t.units[m + 1] > t.size
        BY <1>4, <2>0 DEF Ended
    <2>8. t.size \in Nat
        BY DEF IsText
    <2> HIDE DEF o
    <2>9. PICK a \in Nat, b \in Nat, c \in Nat, d \in Nat, u \in Nat :
              a = End(t, m) /\ b = End(t, m + 1) /\ c = End(t, n) /\ d = End(t, k) /\ u = t.units[m + 1]
        BY <2>2, <2>3
    <2>10. Len(x) = o + a - d /\ Len(y) = o + c - d /\ b = a + u /\ b <= c
        BY <2>2, <2>3, <2>4, <2>9
    <2>11. ~(Len(x) + u > t.size)
        BY <2>0, <2>6, <2>8, <2>10
    <2> QED BY <2>7, <2>9, <2>11
<1>5. l = j
    <2>1. ~(l < j)
        BY <1>1, <1>2, <1>3, <1>4
    <2>2. ~(j < l)
        BY <1>1, <1>2, <1>3, <1>4
    <2>3. N \in Nat
        BY EndsGrow
    <2> QED BY <2>1, <2>2, <2>3
<1> QED BY <1>1, <1>2, <1>3, <1>5 DEF Piece

(* A chunk before another one is a chunk, or there is none.                *)
LEMMA BeforeIsChunk ==
    ASSUME NEW cs \in Seq(Chunk)
    PROVE  /\ Len(cs) \in Nat /\ DOMAIN cs = 1..Len(cs)
           /\ \A i \in 1..(Len(cs) + 1) : Before(cs, i) \in Chunk
           /\ Latest(cs) \in Chunk
<1>1. Len(cs) \in Nat /\ DOMAIN cs = 1..Len(cs)
    OBVIOUS
<1>2. ASSUME NEW i \in 1..(Len(cs) + 1) PROVE Before(cs, i) \in Chunk
    <2>1. CASE i = 1
        BY <2>1 DEF Before, Chunk
    <2>2. CASE i # 1
        <3>1. i - 1 \in 1..Len(cs)
            BY <2>2, <1>1
        <3>2. cs[i - 1] \in Chunk
            BY <3>1
        <3> QED BY <3>2, <2>2 DEF Before
    <2> QED BY <2>1, <2>2
<1>3. Len(cs) + 1 \in 1..(Len(cs) + 1)
    BY <1>1
<1> QED BY <1>1, <1>2, <1>3 DEF Latest

(* What is split twice gives the same chunks, as far as both have got.     *)
LEMMA SplitAgrees ==
    ASSUME NEW t, IsText(t), NEW a, NEW b, Split(t, a), Split(t, b)
    PROVE  \A i \in DOMAIN a : i \in DOMAIN b => a[i] = b[i]
<1>0. /\ a \in Seq(Chunk) /\ b \in Seq(Chunk)
      /\ Len(a) \in Nat /\ DOMAIN a = 1..Len(a)
      /\ Len(b) \in Nat /\ DOMAIN b = 1..Len(b)
      /\ \A i \in 1..(Len(a) + 1) : Before(a, i) \in Chunk
    BY BeforeIsChunk DEF Split
<1>1. ASSUME NEW i \in DOMAIN a, i \in DOMAIN b, Before(a, i) = Before(b, i)
      PROVE  a[i] = b[i]
    <2>1. Whole(t, Before(a, i), a[i]) /\ Whole(t, Before(b, i), b[i])
        BY <1>1 DEF Split
    <2>2. Before(a, i) \in Chunk
        BY <1>0, <1>1
    <2> QED BY <2>1, <2>2, <1>1, PieceUnique
<1> DEFINE T == {n \in Nat : n + 1 \in DOMAIN a /\ n + 1 \in DOMAIN b => a[n + 1] = b[n + 1]}
<1>2. 0 \in T
    <2>1. Before(a, 1) = Before(b, 1)
        BY DEF Before
    <2> QED BY <2>1, <1>1
<1>3. ASSUME NEW n \in Nat, n \in T PROVE n + 1 \in T
    <2> SUFFICES ASSUME (n + 1) + 1 \in DOMAIN a, (n + 1) + 1 \in DOMAIN b
                 PROVE  a[(n + 1) + 1] = b[(n + 1) + 1]
        OBVIOUS
    <2>1. n + 1 \in DOMAIN a /\ n + 1 \in DOMAIN b
        BY <1>0
    <2>2. a[n + 1] = b[n + 1] /\ (n + 1) + 1 # 1 /\ ((n + 1) + 1) - 1 = n + 1
        BY <1>3, <2>1
    <2>3. Before(a, (n + 1) + 1) = Before(b, (n + 1) + 1)
        BY <2>2 DEF Before
    <2> QED BY <2>3, <1>1
<1>4. Nat \subseteq T
    <2> HIDE DEF T
    <2> QED BY <1>2, <1>3, SetInduction
<1> SUFFICES ASSUME NEW i \in DOMAIN a, i \in DOMAIN b PROVE a[i] = b[i]
    OBVIOUS
<1>5. i - 1 \in Nat /\ (i - 1) + 1 = i
    BY <1>0
<1>6. i - 1 \in T
    BY <1>4, <1>5
<1> QED BY <1>5, <1>6

(* Nothing comes after chunks that reach the end of the text.              *)
LEMMA SplitEnds ==
    ASSUME NEW t, IsText(t), NEW a, NEW b, Split(t, a), Split(t, b),
           LastWord(Latest(b)) = End(t, Len(t.units))
    PROVE  Len(a) <= Len(b)
<1>0. /\ a \in Seq(Chunk) /\ b \in Seq(Chunk)
      /\ Len(a) \in Nat /\ DOMAIN a = 1..Len(a)
      /\ Len(b) \in Nat /\ DOMAIN b = 1..Len(b)
    BY DEF Split
<1> SUFFICES ASSUME Len(a) > Len(b) PROVE FALSE
    BY <1>0
<1> DEFINE i == Len(b) + 1
<1>1. i \in DOMAIN a /\ i \in Nat
    BY <1>0
<1>2. Before(a, i) = Latest(b)
    <2>1. CASE Len(b) = 0
        BY <2>1 DEF Before, Latest
    <2>2. CASE Len(b) # 0
        <3>1. Len(b) \in DOMAIN a /\ Len(b) \in DOMAIN b /\ i # 1 /\ i - 1 = Len(b)
            BY <2>2, <1>0
        <3>2. a[Len(b)] = b[Len(b)]
            BY <3>1, SplitAgrees
        <3> QED BY <3>1, <3>2 DEF Before, Latest
    <2> QED BY <2>1, <2>2
<1>3. Whole(t, Before(a, i), a[i])
    BY <1>1 DEF Split
<1>4. PICK k \in 0..Len(t.units), l \in 0..Len(t.units) : Piece(t, Latest(b), a[i], k, l)
    BY <1>2, <1>3 DEF Whole
<1>5. k < l /\ End(t, k) = End(t, Len(t.units))
    BY <1>4 DEF Piece
<1>6. Len(t.units) \in Nat /\ Len(t.units) \in 0..Len(t.units)
    BY EndsGrow
<1>7. k < Len(t.units)
    BY <1>5, <1>6
<1>8. End(t, k) < End(t, Len(t.units)) /\ End(t, k) \in Nat
    BY <1>6, <1>7, EndsGrow
<1> QED BY <1>5, <1>8

(* One more whole chunk.                                                   *)
LEMMA SplitAppend ==
    ASSUME NEW t, IsText(t), NEW cs, Split(t, cs), NEW s, Whole(t, Latest(cs), s)
    PROVE  /\ Split(t, Append(cs, s))
           /\ Latest(Append(cs, s)) = s
<1> DEFINE ds == Append(cs, s)
<1>0. cs \in Seq(Chunk) /\ Len(cs) \in Nat /\ DOMAIN cs = 1..Len(cs) /\ Latest(cs) \in Chunk
    BY BeforeIsChunk DEF Split
<1>1. s \in Chunk
    BY <1>0, PieceEnds DEF Whole
<1>2. /\ ds \in Seq(Chunk) /\ Len(ds) = Len(cs) + 1 /\ DOMAIN ds = 1..(Len(cs) + 1)
      /\ \A i \in 1..Len(cs) : ds[i] = cs[i]
      /\ ds[Len(cs) + 1] = s
    BY <1>0, <1>1
<1> HIDE DEF ds
<1>3. ASSUME NEW i \in DOMAIN ds PROVE Whole(t, Before(ds, i), ds[i])
    <2>1. Before(ds, i) = Before(cs, i)
        <3>1. i = 1 \/ i - 1 \in 1..Len(cs)
            BY <1>0, <1>2
        <3> QED BY <3>1, <1>2 DEF Before
    <2>2. CASE i = Len(cs) + 1
        BY <2>1, <2>2, <1>2 DEF Latest
    <2>3. CASE i # Len(cs) + 1
        <3>1. i \in DOMAIN cs /\ ds[i] = cs[i]
            BY <2>3, <1>0, <1>2
        <3>2. Whole(t, Before(cs, i), cs[i])
            BY <3>1 DEF Split
        <3> QED BY <3>1, <3>2, <2>1
    <2> QED BY <2>2, <2>3
<1>4. Latest(ds) = s
    <2>1. (Len(cs) + 1) + 1 # 1 /\ ((Len(cs) + 1) + 1) - 1 = Len(cs) + 1
        BY <1>0
    <2> QED BY <2>1, <1>2 DEF Latest, Before
<1> QED BY <1>2, <1>3, <1>4 DEF Split, ds

(* The words after word a, n of them.                                      *)
Words(a, n) == [j \in 1..n |-> a + j]

LEMMA WordsJoin ==
    ASSUME NEW a \in Int, NEW m \in Nat, NEW n \in Nat
    PROVE  /\ Words(a, n) \in Seq(Int) /\ Len(Words(a, n)) = n
           /\ Words(a, m) \o Words(a + m, n) = Words(a, m + n)
<1>1. \A b \in Int, q \in Nat :
        /\ Words(b, q) \in Seq(Int) /\ Len(Words(b, q)) = q
        /\ \A j \in 1..q : Words(b, q)[j] = b + j
    <2> SUFFICES ASSUME NEW b \in Int, NEW q \in Nat
                 PROVE  /\ Words(b, q) \in Seq(Int) /\ Len(Words(b, q)) = q
                        /\ \A j \in 1..q : Words(b, q)[j] = b + j
        OBVIOUS
    <2>1. Words(b, q) \in [1..q -> Int]
        BY DEF Words
    <2> QED BY <2>1, IsASeq DEF Words
<1> DEFINE u == Words(a, m)
           v == Words(a + m, n)
           w == Words(a, m + n)
<1>2. /\ u \in Seq(Int) /\ Len(u) = m /\ \A j \in 1..m : u[j] = a + j
      /\ v \in Seq(Int) /\ Len(v) = n /\ \A j \in 1..n : v[j] = a + m + j
      /\ w \in Seq(Int) /\ Len(w) = m + n /\ \A j \in 1..(m + n) : w[j] = a + j
    <2>1. a + m \in Int /\ m + n \in Nat
        OBVIOUS
    <2> QED BY <1>1, <2>1
<1> HIDE DEF u, v, w
<1>3. /\ u \o v \in Seq(Int) /\ Len(u \o v) = m + n
      /\ \A j \in 1..(m + n) : (u \o v)[j] = IF j <= m THEN u[j] ELSE v[j - m]
    BY <1>2, ConcatProperties
<1> DEFINE z == u \o v
<1>4. /\ z \in Seq(Int) /\ Len(z) = m + n
      /\ \A j \in 1..(m + n) : z[j] = IF j <= m THEN u[j] ELSE v[j - m]
    BY <1>3
<1> HIDE DEF z
<1>5. ASSUME NEW j \in 1..(m + n) PROVE z[j] = a + j
    <2>1. CASE j <= m
        <3>1. z[j] = u[j] /\ j \in 1..m
            BY <2>1, <1>4
        <3> QED BY <3>1, <1>2
    <2>2. CASE ~(j <= m)
        <3>1. z[j] = v[j - m] /\ j - m \in 1..n
            BY <2>2, <1>4
        <3>2. v[j - m] = a + m + (j - m)
            BY <3>1, <1>2
        <3>3. a + m + (j - m) = a + j
            OBVIOUS
        <3> QED BY <3>1, <3>2, <3>3, Zenon
    <2> QED BY <2>1, <2>2
<1>6. z = w
    BY <1>2, <1>4, <1>5, SeqEqual
<1> QED BY <1>1, <1>6 DEF u, v, w, z

(* Carried takes the last words of a chunk, as many as overlap.            *)
LEMMA CarriedWords ==
    ASSUME IsText(Text), NEW s \in Chunk, s # <<>>, NEW b \in Int,
           s = Words(b - Len(s), Len(s))
    PROVE  Carried(s) = Words(b - Overlap(Text, s), Overlap(Text, s))
<1> DEFINE L == Len(s)
           o == Overlap(Text, s)
<1>1. L \in Nat /\ L >= 1 /\ overlap \in Nat
    BY DEF Chunk, IsText, Text
<1>2. o = IF overlap <= L THEN overlap ELSE L
    <2>1. PICK x \in Int, y \in Int : x = overlap /\ y = L
        BY <1>1
    <2>2. Min({x, y}) = IF x <= y THEN x ELSE y
        BY MinOfTwo
    <2> QED BY <2>1, <2>2 DEF Overlap, Text
<1>3. \A j \in 1..L : s[j] = b - L + j
    BY DEF Words
<1> HIDE DEF o
<1>4. CASE overlap = 0
    <2>1. o = 0
        BY <1>1, <1>2, <1>4
    <2>2. Words(b - o, o) = <<>>
        BY <2>1 DEF Words
    <2>3. Carried(s) = <<>>
        BY <1>4 DEF Carried
    <2> QED BY <2>2, <2>3 DEF o
<1>5. CASE overlap # 0
    <2>1. Carried(s) = SubSeq(s, L - o + 1, L)
        <3>1. CASE L > overlap
            <4>1. o = overlap
                BY <3>1, <1>1, <1>2
            <4> QED BY <3>1, <4>1, <1>5 DEF Carried, LastWords
        <3>2. CASE ~(L > overlap)
            <4>1. o = L
                BY <3>2, <1>1, <1>2
            <4> QED BY <3>2, <4>1, <1>1, <1>5 DEF Carried, LastWords
        <3> QED BY <3>1, <3>2
    <2>2. o \in 1..L
        BY <1>1, <1>2, <1>5
    <2> DEFINE c == SubSeq(s, L - o + 1, L)
               w == Words(b - o, o)
    <2>3. c \in Seq(Int) /\ Len(c) = o /\ \A j \in 1..o : c[j] = s[L - o + j]
        <3>1. PICK m \in 1..(L + 1) : m = L - o + 1
            BY <2>2, <1>1
        <3>2. SubSeq(s, m, L) \in Seq(Int) /\ Len(SubSeq(s, m, L)) = L - m + 1
              /\ \A j \in 1..(L - m + 1) : SubSeq(s, m, L)[j] = s[m + j - 1]
            BY <3>1, <1>1, SubSeqProperties DEF Chunk
        <3>3. L - m + 1 = o /\ \A j \in 1..o : m + j - 1 = L - o + j
            BY <3>1, <2>2, <1>1
        <3> QED BY <3>1, <3>2, <3>3
    <2>4. w \in Seq(Int) /\ Len(w) = o /\ \A j \in 1..o : w[j] = b - o + j
        <3>1. b - o \in Int /\ o \in Nat
            BY <2>2, <1>1
        <3> QED BY <3>1, WordsJoin DEF Words
    <2>5. \A j \in 1..o : s[L - o + j] = b - o + j
        <3> SUFFICES ASSUME NEW j \in 1..o PROVE s[L - o + j] = b - o + j
            OBVIOUS
        <3>1. L - o + j \in 1..L /\ b - L + (L - o + j) = b - o + j
            BY <2>2, <1>1
        <3> QED BY <3>1, <1>3
    <2> HIDE DEF c, w
    <2>6. c = w
        BY <2>3, <2>4, <2>5, SeqEqual
    <2> QED BY <2>1, <2>6 DEF c, w, o
<1> QED BY <1>4, <1>5

(* A piece in words: it ends where its sentences do.                       *)
LEMMA PieceWords ==
    ASSUME NEW t, IsText(t), NEW prev \in Chunk, NEW s, NEW k, NEW l,
           Piece(t, prev, s, k, l)
    PROVE  s = Words(End(t, l) - Len(s), Len(s))
<1>1. k \in 0..Len(t.units) /\ l \in 0..Len(t.units)
    BY DEF Piece
<1>2. PICK a \in Nat, b \in Nat, o \in Nat : a = End(t, k) /\ b = End(t, l) /\ o = Overlap(t, prev)
    BY <1>1, EndsGrow, OverlapFits
<1>3. Len(s) = o + b - a /\ s = [j \in 1..(o + b - a) |-> a - o + j]
    <2>1. Len(s) = o + b - a
        BY <1>2, PieceEnds
    <2>2. s = [j \in 1..(o + b - a) |-> a - o + j]
        BY <1>2 DEF Piece
    <2> QED BY <2>1, <2>2
<1>4. b - (o + b - a) = a - o
    BY <1>2
<1> QED BY <1>2, <1>3, <1>4 DEF Words

(* The next sentence begins a piece.                                       *)
LEMMA PieceBegins ==
    ASSUME NEW t, IsText(t), NEW prev \in Chunk, NEW k \in 0..Len(t.units),
           k < Len(t.units), LastWord(prev) = End(t, k)
    PROVE  Piece(t, prev, Words(End(t, k) - Overlap(t, prev), Overlap(t, prev))
                            \o Words(End(t, k), t.units[k + 1]), k, k + 1)
<1>0. Len(t.units) \in Nat
    BY EndsGrow
<1>1. k + 1 \in 1..Len(t.units) /\ k + 1 \in 0..Len(t.units) /\ (k + 1) - 1 = k
    BY <1>0
<1> DEFINE a == End(t, k)
           b == End(t, k + 1)
           o == Overlap(t, prev)
           u == t.units[k + 1]
<1>2. a \in Nat /\ b \in Nat /\ o \in Nat /\ u \in Nat
    BY <1>1, EndsGrow, OverlapFits
<1>3. b = a + u
    <2>1. End(t, k + 1) = End(t, (k + 1) - 1) + t.units[k + 1]
        BY <1>1, EndsGrow
    <2> QED BY <2>1, <1>1
<1> HIDE DEF a, b, o, u
<1>4. a - o \in Int /\ (a - o) + o = a /\ o + u = o + b - a
    BY <1>2, <1>3
<1>5. Words(a - o, o) \o Words((a - o) + o, u) = Words(a - o, o + u)
    BY <1>2, <1>4, WordsJoin
<1>6. Words(a - o, o) \o Words(a, u) = [j \in 1..(o + b - a) |-> a - o + j]
    BY <1>4, <1>5 DEF Words
<1>7. k < k + 1
    OBVIOUS
<1> QED BY <1>0, <1>1, <1>6, <1>7 DEF Piece, a, b, o, u

(* A sentence that fits joins a piece.                                     *)
LEMMA PieceGrows ==
    ASSUME NEW t, IsText(t), NEW prev \in Chunk, NEW s, NEW k, NEW l,
           Piece(t, prev, s, k, l), l < Len(t.units),
           Len(s) + t.units[l + 1] <= t.size
    PROVE  Piece(t, prev, s \o Words(End(t, l), t.units[l + 1]), k, l + 1)
<1>0. Len(t.units) \in Nat
    BY EndsGrow
<1>1. k \in 0..Len(t.units) /\ l \in 0..Len(t.units) /\ k < l
    BY DEF Piece
<1>2. l + 1 \in 1..Len(t.units) /\ l + 1 \in 0..Len(t.units) /\ (l + 1) - 1 = l
    BY <1>0, <1>1
<1> DEFINE a == End(t, k)
           b == End(t, l)
           c == End(t, l + 1)
           o == Overlap(t, prev)
           u == t.units[l + 1]
           n == o + b - a
<1>3. a \in Nat /\ b \in Nat /\ c \in Nat /\ o \in Nat /\ u \in Nat
    BY <1>1, <1>2, EndsGrow, OverlapFits
<1>4. c = b + u
    <2>1. End(t, l + 1) = End(t, (l + 1) - 1) + t.units[l + 1]
        BY <1>2, EndsGrow
    <2> QED BY <2>1, <1>2
<1>5. a < b
    BY <1>1, EndsGrow
<1>6. Len(s) = n
    BY PieceEnds
<1>7. s = Words(a - o, n)
    BY DEF Piece, Words
<1>8. Len(s) + u <= t.size
    OBVIOUS
<1> HIDE DEF a, b, c, o, u
<1>9. a - o \in Int /\ (a - o) + n = b /\ n + u = o + c - a /\ n \in Nat /\ n + u \in Nat
    BY <1>3, <1>4, <1>5
<1> HIDE DEF n
<1>10. Words(a - o, n) \o Words((a - o) + n, u) = Words(a - o, n + u) /\ Len(Words(a - o, n + u)) = n + u
    BY <1>9, <1>3, WordsJoin
<1>11. s \o Words(b, u) = [j \in 1..(o + c - a) |-> a - o + j] /\ Len(s \o Words(b, u)) = n + u
    BY <1>7, <1>9, <1>10 DEF Words
<1>12. Len(s \o Words(b, u)) <= t.size
    BY <1>6, <1>8, <1>11
<1>13. LastWord(prev) = a /\ k < l + 1
    BY <1>1, <1>0 DEF Piece, a
<1> QED BY <1>1, <1>2, <1>11, <1>12, <1>13 DEF Piece, a, b, c, o, u

(* What has been read, and that what was stored are documents of chunks.   *)
TextInv ==
    /\ IsText(Text)
    /\ pos \in 0..Len(units)
    /\ read = End(Text, pos)
    /\ documents \in Seq(Seq(Chunk)) /\ documents # <<>>

(* The chunks made so far, and every document, even of a failed upload,    *)
(* are a beginning of the one way to split the text.                       *)
SplitInv ==
    /\ Split(Text, chunks)
    /\ \A d \in DOMAIN documents : Split(Text, documents[d])
    /\ pc = "split" =>
         \/ pos = 0 /\ current = <<>> /\ chunks = <<>>
         \/ \E k \in 0..Len(units) : Piece(Text, Latest(chunks), current, k, pos)
    /\ pc # "split" => LastWord(Latest(chunks)) = End(Text, Len(units))
    /\ pc = "done" => Len(Stored) = Len(chunks)

DocumentInv == TextInv /\ SplitInv

LEMMA NothingSplit ==
    ASSUME NEW t
    PROVE  Split(t, <<>>) /\ Latest(<<>>) = <<>> /\ LastWord(<<>>) = 0
<1>1. <<>> \in Seq(Chunk) /\ Len(<<>>) = 0
    OBVIOUS
<1> QED BY <1>1 DEF Split, Latest, Before, LastWord

LEMMA InitDocument == ASSUME KnowledgeInit PROVE DocumentInv
<1>1. units \in Seq(Nat \ {0})
    <2>1. PICK n \in 0..MaxSentences : units \in [1..n -> 1..MaxWords]
        BY DEF KnowledgeInit, Texts
    <2>2. n \in Nat /\ 1..MaxWords \subseteq Nat \ {0}
        BY <2>1, KnowledgeAssumption
    <2>3. units \in [1..n -> Nat \ {0}]
        BY <2>1, <2>2
    <2> QED BY <2>2, <2>3, IsASeq
<1>2. IsText(Text)
    BY <1>1, KnowledgeAssumption DEF KnowledgeInit, IsText, Text
<1>3. Text.units = units
    BY DEF Text
<1>4. TextInv
    <2>1. End(Text, 0) = 0 /\ Len(units) \in Nat
        BY <1>2, <1>3, EndsGrow
    <2>2. documents = <<<<>>>> /\ <<>> \in Seq(Chunk)
        BY DEF KnowledgeInit
    <2>3. documents \in Seq(Seq(Chunk)) /\ documents # <<>>
        BY <2>2
    <2>4. pos = 0 /\ read = 0
        BY DEF KnowledgeInit
    <2> QED BY <1>2, <2>1, <2>3, <2>4 DEF TextInv
<1>5. SplitInv
    <2>1. chunks = <<>> /\ documents = <<<<>>>> /\ pos = 0 /\ current = <<>> /\ pc = "split"
        BY DEF KnowledgeInit
    <2>2. \A d \in DOMAIN documents : documents[d] = <<>>
        BY <2>1
    <2>3. Split(Text, <<>>)
        BY NothingSplit
    <2> QED BY <2>1, <2>2, <2>3 DEF SplitInv
<1> QED BY <1>4, <1>5 DEF DocumentInv

(* A sentence ends a chunk and begins the next, or joins the current one.  *)
LEMMA TakeUnitStep == ASSUME DocumentInv, TakeUnit PROVE DocumentInv'
<1> DEFINE n == units[pos + 1]
           sentence == [i \in 1..n |-> read + i]
<1>1. /\ IsText(Text) /\ Text.units = units /\ Text.size = size
      /\ pos \in 0..Len(units) /\ read = End(Text, pos)
      /\ documents \in Seq(Seq(Chunk)) /\ documents # <<>>
    BY DEF DocumentInv, TextInv, Text
<1>2. /\ Split(Text, chunks) /\ \A d \in DOMAIN documents : Split(Text, documents[d])
      /\ \/ pos = 0 /\ current = <<>> /\ chunks = <<>>
         \/ \E k \in 0..Len(units) : Piece(Text, Latest(chunks), current, k, pos)
    BY DEF DocumentInv, SplitInv, TakeUnit
<1>3. /\ pc = "split" /\ pc' = "split" /\ pos < Len(units) /\ pos' = pos + 1 /\ read' = read + n
      /\ documents' = documents /\ units' = units /\ Text' = Text
    BY DEF TakeUnit, Text
<1>4. Len(units) \in Nat /\ pos + 1 \in 1..Len(units) /\ pos + 1 \in 0..Len(units) /\ (pos + 1) - 1 = pos
    BY <1>1, <1>3, EndsGrow
<1>5. End(Text, pos + 1) = read + n /\ n \in Nat /\ n # 0
    <2>1. End(Text, pos + 1) = End(Text, (pos + 1) - 1) + Text.units[pos + 1] /\ Text.units[pos + 1] \in Nat \ {0}
        BY <1>1, <1>4, EndsGrow
    <2> QED BY <2>1, <1>1, <1>4
<1>6. sentence = Words(End(Text, pos), Text.units[pos + 1])
    BY <1>1 DEF Words
<1>7. Latest(chunks) \in Chunk
    BY <1>2, BeforeIsChunk DEF Split
<1>8. TextInv'
    <2>1. read' = End(Text, pos + 1)
        BY <1>3, <1>5
    <2> QED BY <1>1, <1>3, <1>4, <2>1 DEF TextInv
<1> HIDE DEF sentence
<1>9. Split(Text, chunks') /\ \E k \in 0..Len(units) : Piece(Text, Latest(chunks'), current', k, pos + 1)
    <2>1. CASE Overflows(n) /\ chunks' = Append(chunks, current) /\ current' = Carried(current) \o sentence
        <3>1. PICK k \in 0..Len(units) : Piece(Text, Latest(chunks), current, k, pos)
            BY <1>2, <2>1 DEF Overflows
        <3>2. current \in Chunk /\ current # <<>> /\ LastWord(current) = End(Text, pos)
            BY <3>1, <1>1, <1>7, PieceEnds
        <3>3. Ended(Text, current, pos)
            BY <2>1, <1>1 DEF Overflows, Ended
        <3>4. Whole(Text, Latest(chunks), current)
            BY <3>1, <3>3, <1>1 DEF Whole
        <3>5. Split(Text, chunks') /\ Latest(chunks') = current
            BY <3>4, <2>1, <1>1, <1>2, SplitAppend
        <3>6. current = Words(End(Text, pos) - Len(current), Len(current))
            BY <3>1, <1>1, <1>7, PieceWords
        <3>7. End(Text, pos) \in Int
            BY <1>1, EndsGrow
        <3>8. Carried(current) = Words(End(Text, pos) - Overlap(Text, current), Overlap(Text, current))
            BY <3>2, <3>6, <3>7, <1>1, CarriedWords
        <3>9. Piece(Text, current, Words(End(Text, pos) - Overlap(Text, current), Overlap(Text, current))
                       \o Words(End(Text, pos), Text.units[pos + 1]), pos, pos + 1)
            BY <3>2, <1>1, <1>3, PieceBegins
        <3>10. Piece(Text, Latest(chunks'), current', pos, pos + 1)
            BY <3>5, <3>8, <3>9, <2>1, <1>6
        <3> QED BY <3>5, <3>10, <1>1
    <2>2. CASE ~Overflows(n) /\ chunks' = chunks /\ current' = current \o sentence
        <3>1. CASE current = <<>>
            <4>1. pos = 0 /\ chunks = <<>>
                BY <3>1, <1>1, <1>2, <1>7, PieceEnds
            <4>2. Latest(chunks) = <<>> /\ LastWord(<<>>) = 0 /\ <<>> \in Chunk
                BY <4>1, NothingSplit DEF Chunk
            <4>3. LastWord(<<>>) = End(Text, pos)
                BY <4>1, <4>2, <1>1, EndsGrow
            <4>4. Piece(Text, <<>>, Words(End(Text, pos) - Overlap(Text, <<>>), Overlap(Text, <<>>))
                           \o Words(End(Text, pos), Text.units[pos + 1]), pos, pos + 1)
                BY <4>2, <4>3, <1>1, <1>3, PieceBegins
            <4>5. Words(End(Text, pos) - Overlap(Text, <<>>), Overlap(Text, <<>>)) = <<>>
                <5>1. Overlap(Text, <<>>) \in Nat /\ Overlap(Text, <<>>) <= 0
                    BY <4>2, <1>1, OverlapFits
                <5>2. Overlap(Text, <<>>) = 0
                    BY <5>1
                <5> QED BY <5>2 DEF Words
            <4>6. Piece(Text, Latest(chunks'), current', pos, pos + 1)
                BY <4>2, <4>4, <4>5, <3>1, <2>2, <1>6
            <4> QED BY <4>6, <2>2, <1>1, <1>2
        <3>2. CASE current # <<>>
            <4>1. PICK k \in 0..Len(units) : Piece(Text, Latest(chunks), current, k, pos)
                BY <1>2, <3>2
            <4>2. Len(current) \in Nat
                BY <4>1, <1>1, <1>7, PieceEnds DEF Chunk
            <4>3. Len(current) + Text.units[pos + 1] <= Text.size
                <5>1. size \in Nat
                    BY <1>1 DEF IsText
                <5> QED BY <5>1, <4>2, <3>2, <2>2, <1>1, <1>5 DEF Overflows
            <4>4. Piece(Text, Latest(chunks), current \o Words(End(Text, pos), Text.units[pos + 1]), k, pos + 1)
                BY <4>1, <4>3, <1>1, <1>3, <1>7, PieceGrows
            <4>5. Piece(Text, Latest(chunks'), current', k, pos + 1)
                BY <4>4, <2>2, <1>6
            <4> QED BY <4>5, <2>2, <1>2
        <3> QED BY <3>1, <3>2
    <2> QED BY <2>1, <2>2 DEF TakeUnit, sentence
<1>10. SplitInv'
    BY <1>2, <1>3, <1>9 DEF SplitInv
<1> QED BY <1>8, <1>10 DEF DocumentInv

(* The last chunk takes what is left.                                      *)
LEMMA EndSplitStep == ASSUME DocumentInv, EndSplit PROVE DocumentInv'
<1>1. /\ IsText(Text) /\ Text.units = units
      /\ pos \in 0..Len(units) /\ read = End(Text, pos)
      /\ documents \in Seq(Seq(Chunk)) /\ documents # <<>>
    BY DEF DocumentInv, TextInv, Text
<1>2. /\ Split(Text, chunks) /\ \A d \in DOMAIN documents : Split(Text, documents[d])
      /\ \/ pos = 0 /\ current = <<>> /\ chunks = <<>>
         \/ \E k \in 0..Len(units) : Piece(Text, Latest(chunks), current, k, pos)
    BY DEF DocumentInv, SplitInv, EndSplit
<1>3. /\ pc' = "insert" /\ pos = Len(units) /\ pos' = pos /\ read' = read
      /\ documents' = documents /\ units' = units /\ Text' = Text
    BY DEF EndSplit, Text
<1>4. TextInv'
    BY <1>1, <1>3 DEF TextInv
<1>5. Split(Text, chunks') /\ LastWord(Latest(chunks')) = End(Text, Len(units))
    <2>1. CASE current = <<>>
        <3>1. Latest(chunks) \in Chunk
            BY <1>2, BeforeIsChunk DEF Split
        <3>2. pos = 0 /\ chunks = <<>>
            BY <2>1, <3>1, <1>1, <1>2, PieceEnds
        <3>3. chunks' = <<>>
            BY <2>1, <3>2 DEF EndSplit
        <3>4. End(Text, 0) = 0
            BY <1>1, EndsGrow
        <3>5. LastWord(Latest(<<>>)) = 0
            BY NothingSplit
        <3> QED BY <3>2, <3>3, <3>4, <3>5, <1>2, <1>3
    <2>2. CASE current # <<>>
        <3>1. PICK k \in 0..Len(units) : Piece(Text, Latest(chunks), current, k, pos)
            BY <1>2, <2>2
        <3>2. Latest(chunks) \in Chunk
            BY <1>2, BeforeIsChunk DEF Split
        <3>3. Whole(Text, Latest(chunks), current)
            BY <3>1, <1>1, <1>3 DEF Whole, Ended
        <3>4. chunks' = Append(chunks, current)
            BY <2>2 DEF EndSplit
        <3>5. Split(Text, Append(chunks, current)) /\ Latest(Append(chunks, current)) = current
            BY <3>3, <1>1, <1>2, SplitAppend
        <3>6. LastWord(current) = End(Text, pos)
            BY <3>1, <3>2, <1>1, PieceEnds
        <3> QED BY <3>4, <3>5, <3>6, <1>3
    <2> QED BY <2>1, <2>2
<1>6. SplitInv'
    BY <1>2, <1>3, <1>5 DEF SplitInv
<1> QED BY <1>4, <1>6 DEF DocumentInv

(* What is stored are the first chunks, and no more than there are.        *)
LEMMA StoredChunksAgree ==
    ASSUME DocumentInv, pc # "split", NEW d \in DOMAIN documents
    PROVE  /\ IsPrefix(documents[d], chunks)
           /\ Len(documents[d]) \in Nat /\ Len(documents[d]) <= Len(chunks)
           /\ \A i \in 1..Len(documents[d]) : documents[d][i] = chunks[i]
<1> DEFINE s == documents[d]
<1>1. /\ IsText(Text) /\ Text.units = units /\ Split(Text, s) /\ Split(Text, chunks)
      /\ LastWord(Latest(chunks)) = End(Text, Len(units))
    BY DEF DocumentInv, TextInv, SplitInv, Text
<1> HIDE DEF s
<1>2. /\ s \in Seq(Chunk) /\ Len(s) \in Nat /\ DOMAIN s = 1..Len(s)
      /\ chunks \in Seq(Chunk) /\ Len(chunks) \in Nat /\ DOMAIN chunks = 1..Len(chunks)
    BY <1>1 DEF Split
<1>3. Len(s) <= Len(chunks)
    BY <1>1, SplitEnds
<1>4. \A i \in 1..Len(s) : s[i] = chunks[i]
    BY <1>1, <1>2, <1>3, SplitAgrees
<1>5. IsPrefix(s, chunks)
    <2> DEFINE a == SubSeq(s, 1, Len(s))
               b == SubSeq(chunks, 1, Len(s))
    <2>1. a \in Seq(Chunk) /\ Len(a) = Len(s) /\ \A i \in 1..Len(s) : a[i] = s[i]
        BY <1>2
    <2>2. b \in Seq(Chunk) /\ Len(b) = Len(s) /\ \A i \in 1..Len(s) : b[i] = chunks[i]
        BY <1>2, <1>3
    <2> HIDE DEF a, b
    <2>3. a = b
        BY <2>1, <2>2, <1>4, SeqEqual
    <2> QED BY <2>3, <1>3 DEF IsPrefix, a, b
<1> QED BY <1>2, <1>3, <1>4, <1>5 DEF s

(* The next chunk is stored after its predecessors.                        *)
LEMMA InsertChunkStep == ASSUME DocumentInv, InsertChunk PROVE DocumentInv'
<1> DEFINE e == Len(documents)
           s == documents[e]
           c == chunks[Len(s) + 1]
<1>1. /\ IsText(Text) /\ Split(Text, chunks)
      /\ \A d \in DOMAIN documents : Split(Text, documents[d])
      /\ documents \in Seq(Seq(Chunk)) /\ documents # <<>>
      /\ Text' = Text
    BY DEF DocumentInv, TextInv, SplitInv, InsertChunk, Text
<1>2. e \in DOMAIN documents /\ s \in Seq(Chunk) /\ Len(s) \in Nat
      /\ chunks \in Seq(Chunk) /\ Len(chunks) \in Nat /\ DOMAIN chunks = 1..Len(chunks)
    BY <1>1 DEF Split
<1>3. Len(s) < Len(chunks) /\ documents' = [documents EXCEPT ![e] = Append(s, c)]
    BY DEF InsertChunk, Stored, Last, NextChunk
<1>4. \A i \in 1..Len(s) : s[i] = chunks[i]
    BY <1>2, StoredChunksAgree DEF InsertChunk
<1> HIDE DEF s
<1>5. Len(s) + 1 \in DOMAIN chunks /\ c \in Chunk
    BY <1>2, <1>3
<1>6. Before(chunks, Len(s) + 1) = Latest(s)
    <2>1. CASE Len(s) = 0
        BY <2>1 DEF Before, Latest
    <2>2. CASE Len(s) # 0
        <3>1. Len(s) \in 1..Len(s) /\ Len(s) + 1 # 1 /\ (Len(s) + 1) - 1 = Len(s)
            BY <2>2, <1>2
        <3> QED BY <3>1, <1>4 DEF Before, Latest
    <2> QED BY <2>1, <2>2
<1>7. Whole(Text, Latest(s), c)
    BY <1>1, <1>5, <1>6 DEF Split
<1>8. Split(Text, s)
    BY <1>1, <1>2 DEF s
<1>9. Split(Text, Append(s, c)) /\ Append(s, c) \in Seq(Chunk)
    <2>1. Split(Text, Append(s, c))
        BY <1>1, <1>7, <1>8, SplitAppend
    <2> QED BY <2>1 DEF Split
<1> HIDE DEF c, e
<1>10. documents' \in Seq(Seq(Chunk)) /\ documents' # <<>> /\ DOMAIN documents' = DOMAIN documents
    <2>1. Len(documents) \in Nat /\ documents \in [1..Len(documents) -> Seq(Chunk)] /\ Len(documents) # 0
        BY <1>1
    <2>2. documents' \in [1..Len(documents) -> Seq(Chunk)]
        BY <2>1, <1>2, <1>3, <1>9
    <2>3. documents' \in Seq(Seq(Chunk)) /\ Len(documents') = Len(documents)
        BY <2>1, <2>2, IsASeq
    <2> QED BY <2>1, <2>2, <2>3
<1>11. ASSUME NEW d \in DOMAIN documents' PROVE Split(Text, documents'[d])
    <2>1. CASE d = e
        BY <2>1, <1>2, <1>3, <1>9
    <2>2. CASE d # e
        BY <2>2, <1>1, <1>3, <1>10
    <2> QED BY <2>1, <2>2
<1>12. TextInv'
    BY <1>1, <1>10 DEF DocumentInv, TextInv, InsertChunk
<1>13. SplitInv'
    BY <1>1, <1>11 DEF DocumentInv, SplitInv, InsertChunk
<1> QED BY <1>12, <1>13 DEF DocumentInv

LEMMA UploadedStep == ASSUME DocumentInv, Uploaded PROVE DocumentInv'
<1>1. Text' = Text
    BY DEF Uploaded, Text
<1>2. TextInv'
    BY <1>1 DEF DocumentInv, TextInv, Uploaded
<1>3. SplitInv'
    BY <1>1 DEF DocumentInv, SplitInv, Uploaded, Stored
<1> QED BY <1>2, <1>3 DEF DocumentInv

LEMMA UploadFailsStep == ASSUME DocumentInv, UploadFails PROVE DocumentInv'
<1>1. Text' = Text
    BY DEF UploadFails, Text
<1>2. TextInv'
    BY <1>1 DEF DocumentInv, TextInv, UploadFails
<1>3. SplitInv'
    BY <1>1 DEF DocumentInv, SplitInv, UploadFails
<1> QED BY <1>2, <1>3 DEF DocumentInv

(* A second upload begins with the same text and an empty document.        *)
LEMMA UploadAgainStep == ASSUME DocumentInv, UploadAgain PROVE DocumentInv'
<1>1. Text' = Text /\ Text.units = units
    BY DEF UploadAgain, Text
<1>2. /\ IsText(Text) /\ documents \in Seq(Seq(Chunk))
      /\ \A d \in DOMAIN documents : Split(Text, documents[d])
    BY DEF DocumentInv, TextInv, SplitInv
<1>3. documents' = Append(documents, <<>>) /\ <<>> \in Seq(Chunk)
    BY DEF UploadAgain
<1>4. /\ documents' \in Seq(Seq(Chunk)) /\ documents' # <<>>
      /\ Len(documents) \in Nat /\ DOMAIN documents = 1..Len(documents)
      /\ DOMAIN documents' = 1..(Len(documents) + 1)
      /\ \A d \in 1..Len(documents) : documents'[d] = documents[d]
      /\ documents'[Len(documents) + 1] = <<>>
    <2> DEFINE e == <<>>
    <2>1. e \in Seq(Chunk) /\ documents' = Append(documents, e)
        BY <1>3
    <2> HIDE DEF e
    <2>2. /\ documents' \in Seq(Seq(Chunk)) /\ Len(documents') = Len(documents) + 1
          /\ \A d \in 1..Len(documents) : documents'[d] = documents[d]
          /\ documents'[Len(documents) + 1] = e
        BY <1>2, <2>1, AppendProperties
    <2>3. Len(documents) \in Nat /\ DOMAIN documents = 1..Len(documents)
        BY <1>2
    <2>4. documents' # <<>> /\ DOMAIN documents' = 1..(Len(documents) + 1)
        BY <2>2, <2>3
    <2> QED BY <2>2, <2>3, <2>4 DEF e
<1>5. Split(Text, <<>>)
    BY NothingSplit
<1>6. ASSUME NEW d \in DOMAIN documents' PROVE Split(Text, documents'[d])
    <2>1. d = Len(documents) + 1 \/ d \in 1..Len(documents)
        BY <1>4
    <2> QED BY <2>1, <1>2, <1>4, <1>5
<1>7. TextInv'
    <2>1. End(Text, 0) = 0 /\ Len(units) \in Nat
        BY <1>1, <1>2, EndsGrow
    <2>2. pos' = 0 /\ read' = 0 /\ units' = units
        BY DEF UploadAgain
    <2> QED BY <2>1, <2>2, <1>1, <1>2, <1>4 DEF TextInv
<1>8. SplitInv'
    <2>1. pc' = "split" /\ pos' = 0 /\ current' = <<>> /\ chunks' = <<>>
        BY DEF UploadAgain
    <2> QED BY <2>1, <1>1, <1>5, <1>6 DEF SplitInv
<1> QED BY <1>7, <1>8 DEF DocumentInv

LEMMA DocumentUnchanged == ASSUME DocumentInv, UNCHANGED knowledgeVars PROVE DocumentInv'
<1>1. Text' = Text
    BY DEF knowledgeVars, Text
<1>2. TextInv'
    BY <1>1 DEF DocumentInv, TextInv, knowledgeVars
<1>3. SplitInv'
    BY <1>1 DEF DocumentInv, SplitInv, knowledgeVars, Stored
<1> QED BY <1>2, <1>3 DEF DocumentInv

(* What a chunk adds to its predecessor: whole sentences, at least one,    *)
(* and only one when it is too long.                                       *)
LEMMA NewsAreSentences ==
    ASSUME DocumentInv, NEW cs, Split(Text, cs), NEW i \in DOMAIN cs
    PROVE  \E k, l \in 0..Len(units) :
             /\ k < l
             /\ Len(cs[i]) > size => l = k + 1
             /\ News(cs, i) = Words(End(Text, k), End(Text, l) - End(Text, k))
             /\ News(cs, i) # <<>>
             /\ cs[i] = [j \in DOMAIN cs[i] |->
                           LastWord(Before(cs, i)) - Repeated(cs, i) + j]
<1> DEFINE prev == Before(cs, i)
           s == cs[i]
           o == Overlap(Text, prev)
<1>1. IsText(Text) /\ Text.units = units /\ Text.size = size /\ size \in Nat
    BY DEF DocumentInv, TextInv, Text, IsText
<1>2. prev \in Chunk /\ Whole(Text, prev, s)
    <2>1. cs \in Seq(Chunk)
        BY DEF Split
    <2>2. i \in 1..(Len(cs) + 1)
        BY <2>1
    <2> QED BY <2>1, <2>2, BeforeIsChunk DEF Split
<1>3. PICK k \in 0..Len(units), l \in 0..Len(units) : Piece(Text, prev, s, k, l)
    BY <1>1, <1>2 DEF Whole
<1>4. Repeated(cs, i) = o
    BY DEF Repeated, Overlap, Text
<1> DEFINE a == End(Text, k)
           b == End(Text, l)
<1>5. a \in Nat /\ b \in Nat /\ o \in Nat
    BY <1>1, <1>2, EndsGrow, OverlapFits
<1>6. s \in Chunk /\ Len(s) = o + b - a /\ b > a
    BY <1>1, <1>2, <1>3, PieceEnds
<1>7. k < l /\ LastWord(prev) = a /\ (l = k + 1 \/ Len(s) <= size)
    BY <1>1, <1>3 DEF Piece
<1>8. s = [j \in 1..(o + b - a) |-> a - o + j]
    BY <1>3 DEF Piece
<1> DEFINE news == SubSeq(s, o + 1, Len(s))
           w == Words(a, b - a)
<1>9. News(cs, i) = news
    BY <1>4 DEF News
<1> HIDE DEF a, b, o, prev, s
<1>10. s = [j \in DOMAIN s |-> LastWord(prev) - o + j]
    <2>1. DOMAIN s = 1..(o + b - a)
        BY <1>8
    <2> QED BY <2>1, <1>7, <1>8
<1>11. news \in Seq(Int) /\ Len(news) = b - a /\ \A j \in 1..(b - a) : news[j] = s[o + j]
    <2>1. PICK m \in 1..(Len(s) + 1), n \in Nat : m = o + 1 /\ n = Len(s)
        BY <1>5, <1>6
    <2>2. SubSeq(s, m, n) \in Seq(Int) /\ Len(SubSeq(s, m, n)) = n - m + 1
          /\ \A j \in 1..(n - m + 1) : SubSeq(s, m, n)[j] = s[m + j - 1]
        BY <2>1, <1>5, <1>6, SubSeqProperties DEF Chunk
    <2>3. n - m + 1 = b - a /\ \A j \in 1..(b - a) : m + j - 1 = o + j
        BY <2>1, <1>5, <1>6
    <2> QED BY <2>1, <2>2, <2>3
<1>12. w \in Seq(Int) /\ Len(w) = b - a /\ \A j \in 1..(b - a) : w[j] = a + j
    <2>1. b - a \in Nat
        BY <1>5, <1>6
    <2> QED BY <2>1, <1>5, WordsJoin DEF Words
<1>13. \A j \in 1..(b - a) : s[o + j] = a + j
    <2> SUFFICES ASSUME NEW j \in 1..(b - a) PROVE s[o + j] = a + j
        OBVIOUS
    <2>1. o + j \in 1..(o + b - a) /\ a - o + (o + j) = a + j
        BY <1>5, <1>6
    <2> QED BY <2>1, <1>8
<1> HIDE DEF news, w
<1>14. news = w
    BY <1>11, <1>12, <1>13, SeqEqual
<1>15. news # <<>>
    BY <1>5, <1>6, <1>11
<1>16. Len(s) > size => l = k + 1
    BY <1>1, <1>5, <1>6, <1>7
<1> QED
    BY <1>4, <1>7, <1>9, <1>10, <1>14, <1>15, <1>16 DEF a, b, o, prev, s, w

LEMMA DocumentsWhole == ASSUME DocumentInv PROVE DocumentsCoverTheText
<1>1. /\ IsText(Text) /\ Text.units = units
      /\ documents \in Seq(Seq(Chunk)) /\ documents # <<>>
      /\ \A d \in DOMAIN documents : Split(Text, documents[d])
    BY DEF DocumentInv, TextInv, SplitInv, Text
<1>2. Len(documents) \in DOMAIN documents /\ Stored = documents[Len(documents)]
    BY <1>1 DEF Stored, Last
<1>3. ASSUME NEW i \in DOMAIN Stored
      PROVE  /\ News(Stored, i) # <<>>
             /\ Stored[i] = [j \in DOMAIN Stored[i] |->
                               LastWord(Before(Stored, i)) - Repeated(Stored, i) + j]
    BY <1>1, <1>2, NewsAreSentences
<1>4. ASSUME pc = "done"
      PROVE  LastWord(Before(Stored, Len(Stored) + 1)) = SentenceEnd(Len(units))
    <2>1. Len(Stored) = Len(chunks) /\ LastWord(Latest(chunks)) = End(Text, Len(units))
        BY <1>4 DEF DocumentInv, SplitInv
    <2>2. \A i \in 1..Len(Stored) : Stored[i] = chunks[i]
        BY <1>2, <1>4, StoredChunksAgree
    <2>3. Len(Stored) \in Nat
        BY <1>2, <1>4, StoredChunksAgree
    <2>4. Before(Stored, Len(Stored) + 1) = Latest(chunks)
        <3>1. Len(Stored) + 1 = 1 \/ (Len(Stored) + 1) - 1 \in 1..Len(Stored)
            BY <2>3
        <3> QED BY <3>1, <2>1, <2>2 DEF Latest, Before
    <2> QED BY <2>1, <2>4, <1>1 DEF SentenceEnd, End
<1>5. ASSUME pc \in {"done", "failed"}, NEW d \in DOMAIN documents
      PROVE  IsPrefix(documents[d], chunks)
    BY <1>5, StoredChunksAgree
<1> QED BY <1>3, <1>4, <1>5 DEF DocumentsCoverTheText

LEMMA LongChunks == ASSUME DocumentInv PROVE OversizedChunksAreOneSentence
<1>1. IsText(Text) /\ Text.units = units /\ Split(Text, chunks)
    BY DEF DocumentInv, TextInv, SplitInv, Text
<1> SUFFICES ASSUME NEW i \in DOMAIN chunks, Len(chunks[i]) > size
             PROVE  \E k \in DOMAIN units :
                        News(chunks, i) = [j \in 1..units[k] |-> SentenceEnd(k - 1) + j]
    BY DEF OversizedChunksAreOneSentence
<1>2. PICK k \in 0..Len(units), l \in 0..Len(units) :
          l = k + 1 /\ News(chunks, i) = Words(End(Text, k), End(Text, l) - End(Text, k))
    BY <1>1, NewsAreSentences
<1>3. Len(units) \in Nat /\ l \in 1..Len(units) /\ l - 1 = k /\ l \in DOMAIN units
    <2>1. Len(units) \in Nat /\ units \in Seq(Nat \ {0})
        BY <1>1, EndsGrow DEF IsText
    <2> QED BY <2>1, <1>2
<1>4. End(Text, l) = End(Text, k) + units[l] /\ End(Text, k) \in Nat /\ units[l] \in Nat
    BY <1>1, <1>3, EndsGrow
<1>5. End(Text, l) - End(Text, k) = units[l]
    BY <1>4
<1>6. SentenceEnd(l - 1) = End(Text, k)
    BY <1>1, <1>3 DEF SentenceEnd, End
<1>7. News(chunks, i) = [j \in 1..units[l] |-> SentenceEnd(l - 1) + j]
    BY <1>2, <1>5, <1>6 DEF Words
<1> QED BY <1>3, <1>7

(*--------------------------- the specification --------------------------*)

FactsInv ==
    /\ facts \in Seq(Nat \ {0})
    /\ block = NoBlock => warned = NoWarning

ContextInv == DocumentInv /\ FactsInv /\ BlockSound

LEMMA NoBlockSound == ASSUME block = NoBlock PROVE BlockSound
BY DEF BlockSound, BlockFits, CutOnlyWhenFull, CutFactsAreReported

(* Facts stay lines with a length.                                         *)
LEMMA FactsStep ==
    ASSUME facts \in Seq(Nat \ {0}), UpsertFact \/ DeleteFact
    PROVE  facts' \in Seq(Nat \ {0})
<1> DEFINE S == Nat \ {0}
<1>0. Len(facts) \in Nat /\ DOMAIN facts = 1..Len(facts) /\ facts \in Seq(S)
    OBVIOUS
<1> HIDE DEF S
<1>1. ASSUME NEW n \in FactLengths, NEW i \in DOMAIN facts, SetFacts([facts EXCEPT ![i] = n])
      PROVE  facts' \in Seq(S)
    <2>1. n \in S
        BY ContextBlockAssumption DEF S
    <2> QED BY <2>1, <1>0, <1>1, ExceptSeq DEF SetFacts
<1>2. ASSUME NEW n \in FactLengths, NEW i \in 1..(Len(facts) + 1), SetFacts(InsertAt(facts, i, n))
      PROVE  facts' \in Seq(S)
    <2>1. n \in S /\ <<n>> \in Seq(S)
        BY ContextBlockAssumption DEF S
    <2>2. SubSeq(facts, 1, i - 1) \in Seq(S) /\ SubSeq(facts, i, Len(facts)) \in Seq(S)
        BY <1>0
    <2> QED BY <2>1, <2>2, <1>2 DEF SetFacts, InsertAt
<1>3. ASSUME NEW i \in DOMAIN facts, SetFacts(RemoveAt(facts, i))
      PROVE  facts' \in Seq(S)
    <2>1. SubSeq(facts, 1, i - 1) \in Seq(S) /\ SubSeq(facts, i + 1, Len(facts)) \in Seq(S)
        BY <1>0
    <2> QED BY <2>1, <1>3 DEF SetFacts, RemoveAt
<1> QED BY <1>1, <1>2, <1>3 DEF UpsertFact, DeleteFact, S

THEOREM ContextInvariant == Spec => []ContextInv
<1>1. Init => ContextInv
    <2> SUFFICES ASSUME Init PROVE ContextInv
        OBVIOUS
    <2>1. DocumentInv
        BY InitDocument DEF Init
    <2>2. FactsInv /\ block = NoBlock
        BY DEF Init, ContextInit, FactsInv
    <2> QED BY <2>1, <2>2, NoBlockSound DEF ContextInv
<1>2. ContextInv /\ [Next]_vars => ContextInv'
    <2> SUFFICES ASSUME ContextInv, [Next]_vars PROVE ContextInv'
        OBVIOUS
    <2>0. DocumentInv /\ FactsInv /\ BlockSound
        BY DEF ContextInv
    <2>1. CASE KnowledgeNext /\ block = NoBlock /\ UNCHANGED contextVars
        <3>1. DocumentInv'
            BY <2>0, <2>1, TakeUnitStep, EndSplitStep, InsertChunkStep, UploadedStep,
               UploadFailsStep, UploadAgainStep DEF KnowledgeNext
        <3>2. FactsInv' /\ block' = NoBlock
            BY <2>0, <2>1 DEF FactsInv, contextVars
        <3>3. BlockSound'
            BY <3>2 DEF BlockSound, BlockFits, CutOnlyWhenFull, CutFactsAreReported
        <3> QED BY <3>1, <3>2, <3>3 DEF ContextInv
    <2>2. CASE UpsertFact \/ DeleteFact
        <3>1. UNCHANGED knowledgeVars /\ block = NoBlock /\ block' = NoBlock /\ warned' = warned
            BY <2>2 DEF UpsertFact, DeleteFact, SetFacts
        <3>2. DocumentInv'
            BY <2>0, <3>1, DocumentUnchanged
        <3>3. FactsInv'
            BY <2>0, <2>2, <3>1, FactsStep DEF FactsInv
        <3>4. BlockSound'
            BY <3>1 DEF BlockSound, BlockFits, CutOnlyWhenFull, CutFactsAreReported
        <3> QED BY <3>2, <3>3, <3>4 DEF ContextInv
    <2>3. CASE Turn
        <3>1. UNCHANGED knowledgeVars /\ facts' = facts /\ block = NoBlock
            BY <2>3 DEF Turn
        <3>2. DocumentInv'
            BY <2>0, <3>1, DocumentUnchanged
        <3>3. documents \in Seq(Seq(Seq(Int))) /\ facts \in Seq(Nat \ {0}) /\ warned = NoWarning
            BY <2>0, <3>1 DEF DocumentInv, TextInv, Chunk, FactsInv
        <3>4. BlockSound' /\ block' # NoBlock
            BY <3>3, <2>3, TurnSound
        <3>5. FactsInv'
            BY <3>1, <3>3, <3>4 DEF FactsInv, NoBlock
        <3> QED BY <3>2, <3>4, <3>5 DEF ContextInv
    <2>4. CASE UNCHANGED vars
        <3>1. DocumentInv'
            BY <2>0, <2>4, DocumentUnchanged DEF vars
        <3>2. UNCHANGED <<facts, retrieved, found, block, warned>>
            BY <2>4 DEF vars, contextVars
        <3>3. FactsInv'
            BY <2>0, <3>2 DEF FactsInv
        <3>4. Structured' = Structured /\ Lines' = Lines /\ Separator' = Separator
            BY <3>2 DEF Structured, Lines, Separator
        <3>5. CutLines' = CutLines
            BY <3>2, <3>4 DEF CutLines
        <3>6. BlockFits'
            BY <2>0, <3>2, <3>4 DEF BlockSound, BlockFits, UpTo
        <3>7. CutOnlyWhenFull'
            BY <2>0, <3>2, <3>4 DEF BlockSound, CutOnlyWhenFull
        <3>8. CutFactsAreReported'
            BY <2>0, <3>2, <3>5 DEF BlockSound, CutFactsAreReported
        <3> QED BY <3>1, <3>3, <3>6, <3>7, <3>8 DEF ContextInv, BlockSound
    <2> QED BY <2>1, <2>2, <2>3, <2>4 DEF Next
<1> QED BY <1>1, <1>2, PTL DEF Spec

(* knowledge.py: an uploaded document is the whole text, in order and      *)
(* once, and what a failed upload left is the beginning of it, for every   *)
(* text, chunk size and overlap.                                           *)
THEOREM DocumentsAreWhole == Spec => []DocumentsCoverTheText
<1>1. ContextInv => DocumentsCoverTheText
    BY DocumentsWhole DEF ContextInv
<1> QED BY <1>1, ContextInvariant, PTL

(* knowledge.py: a chunk exceeds chunk_size only if a sentence and the     *)
(* overlap before it do.                                                   *)
THEOREM LongChunksAreOneSentence == Spec => []OversizedChunksAreOneSentence
<1>1. ContextInv => OversizedChunksAreOneSentence
    BY LongChunks DEF ContextInv
<1> QED BY <1>1, ContextInvariant, PTL

(* build_context_block: what a turn tells the model fits the limit, for    *)
(* every limit, facts and search result.                                   *)
THEOREM BlockStaysInLimit == Spec => []BlockFits
<1>1. ContextInv => BlockFits
    BY DEF ContextInv, BlockSound
<1> QED BY <1>1, ContextInvariant, PTL

(* build_context_block: nothing is cut, by either of its two limits, while *)
(* there is room for it.                                                   *)
THEOREM NothingIsCutEarly == Spec => []CutOnlyWhenFull
<1>1. ContextInv => CutOnlyWhenFull
    BY DEF ContextInv, BlockSound
<1> QED BY <1>1, ContextInvariant, PTL

(* build_context_block: its warning counts the facts that were cut.        *)
THEOREM WarningsCount == Spec => []CutFactsAreReported
<1>1. ContextInv => CutFactsAreReported
    BY DEF ContextInv, BlockSound
<1> QED BY <1>1, ContextInvariant, PTL
==============================================================================
