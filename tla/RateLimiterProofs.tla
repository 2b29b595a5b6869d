-------------------------- MODULE RateLimiterProofs --------------------------
(***************************************************************************)
(* Proof that the bucket of check_rate_limit keeps the sliding window, for *)
(* every limit and window.                                                 *)
(***************************************************************************)
EXTENDS RateLimiter, FiniteSetTheorems, TLAPS

(* Whole seconds against ticks: what int() may hide is less than a second. *)
LEMMA Division ==
    ASSUME NEW R \in Nat \ {0}, NEW a \in Nat
    PROVE  a \div R \in Nat /\ R * (a \div R) <= a /\ a < R * (a \div R) + R
OBVIOUS

LEMMA Multiples ==
    ASSUME NEW R \in Nat \ {0}, NEW p \in Int, NEW q \in Int
    PROVE  p <= q => R * p <= R * q
OBVIOUS

LEMMA Seconds ==
    ASSUME NEW a \in Nat, NEW b \in Nat, NEW w \in Int
    PROVE  /\ Second(a) \in Nat
           /\ a <= b => Second(a) <= Second(b)
           /\ Second(b) - Second(a) >= w => b - a > Resolution * (w - 1)
           /\ Second(b) - Second(a) < w => b - a < Resolution * w
<1> DEFINE R == Resolution
<1>0. PICK p \in Nat, q \in Nat : /\ p = Second(a) /\ q = Second(b)
                                 /\ R * p <= a /\ a < R * p + R /\ R * q <= b /\ b < R * q + R
  BY RateLimiterAssumption, Division DEF Second
<1>1. R \in Nat \ {0}
  BY RateLimiterAssumption
<1> HIDE DEF R
<1>2. ASSUME a <= b, p >= q + 1 PROVE FALSE
  <2>1. R * (q + 1) <= R * p
    BY <1>1, <1>2, Multiples
  <2>2. R * (q + 1) = R * q + R
    BY <1>1
  <2> QED BY <1>0, <1>1, <1>2, <2>1, <2>2
<1>3. ASSUME q - p >= w PROVE b - a > R * (w - 1)
  <2>1. R * (p + w) <= R * q
    BY <1>1, <1>3, Multiples
  <2>2. R * (p + w) = R * p + R * w /\ R * (w - 1) = R * w - R
    BY <1>1
  <2>3. R * p \in Int /\ R * w \in Int /\ R * q \in Int
    BY <1>1
  <2> QED BY <1>0, <1>1, <2>1, <2>2, <2>3
<1>4. ASSUME q - p < w PROVE b - a < R * w
  <2>1. R * (q + 1) <= R * (p + w)
    BY <1>1, <1>4, Multiples
  <2>2. R * (p + w) = R * p + R * w /\ R * (q + 1) = R * q + R
    BY <1>1
  <2>3. R * p \in Int /\ R * w \in Int /\ R * q \in Int
    BY <1>1
  <2> QED BY <1>0, <1>1, <2>1, <2>2, <2>3
<1> QED BY <1>0, <1>2, <1>3, <1>4 DEF R

LEMMA SecondsInOrder ==
    ASSUME NEW a \in Nat, NEW b \in Nat, a <= b
    PROVE  Second(a) \in Nat /\ Second(b) \in Nat /\ Second(a) <= Second(b)
<1>1. 0 \in Int
  OBVIOUS
<1>2. Second(a) \in Nat /\ Second(a) <= Second(b)
  BY <1>1, Seconds
<1>3. Second(b) \in Nat
  BY <1>1, Seconds
<1> QED BY <1>2, <1>3

(* A stamp missing from the bucket is out of the window and, the clock     *)
(* being monotone, stays out of it; that makes the bucket a full account   *)
(* of the current window.                                                  *)
BucketInv ==
    /\ clock \in Nat /\ refused \in Nat
    /\ accepted \in Seq(Nat)
    /\ bucket \subseteq 1..Len(accepted)
    /\ \A i \in 1..Len(accepted) : accepted[i] <= clock
    /\ \A i, j \in 1..Len(accepted) : i <= j => accepted[i] <= accepted[j]
    /\ \A i \in 1..Len(accepted) \ bucket : Age(i) >= Window
    /\ SlidingWindow

(* How old a stamp is, in seconds and in ticks.                            *)
LEMMA Ages ==
    ASSUME BucketInv, NEW i \in 1..Len(accepted)
    PROVE  /\ accepted[i] \in Nat /\ Age(i) \in Int
           /\ Age(i) < Window => clock - accepted[i] < Resolution * Window
           /\ Age(i) >= Window => clock - accepted[i] > Resolution * (Window - 1)
<1>1. clock \in Nat /\ accepted[i] \in Nat
  BY DEF BucketInv
<1>2. Second(clock) \in Nat /\ Second(accepted[i]) \in Nat
  BY <1>1, Seconds
<1>3. Window \in Int
  BY RateLimiterAssumption
<1>4. /\ Second(clock) - Second(accepted[i]) < Window
            => clock - accepted[i] < Resolution * Window
      /\ Second(clock) - Second(accepted[i]) >= Window
            => clock - accepted[i] > Resolution * (Window - 1)
  BY <1>1, <1>3, Seconds
<1> QED BY <1>1, <1>2, <1>4 DEF Age

(* An account of later stamps is no older.                                 *)
LEMMA AgesInOrder ==
    ASSUME BucketInv, NEW i \in 1..Len(accepted), NEW j \in 1..Len(accepted), i <= j
    PROVE  Age(j) <= Age(i)
<1>1. clock \in Nat /\ accepted[i] \in Nat /\ accepted[j] \in Nat /\ accepted[i] <= accepted[j]
  BY DEF BucketInv
<1>2. Second(accepted[i]) \in Nat /\ Second(accepted[j]) \in Nat
  BY <1>1, SecondsInOrder
<1>3. Second(accepted[i]) <= Second(accepted[j])
  BY <1>1, SecondsInOrder
<1>4. Second(clock) \in Nat
  <2>1. clock <= clock
    BY <1>1
  <2> QED
    BY <1>1, <2>1, SecondsInOrder
<1> QED BY <1>2, <1>3, <1>4 DEF Age

(* With a full account of the window, a request is let through only if the *)
(* Limit-th request before it is out of the window.                        *)
LEMMA RoomMeansOldStamp ==
    ASSUME BucketInv, Cardinality(Pruned) < Limit,
           NEW i \in 1..Len(accepted), i = Len(accepted) + 1 - Limit
    PROVE  Age(i) >= Window
<1> DEFINE n == Len(accepted)
<1> USE RateLimiterAssumption
<1>1. n \in Nat /\ IsFiniteSet(1..n) /\ Pruned \subseteq 1..n
  <2>1. n \in Nat /\ Pruned \subseteq 1..n
    <3>1. accepted \in Seq(Nat) /\ bucket \subseteq 1..n
      BY DEF BucketInv
    <3>2. Pruned \subseteq bucket
      BY DEF Pruned
    <3>3. n \in Nat
      BY <3>1
    <3> QED
      BY <3>1, <3>2, <3>3
  <2>2. IsFiniteSet(1..n)
    BY <2>1, FS_Interval
  <2> QED
    BY <2>1, <2>2
<1>2. IsFiniteSet(Pruned) /\ Cardinality(Pruned) \in Nat
  BY <1>1, FS_Subset, FS_CardinalityType
<1>3. SUFFICES ASSUME Age(i) < Window
               PROVE  FALSE
  BY Ages
<1>4. i..n \subseteq Pruned
  <2> SUFFICES ASSUME NEW j \in i..n
               PROVE  j \in Pruned
    OBVIOUS
  <2>1. j \in 1..n /\ i <= j
    BY <1>1
  <2>2. Age(j) < Window /\ Age(j) \in Int
    <3>1. Age(i) \in Int /\ Age(j) \in Int
      BY <2>1, Ages
    <3>2. Age(j) <= Age(i)
      BY <2>1, AgesInOrder
    <3> QED
      BY <1>3, <3>1, <3>2
  <2>3. j \in bucket
    BY <2>1, <2>2 DEF BucketInv
  <2> QED
    BY <2>2, <2>3 DEF Pruned, Fresh
<1>5. Cardinality(i..n) = Limit
  BY <1>1, FS_Interval
<1>6. Cardinality(i..n) <= Cardinality(Pruned)
  BY <1>2, <1>4, FS_Subset
<1> QED
  BY <1>2, <1>5, <1>6

(* BucketInv holds at the start and through every step.                    *)
THEOREM BucketInvariant == Spec => []BucketInv
<1> USE RateLimiterAssumption
<1>1. Init => BucketInv
  BY DEF Init, BucketInv, SlidingWindow
<1>2. BucketInv /\ [Next]_vars => BucketInv'
  <2> SUFFICES ASSUME BucketInv, [Next]_vars
               PROVE  BucketInv'
    OBVIOUS
  <2>1. CASE Tick
    <3>1. clock \in Nat /\ clock' = clock + 1 /\ UNCHANGED <<accepted, bucket, refused>>
      BY <2>1 DEF Tick, BucketInv
    <3>2. \A i \in 1..Len(accepted) : accepted[i] \in Nat
      BY DEF BucketInv
    <3>3. ASSUME NEW i \in 1..Len(accepted) \ bucket PROVE Age(i)' >= Window
      <4>1. Second(clock) \in Nat /\ Second(clock + 1) \in Nat /\ Second(clock) <= Second(clock + 1)
        BY <3>1, Seconds
      <4>2. Age(i) >= Window /\ Second(accepted[i]) \in Nat
        <5>1. i \in 1..Len(accepted) /\ accepted[i] \in Nat
          BY <3>2
        <5>2. Second(accepted[i]) \in Nat
          BY <5>1, Seconds
        <5> QED BY <5>2 DEF BucketInv
      <4>3. Age(i)' = Second(clock + 1) - Second(accepted[i])
        BY <3>1 DEF Age, Second
      <4> QED BY <4>1, <4>2, <4>3 DEF Age
    <3>4. SlidingWindow' /\ \A i \in 1..Len(accepted) : accepted[i] <= clock'
      BY <3>1, <3>2 DEF BucketInv, SlidingWindow
    <3> QED
      BY <3>1, <3>3, <3>4 DEF BucketInv
  <2>2. CASE Check
    <3> DEFINE n == Len(accepted)
    <3>0. refused' \in Nat
      BY <2>2 DEF Check, BucketInv
    <3>1. /\ n \in Nat /\ clock \in Nat /\ UNCHANGED clock
          /\ \A i \in 1..n : accepted[i] \in Nat
          /\ Pruned \subseteq bucket /\ bucket \subseteq 1..n
          /\ \A i \in 1..n \ Pruned : Age(i) >= Window
      <4>1. ASSUME NEW i \in 1..n \ Pruned PROVE Age(i) >= Window
        <5>1. i \notin bucket \/ ~(Age(i) < Window)
          BY DEF Pruned, Fresh
        <5> QED BY <5>1, Ages DEF BucketInv
      <4> QED BY <2>2, <4>1 DEF Check, BucketInv, Pruned
    <3>2. CASE bucket' = Pruned /\ UNCHANGED accepted
      <4>1. \A i \in 1..n : Age(i)' = Age(i)
        BY <3>1, <3>2 DEF Age, Second
      <4> QED BY <3>0, <3>1, <3>2, <4>1 DEF BucketInv, SlidingWindow
    <3>3. CASE /\ Cardinality(Pruned) < Limit
               /\ accepted' = Append(accepted, clock)
               /\ bucket' = Pruned \cup {n + 1}
      <4>1. /\ accepted' \in Seq(Nat) /\ Len(accepted') = n + 1
            /\ \A i \in 1..n : accepted'[i] = accepted[i]
            /\ accepted'[n + 1] = clock
        BY <3>1, <3>3 DEF BucketInv
      <4>2. \A i \in 1..(n + 1) : accepted'[i] <= clock'
        <5>1. \A i \in 1..n : accepted[i] <= clock
          BY DEF BucketInv
        <5>2. \A i \in 1..(n + 1) : i = n + 1 \/ i \in 1..n
          BY <3>1
        <5> QED BY <3>1, <4>1, <5>1, <5>2
      <4>3. \A i, j \in 1..(n + 1) : i <= j => accepted'[i] <= accepted'[j]
        <5>1. ASSUME NEW i \in 1..(n + 1), NEW j \in 1..(n + 1), i <= j
              PROVE  accepted'[i] <= accepted'[j]
          <6>1. CASE j = n + 1
            BY <6>1, <3>1, <4>1, <4>2
          <6>2. CASE j # n + 1
            <7>1. i \in 1..n /\ j \in 1..n
              BY <5>1, <6>2, <3>1
            <7>2. accepted[i] <= accepted[j]
              BY <5>1, <7>1 DEF BucketInv
            <7> QED
              BY <4>1, <7>1, <7>2
          <6> QED
            BY <6>1, <6>2
        <5> QED
          BY <5>1
      <4>4. \A i \in 1..(n + 1) \ bucket' : Age(i)' >= Window
        <5>1. \A i \in 1..n : Age(i)' = Age(i)
          BY <3>1, <4>1 DEF Age, Second
        <5>2. \A i \in 1..(n + 1) \ bucket' : i \in 1..n \ Pruned
          BY <3>1, <3>3
        <5> HIDE DEF n
        <5> QED BY <3>1, <5>1, <5>2
      <4>5. Limit > 0
        <5>1. IsFiniteSet(Pruned)
          <6>1. IsFiniteSet(1..n)
            BY <3>1, FS_Interval
          <6> QED
            BY <3>1, <6>1, FS_Subset
        <5> QED
          BY <3>3, <5>1, FS_CardinalityType
      <4>6. ASSUME NEW i \in 1..(n + 1 - Limit)
            PROVE  accepted'[i + Limit] - accepted'[i] > Resolution * (Window - 1)
        <5>1. CASE i < n + 1 - Limit
          <6>1. i \in 1..(n - Limit) /\ i \in 1..n /\ i + Limit \in 1..n
            BY <5>1, <3>1, <4>5
          <6>2. accepted[i + Limit] - accepted[i] > Resolution * (Window - 1)
            BY <6>1 DEF BucketInv, SlidingWindow
          <6> QED
            BY <4>1, <6>1, <6>2
        <5>2. CASE i = n + 1 - Limit
          <6>1. i \in 1..n /\ i + Limit = n + 1 /\ i = n + 1 - Limit
            BY <3>1, <4>5, <5>2
          <6>2. clock - accepted[i] > Resolution * (Window - 1)
            BY <3>3, <6>1, RoomMeansOldStamp, Ages
          <6> QED BY <4>1, <6>1, <6>2
        <5> QED
          BY <5>1, <5>2, <3>1
      <4>7. SlidingWindow'
        BY <4>1, <4>6 DEF SlidingWindow
      <4> QED
        <5>1. bucket' \subseteq 1..Len(accepted')
          <6>1. Len(accepted') = n + 1 /\ n \in Nat
            BY <3>1, <4>1
          <6>2. 1..n \subseteq 1..(n + 1) /\ n + 1 \in 1..(n + 1)
            BY <6>1
          <6>3. bucket' = Pruned \cup {n + 1} /\ Pruned \subseteq 1..n
            BY <3>1, <3>3
          <6> HIDE DEF n
          <6> QED
            BY <6>1, <6>2, <6>3
        <5>2. clock' \in Nat
          BY <3>1
        <5> QED
          BY <3>0, <4>1, <4>2, <4>3, <4>4, <4>7, <5>1, <5>2 DEF BucketInv
    <3> QED
      BY <2>2, <3>2, <3>3 DEF Check
  <2>3. CASE UNCHANGED vars
    <3>1. UNCHANGED <<clock, accepted, bucket, refused>>
      BY <2>3 DEF vars
    <3> QED BY <3>1 DEF BucketInv, SlidingWindow, Age, Second
  <2> QED
    BY <2>1, <2>2, <2>3 DEF Next
<1> QED
  BY <1>1, <1>2, PTL DEF Spec

(* Any Limit + 1 successive requests let through span more than the window *)
(* less the second that int(time.time()) may hide, wherever the window     *)
(* begins.                                                                 *)
THEOREM WindowKept == Spec => []SlidingWindow
<1>1. BucketInv => SlidingWindow
  BY DEF BucketInv
<1> QED
  BY BucketInvariant, <1>1, PTL

(* A request is refused only when Limit requests were let through less     *)
(* than a window of real time ago: the bucket never holds an older stamp,  *)
(* and no refused request left one.                                        *)
THEOREM RefusalsJustified == Spec => RefusedOnlyAtLimit
<1> DEFINE Current == {i \in DOMAIN accepted : clock - accepted[i] < Resolution * Window}
<1>1. ASSUME BucketInv, [Next]_vars, refused' > refused
      PROVE  Cardinality(Current) >= Limit
  <2>1. Cardinality(Pruned) >= Limit
    <3>1. refused \in Nat /\ refused' # refused
      BY <1>1 DEF BucketInv
    <3> QED BY <1>1, <3>1 DEF Next, Tick, Check, vars
  <2>2. accepted \in Seq(Nat) /\ bucket \subseteq 1..Len(accepted)
    BY <1>1 DEF BucketInv
  <2>3. Pruned \subseteq Current /\ Current \subseteq 1..Len(accepted) /\ Len(accepted) \in Nat
    <3>1. DOMAIN accepted = 1..Len(accepted) /\ Len(accepted) \in Nat
      BY <2>2
    <3>2. \A i \in Pruned : i \in 1..Len(accepted) /\ Age(i) < Window
      BY <2>2 DEF Pruned, Fresh
    <3>3. \A i \in Pruned : clock - accepted[i] < Resolution * Window
      BY <1>1, <3>2, Ages
    <3> QED BY <3>1, <3>2, <3>3
  <2>4. IsFiniteSet(Current)
    BY <2>3, FS_Interval, FS_Subset
  <2>5. /\ Cardinality(Pruned) <= Cardinality(Current)
        /\ Cardinality(Pruned) \in Nat /\ Cardinality(Current) \in Nat
    BY <2>3, <2>4, FS_Subset, FS_CardinalityType
  <2> HIDE DEF Current
  <2> QED BY <2>1, <2>5, RateLimiterAssumption
<1> QED BY <1>1, BucketInvariant, PTL DEF Spec, RefusedOnlyAtLimit
==============================================================================
