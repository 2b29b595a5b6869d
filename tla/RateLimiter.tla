----------------------------- MODULE RateLimiter -----------------------------
(***************************************************************************)
(* check_rate_limit of security.py for one bucket, that is one client and  *)
(* one path in one API process.  The middleware calls it without yielding  *)
(* the event loop, so a check is one step; buckets do not affect each      *)
(* other.  time.time() is taken to be monotone.                            *)
(***************************************************************************)
EXTENDS Integers, Sequences, FiniteSets

CONSTANTS
    Limit,          \* RATE_LIMITS of the route
    Window,         \* RATE_LIMIT_WINDOW_SECONDS
    Resolution,     \* ticks of the clock in a second
    MaxTime,        \* bound: the clock
    MaxRequests     \* bound: requests in one behaviour

ASSUME RateLimiterAssumption ==
    Limit \in Nat /\ Window \in Nat /\ Resolution \in Nat \ {0}

VARIABLES
    clock,      \* time.time(), in ticks
    accepted,   \* history: when each request let through was let through
    bucket,     \* the accepted requests whose stamps the bucket holds
    refused     \* requests answered 429

vars == <<clock, accepted, bucket, refused>>

Init ==
    /\ clock    = 0
    /\ accepted = <<>>
    /\ bucket   = {}
    /\ refused  = 0

Tick ==
    /\ clock < MaxTime
    /\ clock' = clock + 1
    /\ UNCHANGED <<accepted, bucket, refused>>

(* int(time.time()) drops what is past the second.                         *)
Second(t) == t \div Resolution

Age(i) == Second(clock) - Second(accepted[i])

(* Mutant: a stamp leaves the window a second early.                       *)
FreshBriefly(i) == Age(i) < Window - 1

(* Mutant: a stamp stays in the window a second longer.                    *)
FreshForLonger(i) == Age(i) <= Window

(* Only stamps of this window are kept.                                    *)
Fresh(i) == Age(i) < Window

Pruned == {i \in bucket : Fresh(i)}

(* check_rate_limit prunes the bucket first; a refused request leaves no   *)
(* stamp.                                                                  *)
Check ==
    /\ Len(accepted) + refused < MaxRequests
    /\ \/ /\ Cardinality(Pruned) < Limit
          /\ accepted' = Append(accepted, clock)
          /\ bucket' = Pruned \cup {Len(accepted) + 1}
          /\ UNCHANGED refused
       \/ /\ Cardinality(Pruned) >= Limit
          /\ bucket' = Pruned
          /\ refused' = refused + 1
          /\ UNCHANGED accepted
    /\ UNCHANGED clock

Next == Tick \/ Check

Spec == Init /\ [][Next]_vars

(*------------------------------ properties ------------------------------*)

(* However requests are spread over window boundaries, any Limit + 1       *)
(* successive ones let through span more than the window less one second:  *)
(* the stamps, cut to whole seconds, make the window as much shorter, and  *)
(* no shorter than that.                                                   *)
SlidingWindow ==
    \A i \in 1..(Len(accepted) - Limit) :
        accepted[i + Limit] - accepted[i] > Resolution * (Window - 1)

(* A request is refused only when Limit requests were let through less     *)
(* than a window ago; refused ones do not prolong the wait.                *)
RefusedOnlyAtLimit ==
    [][refused' > refused =>
         Cardinality({i \in DOMAIN accepted : clock - accepted[i] < Resolution * Window})
             >= Limit]_vars
==============================================================================
