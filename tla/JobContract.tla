----------------------------- MODULE JobContract -----------------------------
(***************************************************************************)
(* What the processing queue and the worker promise together, without      *)
(* database, bucket or processes: every job handed over is taken up a      *)
(* bounded number of times, leaves for good only once an outcome for its   *)
(* call was concluded or its provider declared it done, is otherwise set   *)
(* aside only when its deliveries are spent, and does leave in the end.    *)
(***************************************************************************)
EXTENDS Naturals

CONSTANTS Jobs, Subjects, MaxDeliveries, Verdicts

VARIABLES
    stage,       \* where each job is
    deliveries,  \* how often it was taken up
    subject,     \* what it is about
    verdicts     \* the outcomes concluded for each subject

vars == <<stage, deliveries, subject, verdicts>>

Open == {"waiting", "taken"}

Init ==
    /\ stage      = [j \in Jobs |-> "absent"]
    /\ deliveries = [j \in Jobs |-> 0]
    /\ subject    = [j \in Jobs |-> "nothing"]
    /\ verdicts   = [s \in Subjects |-> {}]

Submit(j, s) ==
    /\ stage[j] = "absent"
    /\ stage' = [stage EXCEPT ![j] = "waiting"]
    /\ subject' = [subject EXCEPT ![j] = s]
    /\ UNCHANGED <<deliveries, verdicts>>

Deliver(j) ==
    /\ stage[j] = "waiting"
    /\ deliveries[j] < MaxDeliveries
    /\ stage' = [stage EXCEPT ![j] = "taken"]
    /\ deliveries' = [deliveries EXCEPT ![j] = @ + 1]
    /\ UNCHANGED <<subject, verdicts>>

(* Only for the subject of a job that is being worked on, or was when the  *)
(* work began.                                                             *)
Conclude(s, v) ==
    /\ \E j \in Jobs : subject[j] = s /\ deliveries[j] > 0
    /\ verdicts' = [verdicts EXCEPT ![s] = @ \cup {v}]
    /\ UNCHANGED <<stage, deliveries, subject>>

(* At any time, also before there is a job.                                *)
Declare(s) ==
    /\ verdicts' = [verdicts EXCEPT ![s] = @ \cup {"declared"}]
    /\ UNCHANGED <<stage, deliveries, subject>>

Return(j) ==
    /\ stage[j] = "taken"
    /\ stage' = [stage EXCEPT ![j] = "waiting"]
    /\ UNCHANGED <<deliveries, subject, verdicts>>

Settle(j) ==
    /\ stage[j] = "taken"
    /\ verdicts[subject[j]] # {}
    /\ stage' = [stage EXCEPT ![j] = "settled"]
    /\ UNCHANGED <<deliveries, subject, verdicts>>

SetAside(j) ==
    /\ stage[j] = "waiting"
    /\ deliveries[j] = MaxDeliveries
    /\ stage' = [stage EXCEPT ![j] = "set aside"]
    /\ UNCHANGED <<deliveries, subject, verdicts>>

Next ==
    \/ \E j \in Jobs :
         \/ \E s \in Subjects : Submit(j, s)
         \/ Deliver(j) \/ Return(j) \/ Settle(j) \/ SetAside(j)
    \/ \E s \in Subjects :
         \/ Declare(s)
         \/ \E v \in Verdicts : Conclude(s, v)

(* A job does not stay open for ever.                                      *)
EveryJobLeaves == \A j \in Jobs : stage[j] \in Open ~> stage[j] \notin Open

Spec == Init /\ [][Next]_vars
FairSpec == Spec /\ EveryJobLeaves
==============================================================================
