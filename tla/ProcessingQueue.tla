--------------------------- MODULE ProcessingQueue ---------------------------
(***************************************************************************)
(* The SQS FIFO queue of infra/main.tf, as worker.py and the webhook       *)
(* handlers use it: sends carry the event id as deduplication id and the   *)
(* tenant as message group, a received message stays in flight until it is *)
(* deleted or its visibility timeout ends, and a message that has used up  *)
(* its receives moves to the dead-letter queue.                            *)
(***************************************************************************)
EXTENDS CallStore

CONSTANTS
    Events,         \* webhook requests: see Webhooks.Event
    NoEvent,        \* the content of a slot nothing was sent to
    MaxReceive,     \* maxReceiveCount of the redrive policy
    MaxMessages     \* bound: messages sent in one behaviour

Slots == 1..MaxMessages

MessageStates == {"unsent", "visible", "inflight", "deleted", "dead"}

Message ==
    [state    : MessageStates,
     event    : Events \cup {NoEvent},
     receives : 0..MaxReceive]

ASSUME QueueAssumption ==
    /\ MaxReceive \in Nat \ {0}
    /\ MaxMessages \in Nat
    /\ NoEvent \notin Events

VARIABLE msgs       \* slots in the order the messages were sent

(* A message the queue still holds, and one some queue still holds.        *)
Live(i) == msgs[i].state \in {"visible", "inflight"}
Kept(i) == msgs[i].state \in {"visible", "inflight", "dead"}

Carries(i, c)   == msgs[i].state # "unsent" /\ msgs[i].event.call = c

(* Mutant: every message is a group of its own, as if the event id were    *)
(* the MessageGroupId.                                                     *)
SameMessage(i, j) == i = j

SameGroup(i, j) == msgs[i].event.tenant = msgs[j].event.tenant

(* send_message: the message takes the next slot.                          *)
Accept(e) ==
    \E i \in Slots :
        /\ msgs[i].state = "unsent"
        /\ \A j \in 1..(i - 1) : msgs[j].state # "unsent"
        /\ msgs' = [msgs EXCEPT ![i] =
                      [state |-> "visible", event |-> e, receives |-> 0]]

(* Mutant: one receive more than the redrive policy grants.                *)
ReceivableOnceMore(i) ==
    /\ msgs[i].state = "visible"
    /\ msgs[i].receives <= MaxReceive
    /\ \A j \in Slots :
         (j # i /\ Live(j) /\ SameGroup(i, j))
            => (msgs[j].state = "visible" /\ i < j)

(* FIFO order within a group: nothing of the group is in flight, and       *)
(* nothing sent earlier to the group is still there.                       *)
Receivable(i) ==
    /\ msgs[i].state = "visible"
    /\ msgs[i].receives < MaxReceive
    /\ \A j \in Slots :
         (j # i /\ Live(j) /\ SameGroup(i, j))
            => (msgs[j].state = "visible" /\ i < j)

Take(i) ==
    /\ Receivable(i)
    /\ msgs' = [msgs EXCEPT ![i].state = "inflight", ![i].receives = @ + 1]

(* The visibility timeout of an undeleted message.                         *)
Expire(i) ==
    /\ msgs[i].state = "inflight"
    /\ msgs' = [msgs EXCEPT ![i].state = "visible"]

(* Mutant: a message out of receives is not set aside.                     *)
RedriveLate(i) ==
    /\ msgs[i].state = "visible"
    /\ msgs[i].receives > MaxReceive
    /\ msgs' = [msgs EXCEPT ![i].state = "dead"]

(* The redrive policy.                                                     *)
Redrive(i) ==
    /\ msgs[i].state = "visible"
    /\ msgs[i].receives = MaxReceive
    /\ msgs' = [msgs EXCEPT ![i].state = "dead"]

(* delete_message with the receipt of the r-th receive: FIFO queues refuse *)
(* a receipt whose visibility timeout has ended; deleting twice is no      *)
(* error.                                                                  *)
ReceiptValid(i, r) ==
    /\ msgs[i].state \in {"inflight", "deleted"}
    /\ msgs[i].receives = r

Delete(i) == msgs' = [msgs EXCEPT ![i].state = "deleted"]

QueueInit ==
    msgs = [i \in Slots |-> [state |-> "unsent", event |-> NoEvent, receives |-> 0]]

QueueTypeOK ==
    /\ msgs \in [Slots -> Message]
    /\ \A i \in Slots : msgs[i].state # "unsent" => msgs[i].event \in Events
==============================================================================
