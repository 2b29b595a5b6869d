----------------------------- MODULE MCPipeline -----------------------------
(* Small instances of CallPipeline.                                        *)
EXTENDS CallPipeline, TLC

CONSTANTS c1, t1, w1, w2, p1, p2, admin

ev(n, src, c, dir, rec) ==
    [id |-> n, source |-> src, call |-> c, tenant |-> t1, direction |-> dir,
     status |-> IF rec THEN "ended" ELSE "in-progress", recorded |-> rec]

(* The same event in a word the program uses itself.                       *)
says(s, e) == [e EXCEPT !.status = s]

AnyStatus == {"ended", "in-progress", "queued", "completed"}

OneTenant == [c \in Calls |-> t1]

(* The final event of a call that comes in through Vapi.                   *)
FinalEvent == {ev(2, "vapi", c1, "inbound", TRUE)}

(* A call the system dials, with progress events that use the program's    *)
(* own words, and the final one.                                           *)
OutboundEvents ==
    {ev(3, "start", c1, "outbound", FALSE),
     says("queued", ev(4, "vapi", c1, "outbound", FALSE)),
     says("completed", ev(5, "vapi", c1, "outbound", FALSE)),
     ev(6, "vapi", c1, "outbound", TRUE)}

(* A call of the call centre, completed first and recorded later or at     *)
(* once.                                                                   *)
CallCentreEvents ==
    {ev(7, "call_center", c1, "inbound", FALSE),
     ev(8, "call_center", c1, "inbound", TRUE)}

Symmetry == Permutations(Workers)
==============================================================================
