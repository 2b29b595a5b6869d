------------------------------- MODULE MCTenancy -------------------------------
(* A small instance of Tenancy: one tenant with custom fields, another     *)
(* without, which may claim the first one's assistant and spoil the file.  *)
EXTENDS Tenancy

CONSTANTS t1, t2, a1, a2, fields, w1, w2

SomeEntries ==
    {[tenant |-> t1, assistant |-> a1, fields |-> fields, verdict |-> "ok"],
     [tenant |-> t2, assistant |-> a1, fields |-> NoFields, verdict |-> "ok"],
     [tenant |-> t2, assistant |-> a2, fields |-> fields, verdict |-> "HTTPException"]}

Symmetry == Permutations({w1, w2})
==============================================================================
