-------------------------------- MODULE Tenancy --------------------------------
(***************************************************************************)
(* The two records a tenant has, its entry in the policy file and its      *)
(* organization, and the calls that come in through either: Vapi's need an *)
(* approved entry, the call-centre bridge asks only for an organization.   *)
(***************************************************************************)
EXTENDS Organizations

tenancyVars == <<vars, orgVars>>

(* receive_event of the bridge, for a call without a row.                  *)
AcceptBridged(c, t) ==
    /\ Registered(t)
    /\ Enter(c, t, "call_center", "open")

TenancyInit == Init /\ OrganizationsInit

TenancyNext ==
    \/ Next /\ UNCHANGED orgVars
    \/ (\E c \in CallIds, t \in TenantIds : AcceptBridged(c, t)) /\ UNCHANGED orgVars
    \/ /\ \E w \in Writers :
            \/ \E t \in Clients : SavePreflight(w, t) \/ GenerateGuidance(w, t)
            \/ OrganizationRead(w) \/ OrganizationWrite(w) \/ WriterFails(w)
       /\ UNCHANGED vars

TenancySpec == TenancyInit /\ [][TenancyNext]_tenancyVars

(*------------------------------ properties ------------------------------*)

(* The look-ups fail closed: a Vapi call is accepted, and a turn answered, *)
(* only for a tenant that a file with nothing wrong in any entry has       *)
(* named, and a call of the bridge only for a registered organization,     *)
(* whatever was edited before and after.                                   *)
ServedTenantsWereApproved ==
    \A c \in CallIds :
        /\ \A t \in chats[c] \cup (IF calls[c].provider = "vapi" THEN {calls[c].tenant} ELSE {}) :
             \E g \in inForce : g[1] = t
        /\ calls[c].provider = "call_center" => Registered(calls[c].tenant)

(* Prompt guidance summarises calls of its own tenant only, and only such  *)
(* as were completed, also while two writers overlap.                      *)
GuidanceIsTheTenantsOwn ==
    \A t \in TenantIds :
        \A c \in PromptGuidance(t) : issuer[c] = t /\ past[c] \in {"completed", "undone"}
==============================================================================
