------------------------------- MODULE MCCallers -------------------------------
(***************************************************************************)
(* Instances, for TLC, of the components where several callers meet: the   *)
(* portal's codes, the deal's room, who is let into it, the CRM connection *)
(* and the sellers' accounts.  They share no state here, so that a run     *)
(* picks one door at the start and stays at it: its states are those of    *)
(* the components, added and not multiplied.                               *)
(***************************************************************************)
EXTENDS PortalGate, DealRoom, DealAccess, CrmTokens, SellerAccount, TLC

CONSTANTS a1, a2, b1, b2

VARIABLE door    \* the component this behaviour is about

(* What a door not in use starts from, lest its choices multiply the others. *)
AtRest ==
    /\ door # "gate" => codes = <<>>
    /\ door # "room" => plan = "none"
    /\ door # "access" => kind = "deal" /\ domain = "nobody"
    /\ door # "crm" => provider = "hubspot" /\ stored = 1

Init ==
    /\ door \in {"gate", "room", "access", "crm", "account"}
    /\ GateInit /\ RoomInit /\ AccessInit /\ CrmInit /\ AccountInit /\ AtRest

Next ==
    \/ door = "gate" /\ GateNext /\ UNCHANGED <<door, roomVars, accessVars, crmVars, accountVars>>
    \/ door = "room" /\ RoomNext /\ UNCHANGED <<door, gateVars, accessVars, crmVars, accountVars>>
    \/ door = "access" /\ AccessNext /\ UNCHANGED <<door, gateVars, roomVars, crmVars, accountVars>>
    \/ door = "crm" /\ CrmNext /\ UNCHANGED <<door, gateVars, roomVars, accessVars, accountVars>>
    \/ door = "account" /\ AccountNext /\ UNCHANGED <<door, gateVars, roomVars, accessVars, crmVars>>

Spec == Init /\ [][Next]_<<door, gateVars, roomVars, accessVars, crmVars, accountVars>>

(* The sets of alike values are shared by the components, which never meet. *)
CallerSymmetry == Permutations({a1, a2}) \cup Permutations({b1, b2})

(* The rows and counters of the door in use are of their types. *)
CallersTypeOK ==
    CASE door = "gate"    -> GateTypeOK
      [] door = "room"    -> RoomTypeOK
      [] door = "access"  -> AccessTypeOK
      [] door = "crm"     -> CrmTypeOK
      [] door = "account" -> AccountTypeOK
===============================================================================
