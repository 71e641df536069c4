-------------------------- MODULE SubscriptionLedger --------------------------
(***************************************************************************)
(* What the billing webhook promises about a tenant's subscription,        *)
(* without deliveries, handlers or retries: the ledger holds, per tenant,  *)
(* the payload of one billing event, and moves in single steps to another  *)
(* event that is at least as recent and that either belongs to the same    *)
(* subscription or replaces a canceled one.  No subscription is ever held  *)
(* by two tenants.                                                         *)
(***************************************************************************)
EXTENDS Naturals

CONSTANTS Tenants, Posts, Absent

VARIABLE holds   \* [Tenants -> Posts \cup {Absent}]

Init == holds = [t \in Tenants |-> Absent]

MayFollow(old, new) ==
    old # Absent => /\ old.at <= new.at
                    /\ old.sub = new.sub \/ old.status = "canceled"

HeldElsewhere(t, sub) ==
    \E u \in Tenants \ {t} : holds[u] # Absent /\ holds[u].sub = sub

Post(t, new) ==
    /\ MayFollow(holds[t], new)
    /\ ~HeldElsewhere(t, new.sub)
    /\ holds' = [holds EXCEPT ![t] = new]

Next == \E t \in Tenants, new \in Posts : Post(t, new)

Spec == Init /\ [][Next]_holds
===============================================================================
