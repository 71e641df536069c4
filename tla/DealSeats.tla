------------------------------ MODULE DealSeats ------------------------------
(***************************************************************************)
(* What the active-deal limit promises a tenant, without tabs, locks or    *)
(* statements: a deal takes a seat in one step, and only while the tenant  *)
(* holds fewer seats than its allowance; it may give the seat back at any  *)
(* time.  The allowance is the best plan the tenant has had: losing a plan *)
(* never takes a live deal away, so it only grows.                         *)
(***************************************************************************)
EXTENDS Entitlement, FiniteSets

CONSTANTS Tenants, Deals

VARIABLES
    seats,       \* [Tenants -> SUBSET Deals]: the counted live deals
    allowance    \* [Tenants -> Caps]

Init ==
    /\ seats = [t \in Tenants |-> {}]
    /\ allowance = [t \in Tenants |-> FreeCap]

Take(t, d) ==
    /\ d \notin seats[t]
    /\ UnderCap(Cardinality(seats[t]), allowance[t])
    /\ seats' = [seats EXCEPT ![t] = @ \cup {d}]
    /\ UNCHANGED allowance

GiveBack(t, d) ==
    /\ d \in seats[t]
    /\ seats' = [seats EXCEPT ![t] = @ \ {d}]
    /\ UNCHANGED allowance

Raise ==
    /\ allowance' \in [Tenants -> Caps]
    /\ \A t \in Tenants : CapLeq(allowance[t], allowance'[t])
    /\ UNCHANGED seats

Next == Raise \/ \E t \in Tenants, d \in Deals : Take(t, d) \/ GiveBack(t, d)

Spec == Init /\ [][Next]_<<seats, allowance>>
===============================================================================
