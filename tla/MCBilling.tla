------------------------------ MODULE MCBilling ------------------------------
(* Instances of Billing for TLC.  Every cfg picks its Events and Refs; the
   maps below say what they are. *)
EXTENDS Billing, TLC

CONSTANTS t1, t2,              \* tenants
          s1, s2,              \* subscriptions
          q1, q2, q3,          \* references: q1, q2 of t1 and q3 of t2
          starter, pro,
          h1, h2,
          born, lapsed, lapsed2,   \* events of s1, in time order
          ended,               \* s1: canceled, at the very time of lapsed
          odd,                 \* s1: a price that is not sold
          second,              \* s2 on q2
          strayed,             \* s1 with the reference of t2
          receipt              \* transaction.completed

Event(sub, status, tier, at, q) ==
    [sub |-> sub, status |-> status, tier |-> tier, at |-> at, ref |-> q]

Payload ==
    born    :> Event(s1, "active",   starter, 1, q1) @@
    odd     :> Event(s1, "active",   Absent,  2, q1) @@
    lapsed  :> Event(s1, "past_due", starter, 2, q1) @@
    lapsed2 :> Event(s1, "past_due", starter, 3, q1) @@
    ended   :> Event(s1, "canceled", starter, 2, q1) @@
    second  :> Event(s2, "active",   pro,     4, q2) @@
    strayed :> Event(s1, "active",   starter, 1, q3) @@
    receipt :> Event(Absent, "active", Absent, 1, Absent)

MCEventOf   == [e \in Events |-> Payload[e]]
MCRefTenant == [q \in Refs |-> IF q = q3 THEN t2 ELSE t1]
MCTierCap   == starter :> 3 @@ pro :> 8
HandlerSymmetry == Permutations({h1, h2})
===============================================================================
