--------------------------- MODULE MCDealLifecycle ---------------------------
(* Instances of DealLifecycle for TLC.  Every cfg picks its Plans and Tabs;
   the maps below place them. *)
EXTENDS DealLifecycle, TLC

CONSTANTS t1, t2,                  \* tenants
          w1, w2, demo, w3,        \* w3 belongs to t2, the others to t1; demo and w3
                                   \* are sample workspaces
          a1, a2, b1, d1, d2, c1,  \* plans: of w1, w2, demo and w3
          r1, r2,                  \* tabs of t1
          starter, enterprise

Homes == a1 :> w1 @@ a2 :> w1 @@ b1 :> w2 @@ d1 :> demo @@ d2 :> demo @@ c1 :> w3
MCTenantOf   == [w \in Workspaces |-> IF w = w3 THEN t2 ELSE t1]
MCPlanHome   == [p \in Plans |-> Homes[p]]
MCTabTenant  == [r \in Tabs |-> t1]
TabSymmetry  == Permutations({r1, r2})
MCTierCap    == starter :> 2 @@ enterprise :> Unlimited

Row(st, tier, manual, since) ==
    [status |-> st, tier |-> tier, manual |-> manual, pastDueSince |-> since]

(* Paid, and overdue since time 0. *)
MCRows == {Row("active", starter, Absent, Absent), Row("past_due", starter, Absent, 0)}
===============================================================================
