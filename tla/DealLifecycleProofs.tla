------------------------- MODULE DealLifecycleProofs -------------------------
(***************************************************************************)
(* Proofs about DealLifecycle, for any tenants, tabs, plans and tiers.     *)
(***************************************************************************)
EXTENDS DealLifecycle, FiniteSetTheorems, TLAPS

(* A tab inside mark_plan_live() owns its tenant's row lock. *)
LockHeld == \A r \in Tabs : pc(r) \in InTransaction => lock[TabTenant[r]] = r

(* A cap that travels towards the lock, however stale, was once granted. *)
CapGranted ==
    \A r \in Tabs : pc(r) \in {"lock"} \cup InTransaction =>
        CapLeq(call[r].cap, granted[TabTenant[r]])

(* What the stored row allows now has been granted. *)
EntitledNow == \A t \in Tenants : CapLeq(AllowedCap(sub[t], now), granted[t])

(* Past the verdicts, the plan is one that counts for the tab's tenant, and
   between the count and the update the tenant is still under the cap. *)
SeatChecked ==
    \A r \in Tabs :
        /\ pc(r) \in {"count", "write"} => call[r].target \in Countable(TabTenant[r])
        /\ pc(r) = "write" => UnderCap(ActiveCount(TabTenant[r]), call[r].cap)

IInv ==
    /\ TypeOK
    /\ LockHeld
    /\ CapGranted
    /\ EntitledNow
    /\ SeatChecked
    /\ PaidFor
-------------------------------------------------------------------------------
(* The billing rule always answers with a cap and a verdict. *)
LEMMA EntitlementType ==
    ASSUME NEW row, NEW t \in Nat
    PROVE  /\ ResolveEntitlement(row, t).cap \in Caps
           /\ ResolveEntitlement(row, t).blocked \in BOOLEAN
           /\ AllowedCap(row, t) \in Caps
  <1>1. \A tier, source, g : \A b \in BOOLEAN :
          LET e == TierEntitlementOrFree(tier, source, g, b)
          IN  e.cap \in Caps /\ e.blocked \in BOOLEAN
    BY CapAssumption DEF TierEntitlementOrFree, FreeEntitlement,
       MaxActiveDealsForTier, Caps
  <1>2. FreeEntitlement.cap \in Caps /\ FreeEntitlement.blocked \in BOOLEAN
    BY CapAssumption DEF FreeEntitlement, Caps
  <1>3. (~IsInGrace(row.pastDueSince, t)) \in BOOLEAN
    BY DEF IsInGrace
  <1>4. /\ ResolveEntitlement(row, t).cap \in Caps
        /\ ResolveEntitlement(row, t).blocked \in BOOLEAN
    BY <1>1, <1>2, <1>3 DEF ResolveEntitlement
  <1> QED
    BY <1>4 DEF AllowedCap, Caps

(* With time alone, what a row allows only shrinks: grace runs out. *)
LEMMA AllowedCapAntitone ==
    ASSUME NEW row, NEW t \in Nat,
           row # Absent => row.pastDueSince \in Nat \cup {Absent}
    PROVE  AllowedCap(row, t + 1) \in {0, AllowedCap(row, t)}
  <1>1. row # Absent /\ IsInGrace(row.pastDueSince, t + 1) => IsInGrace(row.pastDueSince, t)
    BY CapAssumption DEF IsInGrace
  <1>2. CASE row # Absent /\ IsInGrace(row.pastDueSince, t + 1)
                /\ IsInGrace(row.pastDueSince, t)
    <2>1. ResolveEntitlement(row, t + 1) = ResolveEntitlement(row, t)
      BY <1>2 DEF ResolveEntitlement
    <2> QED BY <2>1 DEF AllowedCap
  <1>3. CASE row # Absent /\ ~IsInGrace(row.pastDueSince, t + 1)
    BY <1>3 DEF AllowedCap, ResolveEntitlement, TierEntitlementOrFree, FreeEntitlement
  <1>4. CASE row = Absent
    BY <1>4 DEF AllowedCap, ResolveEntitlement, FreeEntitlement
  <1> QED BY <1>1, <1>2, <1>3, <1>4

(* The order on caps. *)
LEMMA CapOrder ==
    ASSUME NEW a \in Caps, NEW b \in Caps, NEW c \in Caps, NEW n \in Nat
    PROVE  /\ LargerCap(a, b) \in Caps
           /\ CapLeq(a, a)
           /\ CapLeq(0, a)
           /\ CapLeq(a, LargerCap(a, b)) /\ CapLeq(b, LargerCap(a, b))
           /\ CapLeq(a, b) /\ CapLeq(b, c) => CapLeq(a, c)
           /\ UnderCap(n, a) /\ CapLeq(a, b) => AtMost(n + 1, b) /\ UnderCap(n, b)
           /\ AtMost(n, a) /\ CapLeq(a, b) => AtMost(n, b)
  BY CapAssumption DEF Caps, LargerCap, CapLeq, UnderCap, AtMost

(* The counted plans are finitely many, so their number is a natural. *)
LEMMA CountedFinite ==
    ASSUME NEW t
    PROVE  IsFiniteSet(Counted(t)) /\ ActiveCount(t) \in Nat
  <1>1. IsFiniteSet(Plans) BY LifecycleAssumption
  <1>2. Counted(t) \subseteq Plans BY DEF Counted, Countable
  <1>3. IsFiniteSet(Counted(t)) BY <1>1, <1>2, FS_Subset
  <1> QED BY <1>3, FS_CardinalityType DEF ActiveCount
-------------------------------------------------------------------------------
(* Every value starts, and stays, of its type: the types of the columns, and
   calls that carry what their program counter needs. *)
LEMMA TypeInit == Init => TypeOK
  <1> SUFFICES ASSUME Init PROVE TypeOK
    OBVIOUS
  <1>1. Idle \in Calls
    BY DEF Idle, Calls, CallRecords, InTransaction
  <1>2. /\ status \in [Plans -> PlanStatuses]
        /\ sub \in [Tenants -> BillingRows \cup {Absent}]
        /\ lock \in [Tenants -> Tabs \cup {NoTab}]
        /\ call \in [Tabs -> Calls]
    BY <1>1 DEF Init, PlanStatuses
  <1>3. now \in Nat /\ granted \in [Tenants -> Caps]
    BY CapAssumption DEF Init, Caps
  <1> QED BY <1>2, <1>3 DEF TypeOK

LEMMA TypeStep == TypeOK /\ [Next]_vars => TypeOK'
  <1> SUFFICES ASSUME TypeOK, [Next]_vars PROVE TypeOK'
    OBVIOUS
  <1>0. \A r \in Tabs, c \in Calls : [call EXCEPT ![r] = c] \in [Tabs -> Calls]
    BY DEF TypeOK
  <1>i. Idle \in Calls
    BY DEF Idle, Calls, CallRecords, InTransaction
  <1>r. \A r \in Tabs : call[r] \in Calls
    BY DEF TypeOK
  <1>g. ASSUME NEW r \in Tabs, NEW label, Goto(r, label),
               \/ pc(r) \in {"lock"} \cup InTransaction /\ label \in InTransaction \cup {"readback"}
               \/ pc(r) = "closeGate" /\ label = "close"
               \/ pc(r) = "deleteGate" /\ label = "delete"
        PROVE  call' \in [Tabs -> Calls]
    BY <1>g, <1>r DEF TypeOK, Goto, pc, Calls, CallRecords, GoLivePcs, GatePcs, InTransaction
  <1>b. ASSUME NEW r \in Tabs, Return(r) PROVE call' \in [Tabs -> Calls]
    BY <1>b, <1>0, <1>i DEF Return
  <1>l. \A r \in Tabs : /\ [lock EXCEPT ![TabTenant[r]] = NoTab] \in [Tenants -> Tabs \cup {NoTab}]
                       /\ [lock EXCEPT ![TabTenant[r]] = r] \in [Tenants -> Tabs \cup {NoTab}]
    BY DEF TypeOK
  <1>1. ASSUME NEW r \in Tabs, NEW p \in Plans, CreatePlan(r, p) PROVE TypeOK'
    BY <1>1 DEF TypeOK, CreatePlan, PlanStatuses
  <1>2. ASSUME NEW r \in Tabs, NEW p \in Plans, NEW o \in Closed,
               StartGoLive(r, p) \/ StartDelete(r, p) \/ StartClose(r, p, o)
        PROVE TypeOK'
    <2>1. /\ Begin("entitle", p, Absent) \in Calls
          /\ Begin("deleteGate", p, Absent) \in Calls
          /\ Begin("closeGate", p, o) \in Calls
      BY DEF Begin, Calls, CallRecords, GoLivePcs, GatePcs, InTransaction
    <2>2. call' \in [Tabs -> Calls]
      BY <1>2, <1>0, <2>1 DEF StartGoLive, StartDelete, StartClose
    <2> QED BY <1>2, <2>2 DEF TypeOK, StartGoLive, StartDelete, StartClose, dbVars
  <1>3. ASSUME NEW r \in Tabs, ReadEntitlement(r) PROVE TypeOK'
    <2> DEFINE e == ResolveEntitlement(sub[TabTenant[r]], now)
    <2>1. e.cap \in Caps
      BY EntitlementType DEF TypeOK
    <2>2. call[r].target \in Plans
      BY <1>3, <1>r DEF ReadEntitlement, pc, Calls
    <2>3. [pc |-> "lock", target |-> call[r].target, cap |-> e.cap, outcome |-> Absent] \in Calls
      BY <2>1, <2>2 DEF Calls, CallRecords, GoLivePcs, InTransaction
    <2>4. call' \in [Tabs -> Calls]
      BY <1>3, <1>0, <1>b, <2>3 DEF ReadEntitlement
    <2> QED BY <1>3, <2>4 DEF TypeOK, ReadEntitlement, dbVars
  <1>4. ASSUME NEW r \in Tabs, TakeTenantLock(r) PROVE TypeOK'
    <2>1. call' \in [Tabs -> Calls]
      BY <1>4, <1>g DEF TakeTenantLock, InTransaction
    <2> QED BY <1>4, <1>l, <2>1 DEF TypeOK, TakeTenantLock
  <1>5. ASSUME NEW r \in Tabs, ReadPlan(r) \/ CountSeats(r) PROVE TypeOK'
    <2>1. call' \in [Tabs -> Calls]
      BY <1>5, <1>g, <1>b DEF ReadPlan, CountSeats, InTransaction
    <2> QED BY <1>5, <1>l, <2>1 DEF TypeOK, ReadPlan, CountSeats, Release
  <1>6. ASSUME NEW r \in Tabs, WriteLive(r) PROVE TypeOK'
    <2>1. call' \in [Tabs -> Calls]
      BY <1>6, <1>g, <1>b DEF WriteLive, InTransaction
    <2> QED BY <1>6, <1>l, <2>1 DEF TypeOK, WriteLive, Release, PlanStatuses
  <1>7. ASSUME NEW r \in Tabs, ReadBack(r) \/ FailCall(r) PROVE TypeOK'
    <2>1. call' \in [Tabs -> Calls]
      BY <1>7, <1>b DEF ReadBack, FailCall
    <2> QED BY <1>7, <1>l, <2>1 DEF TypeOK, ReadBack, FailCall, Release, dbVars
  <1>8. ASSUME NEW r \in Tabs, EnsurePlanIsOpen(r) PROVE TypeOK'
    <2>1. call' \in [Tabs -> Calls]
      BY <1>8, <1>g, <1>b DEF EnsurePlanIsOpen
    <2> QED BY <1>8, <2>1 DEF TypeOK, EnsurePlanIsOpen, dbVars
  <1>9. ASSUME NEW r \in Tabs, WriteDelete(r) PROVE TypeOK'
    BY <1>9, <1>b DEF TypeOK, WriteDelete, PlanStatuses
  <1>10. ASSUME NEW r \in Tabs, WriteClose(r) PROVE TypeOK'
    <2>1. call[r].outcome \in Closed
      BY <1>10, <1>r DEF WriteClose, pc, Calls
    <2> QED BY <2>1, <1>10, <1>b DEF TypeOK, WriteClose, PlanStatuses, Closed
  <1>11. ASSUME NEW t \in Tenants, NEW row \in BillingRows, BillingWrite(t, row) PROVE TypeOK'
    <2>1. granted[t] \in Caps /\ AllowedCap(row, now) \in Caps
      BY EntitlementType DEF TypeOK
    <2>2. LargerCap(granted[t], AllowedCap(row, now)) \in Caps
      BY <2>1 DEF LargerCap, Caps
    <2> QED BY <1>11, <2>2 DEF TypeOK, BillingWrite
  <1>12. ASSUME Tick PROVE TypeOK'
    BY <1>12 DEF TypeOK, Tick, dbVars
  <1>13. ASSUME UNCHANGED vars PROVE TypeOK'
    BY <1>13 DEF TypeOK, vars, dbVars
  <1> QED
    BY <1>1, <1>2, <1>3, <1>4, <1>5, <1>6, <1>7, <1>8, <1>9, <1>10, <1>11, <1>12, <1>13
    DEF Next, SellerNext, GoLiveStep, GateStep, Closed

(* The columns and the calls stay of their types in every behaviour. *)
THEOREM TypeCorrect == Spec => []TypeOK
  BY TypeInit, TypeStep, PTL DEF Spec
-------------------------------------------------------------------------------
(* Only the owner of the lock is inside the transaction, so releasing it
   takes it from nobody else. *)
LEMMA LockStep == TypeOK /\ LockHeld /\ [Next]_vars => LockHeld'
  <1> SUFFICES ASSUME TypeOK, LockHeld, [Next]_vars,
                      NEW s \in Tabs, pc(s)' \in InTransaction
               PROVE  lock'[TabTenant[s]] = s
    BY DEF LockHeld
  <1>0. /\ \A r \in Tabs : TabTenant[r] \in Tenants /\ r # NoTab
        /\ lock \in [Tenants -> Tabs \cup {NoTab}]
        /\ \A r \in Tabs : pc(r) \in InTransaction => lock[TabTenant[r]] = r
        /\ call \in [Tabs -> Calls]
        /\ "idle" \notin InTransaction
    BY LifecycleAssumption DEF TypeOK, LockHeld, InTransaction
  <1>1. ASSUME NEW r \in Tabs, Return(r), pc(r) \in InTransaction, Release(r)
        PROVE  lock'[TabTenant[s]] = s
    BY <1>1, <1>0 DEF Return, Release, pc, Idle
  <1>2. ASSUME NEW r \in Tabs, NEW label, Goto(r, label), label \notin InTransaction,
               pc(r) \in InTransaction, Release(r)
        PROVE  lock'[TabTenant[s]] = s
    BY <1>2, <1>0 DEF Goto, Release, pc, Calls, CallRecords
  <1>3. ASSUME NEW r \in Tabs, NEW label, Goto(r, label), UNCHANGED lock,
               label \in InTransaction => pc(r) \in InTransaction
        PROVE  lock'[TabTenant[s]] = s
    BY <1>3, <1>0 DEF Goto, pc, Calls, CallRecords
  <1>4. ASSUME NEW r \in Tabs, Return(r), UNCHANGED lock
        PROVE  lock'[TabTenant[s]] = s
    BY <1>4, <1>0 DEF Return, pc, Idle
  <1>5. ASSUME NEW r \in Tabs, NEW p \in Plans, NEW o,
               \/ CreatePlan(r, p) \/ StartGoLive(r, p) \/ StartDelete(r, p)
               \/ StartClose(r, p, o)
        PROVE  lock'[TabTenant[s]] = s
    BY <1>5, <1>0 DEF CreatePlan, StartGoLive, StartDelete, StartClose, Begin, dbVars,
       pc, InTransaction
  <1>6. ASSUME NEW r \in Tabs, ReadEntitlement(r) PROVE lock'[TabTenant[s]] = s
    BY <1>6, <1>0, <1>4 DEF ReadEntitlement, dbVars, pc, InTransaction
  <1>7. ASSUME NEW r \in Tabs, TakeTenantLock(r) PROVE lock'[TabTenant[s]] = s
    <2>1. CASE s = r
      BY <2>1, <1>7, <1>0 DEF TakeTenantLock
    <2>2. CASE s # r
      <3>1. pc(s) \in InTransaction
        BY <2>2, <1>7, <1>0 DEF TakeTenantLock, Goto, pc
      <3>2. lock[TabTenant[s]] = s /\ lock[TabTenant[r]] = NoTab
        BY <3>1, <1>7, <1>0 DEF TakeTenantLock
      <3> QED BY <3>2, <1>7, <1>0 DEF TakeTenantLock
    <2> QED BY <2>1, <2>2
  <1>8. ASSUME NEW r \in Tabs, ReadPlan(r) PROVE lock'[TabTenant[s]] = s
    BY <1>8, <1>1, <1>2, <1>3 DEF ReadPlan, InTransaction
  <1>9. ASSUME NEW r \in Tabs, CountSeats(r) PROVE lock'[TabTenant[s]] = s
    BY <1>9, <1>1, <1>3 DEF CountSeats, InTransaction
  <1>10. ASSUME NEW r \in Tabs, WriteLive(r) PROVE lock'[TabTenant[s]] = s
    BY <1>10, <1>1, <1>2 DEF WriteLive, InTransaction
  <1>11. ASSUME NEW r \in Tabs, ReadBack(r) PROVE lock'[TabTenant[s]] = s
    BY <1>11, <1>4 DEF ReadBack, dbVars
  <1>12. ASSUME NEW r \in Tabs, FailCall(r) PROVE lock'[TabTenant[s]] = s
    BY <1>12, <1>1, <1>4 DEF FailCall
  <1>13. ASSUME NEW r \in Tabs, GateStep(r) PROVE lock'[TabTenant[s]] = s
    BY <1>13, <1>3, <1>4 DEF GateStep, EnsurePlanIsOpen, WriteClose, WriteDelete, dbVars,
       InTransaction
  <1>14. ASSUME \/ \E t \in Tenants, row \in BillingRows : BillingWrite(t, row)
                \/ Tick \/ UNCHANGED vars
         PROVE  lock'[TabTenant[s]] = s
    BY <1>14, <1>0 DEF BillingWrite, Tick, vars, dbVars, pc
  <1> QED
    BY <1>5, <1>6, <1>7, <1>8, <1>9, <1>10, <1>11, <1>12, <1>13, <1>14
    DEF Next, SellerNext, GoLiveStep
-------------------------------------------------------------------------------
(* A tab that returns, or moves on, leaves the other tabs' calls alone and
   keeps the plan and the cap of its own. *)
LEMMA CallStep ==
    ASSUME TypeOK, NEW r \in Tabs, NEW s \in Tabs
    PROVE  /\ Return(r) => pc(s)' = IF s = r THEN "idle" ELSE pc(s)
           /\ Return(r) /\ s # r => call'[s] = call[s]
           /\ \A label : Goto(r, label) =>
                /\ pc(s)' = IF s = r THEN label ELSE pc(s)
                /\ call'[s].target = call[s].target
                /\ call'[s].cap = call[s].cap
  BY DEF TypeOK, Return, Goto, pc, Idle, Calls, CallRecords

(* What the row allows has been granted: a write grants it, time revokes. *)
LEMMA EntitledStep == TypeOK /\ EntitledNow /\ [Next]_vars => EntitledNow'
  <1> SUFFICES ASSUME TypeOK, EntitledNow, [Next]_vars, NEW t \in Tenants
               PROVE  CapLeq(AllowedCap(sub[t], now), granted[t])'
    BY DEF EntitledNow
  <1>0. CapLeq(AllowedCap(sub[t], now), granted[t]) /\ granted[t] \in Caps
    BY DEF EntitledNow, TypeOK
  <1>1. ASSUME UNCHANGED <<sub, now, granted>>
        PROVE  CapLeq(AllowedCap(sub[t], now), granted[t])'
    BY <1>1, <1>0
  <1>2. ASSUME NEW u \in Tenants, NEW row \in BillingRows, BillingWrite(u, row)
        PROVE  CapLeq(AllowedCap(sub[t], now), granted[t])'
    <2>1. CASE u = t
      <3>1. AllowedCap(row, now) \in Caps
        BY EntitlementType DEF TypeOK
      <3>2. CapLeq(AllowedCap(row, now), LargerCap(granted[t], AllowedCap(row, now)))
        BY <3>1, <1>0, CapAssumption DEF CapLeq, LargerCap, Caps
      <3>3. /\ sub'[t] = row /\ now' = now
            /\ granted'[t] = LargerCap(granted[t], AllowedCap(row, now))
        BY <1>2, <2>1 DEF BillingWrite, TypeOK
      <3> QED BY <3>2, <3>3
    <2>2. CASE u # t
      <3>1. sub'[t] = sub[t] /\ granted'[t] = granted[t] /\ now' = now
        BY <1>2, <2>2 DEF BillingWrite, TypeOK
      <3> QED BY <3>1, <1>0
    <2> QED BY <2>1, <2>2
  <1>3. ASSUME Tick PROVE CapLeq(AllowedCap(sub[t], now), granted[t])'
    <2>1. sub[t] # Absent => sub[t].pastDueSince \in Nat \cup {Absent}
      BY LifecycleAssumption DEF TypeOK
    <2>2. now \in Nat /\ now' = now + 1 /\ sub' = sub /\ granted' = granted
      BY <1>3 DEF Tick, TypeOK, dbVars
    <2>3. AllowedCap(sub[t], now + 1) \in {0, AllowedCap(sub[t], now)}
      BY <2>1, <2>2, AllowedCapAntitone
    <2>4. CapLeq(0, granted[t])
      BY <1>0, CapAssumption DEF CapLeq, Caps
    <2>5. CapLeq(AllowedCap(sub[t], now + 1), granted[t])
      BY <2>3, <2>4, <1>0
    <2> QED BY <2>5, <2>2
  <1> QED
    BY <1>1, <1>2, <1>3 DEF Next, SellerNext, GoLiveStep, GateStep, CreatePlan, StartGoLive,
       StartDelete, StartClose, ReadEntitlement, ReadPlan, CountSeats, WriteLive, ReadBack,
       TakeTenantLock, EnsurePlanIsOpen, WriteClose, WriteDelete, FailCall, vars, dbVars

(* The cap a go-live reads was granted, and granted caps are never lowered. *)
LEMMA CapStep ==
    TypeOK /\ EntitledNow /\ CapGranted /\ [Next]_vars => CapGranted'
  <1> SUFFICES ASSUME TypeOK, EntitledNow, CapGranted, [Next]_vars,
                      NEW s \in Tabs, pc(s)' \in {"lock"} \cup InTransaction
               PROVE  CapLeq(call'[s].cap, granted'[TabTenant[s]])
    BY DEF CapGranted
  <1> DEFINE t == TabTenant[s]
             Capped == {"lock"} \cup InTransaction
  <1>0. /\ t \in Tenants /\ granted[t] \in Caps /\ "idle" \notin Capped
        /\ pc(s) \in Capped => CapLeq(call[s].cap, granted[t]) /\ call[s].cap \in Caps
    BY LifecycleAssumption DEF TypeOK, CapGranted, InTransaction, Calls, pc
  <1>1. ASSUME UNCHANGED granted, call'[s] = call[s]
        PROVE  CapLeq(call'[s].cap, granted'[t])
    BY <1>1, <1>0 DEF pc
  <1>2. ASSUME UNCHANGED granted, NEW r \in Tabs, Return(r)
        PROVE  CapLeq(call'[s].cap, granted'[t])
    BY <1>2, <1>1, <1>0, CallStep
  <1>3. ASSUME UNCHANGED granted, NEW r \in Tabs, NEW label, Goto(r, label),
               label \in Capped => pc(r) \in Capped
        PROVE  CapLeq(call'[s].cap, granted'[t])
    BY <1>3, <1>0, CallStep
  <1>4. ASSUME NEW r \in Tabs, ReadEntitlement(r)
        PROVE  CapLeq(call'[s].cap, granted'[t])
    <2> DEFINE e == ResolveEntitlement(sub[TabTenant[r]], now)
    <2>1. CASE s = r /\ ~e.blocked
      <3>1. call'[s].cap = e.cap /\ granted' = granted
        BY <1>4, <2>1, <1>0, CallStep DEF ReadEntitlement, TypeOK
      <3>2. AllowedCap(sub[t], now) = e.cap
        BY <2>1 DEF AllowedCap
      <3> QED BY <3>1, <3>2, <1>0 DEF EntitledNow
    <2>2. CASE s # r
      BY <2>2, <1>4, <1>1 DEF ReadEntitlement, Return, TypeOK
    <2>3. CASE e.blocked
      BY <2>3, <1>4, <1>2 DEF ReadEntitlement
    <2> QED BY <2>1, <2>2, <2>3
  <1>5. ASSUME NEW r \in Tabs, NEW p \in Plans, NEW o,
               \/ CreatePlan(r, p) \/ StartGoLive(r, p) \/ StartDelete(r, p)
               \/ StartClose(r, p, o)
        PROVE  CapLeq(call'[s].cap, granted'[t])
    <2>1. CASE CreatePlan(r, p)
      BY <2>1, <1>1 DEF CreatePlan
    <2>2. CASE s # r /\ ~CreatePlan(r, p)
      BY <2>2, <1>5, <1>1 DEF StartGoLive, StartDelete, StartClose, TypeOK
    <2>3. CASE s = r /\ ~CreatePlan(r, p)
      BY <2>3, <1>5 DEF StartGoLive, StartDelete, StartClose, TypeOK, Begin, pc, InTransaction
    <2> QED BY <2>1, <2>2, <2>3
  <1>6. ASSUME NEW r \in Tabs, TakeTenantLock(r) PROVE CapLeq(call'[s].cap, granted'[t])
    BY <1>6, <1>3 DEF TakeTenantLock
  <1>7. ASSUME NEW r \in Tabs, ReadPlan(r) \/ CountSeats(r)
        PROVE  CapLeq(call'[s].cap, granted'[t])
    BY <1>7, <1>2, <1>3 DEF ReadPlan, CountSeats, InTransaction
  <1>8. ASSUME NEW r \in Tabs, WriteLive(r) \/ ReadBack(r) \/ FailCall(r)
        PROVE  CapLeq(call'[s].cap, granted'[t])
    BY <1>8, <1>2, <1>3 DEF WriteLive, ReadBack, FailCall, InTransaction
  <1>9. ASSUME NEW r \in Tabs, GateStep(r) PROVE CapLeq(call'[s].cap, granted'[t])
    BY <1>9, <1>2, <1>3 DEF GateStep, EnsurePlanIsOpen, WriteClose, WriteDelete, InTransaction
  <1>10. ASSUME NEW u \in Tenants, NEW row \in BillingRows, BillingWrite(u, row)
         PROVE  CapLeq(call'[s].cap, granted'[t])
    <2>1. AllowedCap(row, now) \in Caps
      BY EntitlementType DEF TypeOK
    <2>2. call' = call /\ CapLeq(call[s].cap, granted[t]) /\ call[s].cap \in Caps
      BY <1>10, <1>0 DEF BillingWrite, pc
    <2>3. granted'[t] \in {granted[t], LargerCap(granted[t], AllowedCap(row, now))}
      BY <1>10, <1>0 DEF BillingWrite, TypeOK
    <2> QED BY <2>1, <2>2, <2>3, <1>0, CapAssumption DEF CapLeq, LargerCap, Caps
  <1>11. ASSUME Tick \/ UNCHANGED vars PROVE CapLeq(call'[s].cap, granted'[t])
    BY <1>11, <1>1 DEF Tick, vars
  <1> QED
    BY <1>4, <1>5, <1>6, <1>7, <1>8, <1>9, <1>10, <1>11
    DEF Next, SellerNext, GoLiveStep
-------------------------------------------------------------------------------
(* A seat is only ever taken by the final write of a go-live of the plan's
   own tenant; every other step of anybody keeps or frees seats. *)
LEMMA SeatEffect ==
    ASSUME TypeOK, SeatChecked, [Next]_vars, NEW t \in Tenants
    PROVE  \/ Counted(t)' \subseteq Counted(t)
           \/ \E r \in Tabs : /\ WriteLive(r) /\ TabTenant[r] = t
                             /\ Counted(t)' \subseteq Counted(t) \cup {call[r].target}
  <1> DEFINE Goal == \/ Counted(t)' \subseteq Counted(t)
                     \/ \E r \in Tabs : /\ WriteLive(r) /\ TabTenant[r] = t
                                       /\ Counted(t)' \subseteq Counted(t) \cup {call[r].target}
  <1>1. ASSUME \A p \in Plans : status'[p] = "active" => status[p] = "active"
        PROVE  Goal
    BY <1>1 DEF Counted, Countable, PlanTenant
  <1>2. ASSUME UNCHANGED status PROVE Goal
    BY <1>1, <1>2
  <1>3. ASSUME NEW r \in Tabs, NEW p \in Plans, CreatePlan(r, p) PROVE Goal
    BY <1>3, <1>1 DEF CreatePlan, TypeOK
  <1>4. ASSUME NEW r \in Tabs, WriteLive(r) PROVE Goal
    <2>1. call[r].target \in Countable(TabTenant[r])
      BY <1>4 DEF WriteLive, SeatChecked
    <2>2. \A p \in Plans \ {call[r].target} : status'[p] = status[p]
      BY <1>4 DEF WriteLive, TypeOK
    <2>3. Counted(t)' \subseteq Counted(t) \cup {call[r].target}
      BY <2>2 DEF Counted, Countable, PlanTenant
    <2>4. CASE TabTenant[r] = t
      BY <2>3, <2>4, <1>4
    <2>5. CASE TabTenant[r] # t
      BY <2>1, <2>2, <2>5 DEF Counted, Countable, PlanTenant
    <2> QED BY <2>4, <2>5
  <1>5. ASSUME NEW r \in Tabs, GateStep(r) PROVE Goal
    <2>1. CASE EnsurePlanIsOpen(r)
      BY <2>1, <1>2 DEF EnsurePlanIsOpen, dbVars
    <2>2. CASE WriteClose(r)
      <3>1. call[r].outcome \in Closed
        BY <2>2 DEF WriteClose, TypeOK, Calls, pc
      <3> QED BY <2>2, <3>1, <1>1 DEF WriteClose, TypeOK, Closed
    <2>3. CASE WriteDelete(r)
      BY <2>3, <1>1 DEF WriteDelete, TypeOK
    <2> QED BY <1>5, <2>1, <2>2, <2>3 DEF GateStep
  <1> QED
    BY <1>2, <1>3, <1>4, <1>5 DEF Next, SellerNext, GoLiveStep, StartGoLive, StartDelete,
       StartClose, ReadEntitlement, ReadPlan, CountSeats, ReadBack, TakeTenantLock, FailCall,
       BillingWrite, Tick, vars, dbVars

(* Fewer counted deals, a smaller count; one more, at most one higher. *)
LEMMA CountEffect ==
    ASSUME NEW t, NEW x
    PROVE  /\ Counted(t)' \subseteq Counted(t) =>
                /\ ActiveCount(t)' \in Nat
                /\ ActiveCount(t)' <= ActiveCount(t)
           /\ Counted(t)' \subseteq Counted(t) \cup {x} =>
                /\ ActiveCount(t)' \in Nat
                /\ ActiveCount(t)' <= ActiveCount(t) + 1
  <1> DEFINE C == Counted(t)
             D == Counted(t)'
  <1>1. IsFiniteSet(C) /\ Cardinality(C) \in Nat
    BY CountedFinite DEF ActiveCount
  <1>2. IsFiniteSet(C \cup {x}) /\ Cardinality(C \cup {x}) <= Cardinality(C) + 1
        /\ Cardinality(C \cup {x}) \in Nat
    BY <1>1, FS_AddElement
  <1>3. ASSUME D \subseteq C
        PROVE  Cardinality(D) \in Nat /\ Cardinality(D) <= Cardinality(C)
    <2> HIDE DEF C, D
    <2> QED BY <1>1, <1>3, FS_Subset, FS_CardinalityType
  <1>4. ASSUME D \subseteq C \cup {x}
        PROVE  Cardinality(D) \in Nat /\ Cardinality(D) <= Cardinality(C) + 1
    <2> HIDE DEF C, D
    <2>1. IsFiniteSet(D) /\ Cardinality(D) <= Cardinality(C \cup {x})
      BY <1>2, <1>4, FS_Subset
    <2>2. Cardinality(D) \in Nat
      BY <2>1, FS_CardinalityType
    <2> QED BY <1>1, <1>2, <2>1, <2>2
  <1> QED BY <1>3, <1>4 DEF ActiveCount
(* Two tabs of one tenant are never inside the transaction together. *)
LEMMA OneInTransaction ==
    ASSUME LockHeld, NEW r \in Tabs, NEW s \in Tabs, r # s,
           pc(r) \in InTransaction, pc(s) \in InTransaction
    PROVE  TabTenant[r] # TabTenant[s]
  BY DEF LockHeld

(* The verdict of the count still holds when the update runs. *)
LEMMA SeatStep ==
    TypeOK /\ LockHeld /\ SeatChecked /\ [Next]_vars => SeatChecked'
  <1> SUFFICES ASSUME TypeOK, LockHeld, SeatChecked, [Next]_vars, NEW s \in Tabs
               PROVE  /\ pc(s)' \in {"count", "write"} =>
                            call'[s].target \in Countable(TabTenant[s])
                      /\ pc(s)' = "write" =>
                            UnderCap(ActiveCount(TabTenant[s])', call'[s].cap)
    BY DEF SeatChecked, Countable, PlanTenant
  <1> DEFINE t == TabTenant[s]
             Known == call'[s].target \in Countable(t)
             Free  == UnderCap(ActiveCount(t)', call'[s].cap)
  <1>0. t \in Tenants
    BY LifecycleAssumption
  (* Nobody else can take a seat of t while s is between count and update. *)
  <1>1. ASSUME pc(s) = "write", call'[s] = call[s] PROVE Known /\ Free
    <2>1. Known /\ UnderCap(ActiveCount(t), call[s].cap)
      BY <1>1 DEF SeatChecked
    <2>2. Counted(t)' \subseteq Counted(t)
      <3>1. SUFFICES ASSUME NEW r \in Tabs, WriteLive(r), TabTenant[r] = t PROVE FALSE
        BY <1>0, SeatEffect
      <3>2. r # s
        BY <3>1, <1>1 DEF WriteLive, Return, Goto, TypeOK, pc, Calls, CallRecords, Idle
      <3> QED BY <3>1, <3>2, <1>1, OneInTransaction DEF WriteLive, InTransaction
    <2>3. ActiveCount(t)' \in Nat /\ ActiveCount(t)' <= ActiveCount(t) /\ ActiveCount(t) \in Nat
      BY <2>2, CountEffect, CountedFinite
    <2>4. call[s].cap \in Caps
      BY <1>1 DEF TypeOK, Calls, pc, InTransaction
    <2> QED BY <2>1, <2>3, <2>4, <1>1 DEF UnderCap, Caps
  <1>2. ASSUME pc(s) = "count", call'[s] = call[s] PROVE Known
    BY <1>2 DEF SeatChecked
  <1>3. CASE call'[s] = call[s]
    BY <1>3, <1>1, <1>2 DEF pc
  <1>4. CASE pc(s)' \notin {"count", "write"}
    BY <1>4
  <1>5. ASSUME NEW r \in Tabs, Return(r) PROVE call'[s] = call[s] \/ pc(s)' = "idle"
    BY <1>5, CallStep
  <1>6. ASSUME NEW r \in Tabs, NEW label, Goto(r, label)
        PROVE  call'[s] = call[s] \/ pc(s)' = label
    BY <1>6 DEF Goto, TypeOK, pc, Calls, CallRecords
  <1>7. ASSUME NEW r \in Tabs, NEW p \in Plans, NEW o,
               \/ CreatePlan(r, p) \/ StartGoLive(r, p) \/ StartDelete(r, p)
               \/ StartClose(r, p, o)
        PROVE  call'[s] = call[s] \/ pc(s)' \notin {"count", "write"}
    BY <1>7 DEF CreatePlan, StartGoLive, StartDelete, StartClose, Begin, TypeOK, pc
  <1>8. ASSUME NEW r \in Tabs, ReadEntitlement(r)
        PROVE  call'[s] = call[s] \/ pc(s)' \notin {"count", "write"}
    BY <1>8, <1>5 DEF ReadEntitlement, TypeOK, pc
  <1>9. ASSUME NEW r \in Tabs, ReadPlan(r)
        PROVE  \/ call'[s] = call[s] \/ pc(s)' \notin {"count", "write"}
               \/ pc(s)' = "count" /\ Known
    <2>1. CASE s # r
      BY <2>1, <1>9 DEF ReadPlan, Goto, Return, TypeOK
    <2>2. CASE s = r /\ pc(s)' = "count"
      <3>1. Visible(r, call[r].target) /\ PlanHome[call[r].target] \notin Samples
        BY <2>2, <1>9, CallStep DEF ReadPlan
      <3>2. call'[s].target = call[s].target /\ call[s].target \in Plans
        BY <2>2, <1>9, CallStep DEF ReadPlan, TypeOK, Calls, pc
      <3> QED BY <3>1, <3>2, <2>2 DEF Visible, Countable
    <2>3. CASE s = r /\ pc(s)' # "count"
      BY <2>3, <1>9, CallStep DEF ReadPlan
    <2> QED BY <2>1, <2>2, <2>3
  <1>10. ASSUME NEW r \in Tabs, CountSeats(r)
         PROVE  \/ call'[s] = call[s] \/ pc(s)' \notin {"count", "write"}
                \/ Known /\ Free
    <2>1. CASE s # r
      BY <2>1, <1>10 DEF CountSeats, Goto, Return, TypeOK
    <2>2. CASE s = r /\ pc(s)' = "write"
      <3>1. UnderCap(ActiveCount(t), call[s].cap) /\ call'[s].cap = call[s].cap
            /\ call'[s].target = call[s].target
        BY <2>2, <1>10, CallStep DEF CountSeats
      <3>2. ActiveCount(t)' = ActiveCount(t)
        BY <1>10 DEF CountSeats, ActiveCount, Counted
      <3>3. call[s].target \in Countable(t)
        BY <2>2, <1>10 DEF CountSeats, SeatChecked
      <3> QED BY <3>1, <3>2, <3>3
    <2>3. CASE s = r /\ pc(s)' # "write"
      BY <2>3, <1>10, CallStep DEF CountSeats
    <2> QED BY <2>1, <2>2, <2>3
  <1>11. ASSUME NEW r \in Tabs,
                TakeTenantLock(r) \/ WriteLive(r) \/ ReadBack(r) \/ FailCall(r) \/ GateStep(r)
         PROVE  call'[s] = call[s] \/ pc(s)' \notin {"count", "write"}
    BY <1>11, <1>5, <1>6 DEF TakeTenantLock, WriteLive, ReadBack, FailCall, GateStep,
       EnsurePlanIsOpen, WriteClose, WriteDelete
  <1>12. ASSUME \/ \E u \in Tenants, row \in BillingRows : BillingWrite(u, row)
                \/ Tick \/ UNCHANGED vars
         PROVE  call'[s] = call[s]
    BY <1>12 DEF BillingWrite, Tick, vars
  <1> QED
    BY <1>3, <1>4, <1>7, <1>8, <1>9, <1>10, <1>11, <1>12
    DEF Next, SellerNext, GoLiveStep

(* No tenant exceeds the best plan it has had, one step further. *)
LEMMA PaidForStep ==
    IInv /\ [Next]_vars => PaidFor'
  <1> SUFFICES ASSUME IInv, [Next]_vars, NEW t \in Tenants
               PROVE  AtMost(ActiveCount(t)', granted'[t])
    BY DEF PaidFor
  <1>1. /\ AtMost(ActiveCount(t), granted[t]) /\ ActiveCount(t) \in Nat
        /\ granted[t] \in Caps
    BY CountedFinite DEF IInv, PaidFor, TypeOK
  <1>2. granted'[t] \in Caps /\ CapLeq(granted[t], granted'[t])
    <2>1. CASE granted'[t] = granted[t]
      BY <2>1, <1>1, CapAssumption DEF CapLeq, Caps
    <2>2. ASSUME NEW u \in Tenants, NEW row \in BillingRows, BillingWrite(u, row)
          PROVE  granted'[t] \in Caps /\ CapLeq(granted[t], granted'[t])
      <3>1. AllowedCap(row, now) \in Caps
        BY EntitlementType DEF IInv, TypeOK
      <3>2. granted'[t] \in {granted[t], LargerCap(granted[t], AllowedCap(row, now))}
        BY <2>2 DEF BillingWrite, IInv, TypeOK
      <3> QED BY <3>1, <3>2, <1>1, CapAssumption DEF LargerCap, CapLeq, Caps
    <2> QED
      BY <2>1, <2>2 DEF Next, SellerNext, GoLiveStep, GateStep, CreatePlan, StartGoLive,
         StartDelete, StartClose, ReadEntitlement, ReadPlan, CountSeats, WriteLive, ReadBack,
         TakeTenantLock, EnsurePlanIsOpen, WriteClose, WriteDelete, FailCall, Tick, vars
  <1>3. CASE Counted(t)' \subseteq Counted(t)
    <2>1. ActiveCount(t)' \in Nat /\ ActiveCount(t)' <= ActiveCount(t)
      BY <1>3, CountEffect
    <2> QED BY <2>1, <1>1, <1>2, CapAssumption DEF AtMost, CapLeq, Caps
  <1>4. ASSUME NEW r \in Tabs, WriteLive(r), TabTenant[r] = t,
               Counted(t)' \subseteq Counted(t) \cup {call[r].target}
        PROVE  AtMost(ActiveCount(t)', granted'[t])
    <2>1. UnderCap(ActiveCount(t), call[r].cap) /\ CapLeq(call[r].cap, granted[t])
      BY <1>4 DEF IInv, SeatChecked, CapGranted, WriteLive, InTransaction
    <2>2. call[r].cap \in Caps
      BY <1>4 DEF IInv, TypeOK, Calls, pc, WriteLive, InTransaction
    <2>3. ActiveCount(t)' \in Nat /\ ActiveCount(t)' <= ActiveCount(t) + 1
      BY <1>4, CountEffect
    <2> QED
      BY <2>1, <2>2, <2>3, <1>1, <1>2, CapAssumption DEF AtMost, CapLeq, UnderCap, Caps
  <1> QED BY <1>3, <1>4, SeatEffect DEF IInv

-------------------------------------------------------------------------------
LEMMA Inductive == Spec => []IInv
  <1>1. Init => TypeOK
    BY TypeInit
  <1>2. Init => LockHeld /\ CapGranted /\ SeatChecked
    BY DEF Init, LockHeld, CapGranted, SeatChecked, pc, Idle, InTransaction
  <1>3. Init => EntitledNow
    BY CapAssumption DEF Init, EntitledNow, AllowedCap, ResolveEntitlement, FreeEntitlement,
       CapLeq
  <1>4. Init => PaidFor
    <2> SUFFICES ASSUME Init, NEW t \in Tenants PROVE AtMost(ActiveCount(t), granted[t])
      BY DEF PaidFor
    <2>1. Counted(t) = {}
      BY LifecycleAssumption DEF Init, Counted, Countable
    <2>2. ActiveCount(t) = 0 /\ granted[t] = FreeCap
      BY <2>1, FS_EmptySet DEF ActiveCount, Init
    <2> QED BY <2>2, CapAssumption DEF AtMost
  <1>5. IInv /\ [Next]_vars => IInv'
    BY TypeStep, LockStep, EntitledStep, CapStep, SeatStep, PaidForStep DEF IInv
  <1> QED BY <1>1, <1>2, <1>3, <1>4, <1>5, PTL DEF Spec, IInv

(* For every number of tabs, plans and tiers, and however the go-lives, the
   closes, the deletes and the billing writes interleave, no tenant runs more
   counted deals than the best plan it has had allows. *)
THEOREM PaidForAlways == Spec => []PaidFor
  BY Inductive, PTL DEF IInv
-------------------------------------------------------------------------------
(* A plan only starts to hold the workspace's slot when the slot is free. *)
LEMMA SlotEffect ==
    ASSUME TypeOK, [Next]_vars, NEW p \in Plans, HoldsSlot(p)', ~HoldsSlot(p)
    PROVE  /\ SlotFree(p)
           /\ \A q \in Plans \ {p} : status'[q] = status[q]
  <1> DEFINE Goal == SlotFree(p) /\ \A q \in Plans \ {p} : status'[q] = status[q]
  <1>1. status'[p] \in {"draft", "active"} /\ status[p] \notin {"draft", "active"}
    BY DEF HoldsSlot
  <1>2. ASSUME UNCHANGED status PROVE Goal
    BY <1>1, <1>2
  <1>3. ASSUME NEW r \in Tabs, NEW x \in Plans, CreatePlan(r, x) PROVE Goal
    BY <1>1, <1>3 DEF CreatePlan, TypeOK
  <1>4. ASSUME NEW r \in Tabs, WriteLive(r) PROVE Goal
    BY <1>1, <1>4 DEF WriteLive, TypeOK
  <1>5. ASSUME NEW r \in Tabs, WriteClose(r) \/ WriteDelete(r) PROVE Goal
    <2>1. WriteClose(r) => call[r].outcome \in Closed
      BY DEF WriteClose, TypeOK, Calls, pc
    <2> QED BY <1>1, <1>5, <2>1 DEF WriteClose, WriteDelete, TypeOK, Closed
  <1> QED
    BY <1>2, <1>3, <1>4, <1>5 DEF Next, SellerNext, GoLiveStep, GateStep, StartGoLive,
       StartDelete, StartClose, ReadEntitlement, ReadPlan, CountSeats, ReadBack,
       TakeTenantLock, EnsurePlanIsOpen, FailCall, BillingWrite, Tick, vars, dbVars

(* However the actions race, a workspace has at most one draft or live plan,
   so the buyer's page never has to choose between two. *)
THEOREM OneLiveAlways == Spec => []OneLivePerWorkspace
  <1>1. Init => OneLivePerWorkspace
    BY LifecycleAssumption DEF Init, OneLivePerWorkspace, HoldsSlot
  <1>2. TypeOK /\ OneLivePerWorkspace /\ [Next]_vars => OneLivePerWorkspace'
    <2> SUFFICES ASSUME TypeOK, OneLivePerWorkspace, [Next]_vars,
                        NEW p \in Plans, NEW q \in Plans, PlanHome[p] = PlanHome[q],
                        HoldsSlot(p)', HoldsSlot(q)', p # q
                 PROVE  FALSE
      BY DEF OneLivePerWorkspace, HoldsSlot
    <2>1. CASE HoldsSlot(p) /\ HoldsSlot(q)
      BY <2>1 DEF OneLivePerWorkspace
    <2>2. CASE ~HoldsSlot(p)
      BY <2>2, SlotEffect DEF SlotFree, HoldsSlot
    <2>3. CASE ~HoldsSlot(q)
      BY <2>3, SlotEffect DEF SlotFree, HoldsSlot
    <2> QED BY <2>1, <2>2, <2>3
  <1> QED BY <1>1, <1>2, TypeCorrect, PTL DEF Spec

-------------------------------------------------------------------------------
(* The implementation of the seats: every step of every tab is, seen from
   DealSeats, a seat taken under the allowance, a seat given back, a raised
   allowance, or nothing. *)
THEOREM SeatsRefinement == Spec => ImplementsSeats
  <1> DEFINE seats == [t \in Tenants |-> Counted(t)]
  <1>1. Init => Seats!Init
    <2> SUFFICES ASSUME Init PROVE Seats!Init
      OBVIOUS
    <2>1. \A t \in Tenants : Counted(t) = {}
      BY LifecycleAssumption DEF Init, Counted, Countable
    <2> QED BY <2>1 DEF Init, Seats!Init
  <1>2. IInv /\ [Next]_vars => [Seats!Next]_<<seats, granted>>
    <2> SUFFICES ASSUME IInv, [Next]_vars
                 PROVE  Seats!Next \/ UNCHANGED <<seats, granted>>
      OBVIOUS
    <2> DEFINE Goal == Seats!Next \/ UNCHANGED <<seats, granted>>
    <2>0. TypeOK /\ granted \in [Tenants -> Caps]
      BY DEF IInv, TypeOK
    <2>1. ASSUME UNCHANGED <<status, granted>> PROVE Goal
      BY <2>1 DEF Counted
    (* One plan's status changes: its tenant's seats change by that plan. *)
    <2>2. ASSUME NEW p \in Plans, UNCHANGED granted, status'[p] # "active",
                 \A q \in Plans \ {p} : status'[q] = status[q]
          PROVE  Goal
      <3>1. CASE status[p] = "active" /\ PlanHome[p] \notin Samples
        <4> DEFINE t == PlanTenant(p)
        <4>1. t \in Tenants /\ p \in Counted(t)
          BY <3>1, LifecycleAssumption DEF PlanTenant, Counted, Countable
        <4>2. \A u \in Tenants : Counted(u)' = IF u = t THEN Counted(u) \ {p} ELSE Counted(u)
          BY <2>2 DEF Counted, Countable, PlanTenant
        <4>3. Seats!GiveBack(t, p)
          BY <2>2, <4>1, <4>2 DEF Seats!GiveBack
        <4> QED BY <4>1, <4>3 DEF Seats!Next
      <3>2. CASE status[p] # "active" \/ PlanHome[p] \in Samples
        <4>1. \A u \in Tenants : Counted(u)' = Counted(u)
          BY <2>2, <3>2 DEF Counted, Countable, PlanTenant
        <4> QED BY <4>1, <2>2
      <3> QED BY <3>1, <3>2
    <2>3. ASSUME NEW r \in Tabs, WriteLive(r) PROVE Goal
      <3> DEFINE p == call[r].target
                 t == TabTenant[r]
      <3>1. /\ p \in Countable(t) /\ p \in Plans /\ t \in Tenants
            /\ UnderCap(ActiveCount(t), call[r].cap) /\ call[r].cap \in Caps
            /\ CapLeq(call[r].cap, granted[t]) /\ granted[t] \in Caps
        BY <2>3, <2>0, LifecycleAssumption
        DEF IInv, SeatChecked, CapGranted, TypeOK, Calls, pc, WriteLive, InTransaction, Countable
      <3>2. UnderCap(Cardinality(Counted(t)), granted[t])
        BY <3>1, CountedFinite, CapAssumption DEF ActiveCount, UnderCap, CapLeq, Caps
      <3>3. CASE UNCHANGED status
        BY <3>3, <2>3, <2>1 DEF WriteLive
      <3>4. CASE status' = [status EXCEPT ![p] = "active"] /\ status[p] = "active"
        BY <3>4, <2>3, <2>1, <2>0 DEF WriteLive, TypeOK
      <3>5. CASE status' = [status EXCEPT ![p] = "active"] /\ status[p] # "active"
        <4>1. \A u \in Tenants : Counted(u)' = IF u = t THEN Counted(u) \cup {p} ELSE Counted(u)
          BY <3>1, <3>5, <2>0 DEF Counted, Countable, PlanTenant, TypeOK
        <4>2. p \notin Counted(t)
          BY <3>5 DEF Counted
        <4>3. /\ seats[t] = Counted(t) /\ seats' = [seats EXCEPT ![t] = @ \cup {p}]
          BY <4>1, <3>1
        <4>4. Seats!UnderCap(Seats!Cardinality(seats[t]), granted[t])
          <5>1. Seats!Cardinality(Counted(t)) = Cardinality(Counted(t))
            BY DEF Seats!Cardinality, Cardinality, Seats!IsFiniteSet, IsFiniteSet
          <5> QED BY <5>1, <4>3, <3>2 DEF Seats!UnderCap, UnderCap
        <4>5. granted' = granted
          BY <2>3 DEF WriteLive
        <4>6. Seats!Take(t, p)
          <5> HIDE DEF p, t
          <5> QED BY <4>2, <4>3, <4>4, <4>5 DEF Seats!Take
        <4> QED BY <4>6, <3>1 DEF Seats!Next
      <3> QED BY <2>3, <3>3, <3>4, <3>5 DEF WriteLive
    <2>4. ASSUME NEW r \in Tabs, NEW p \in Plans, CreatePlan(r, p) PROVE Goal
      BY <2>4, <2>2, <2>0 DEF CreatePlan, TypeOK
    <2>5. ASSUME NEW r \in Tabs, WriteClose(r) \/ WriteDelete(r) PROVE Goal
      <3>1. call[r].target \in Plans /\ (WriteClose(r) => call[r].outcome \in Closed)
        BY <2>5, <2>0 DEF TypeOK, Calls, pc, WriteClose, WriteDelete
      <3>2. CASE Exists(call[r].target)
        BY <3>1, <3>2, <2>5, <2>2, <2>0 DEF WriteClose, WriteDelete, TypeOK, Closed
      <3>3. CASE ~Exists(call[r].target)
        BY <3>3, <2>5, <2>1 DEF WriteClose, WriteDelete
      <3> QED BY <3>2, <3>3
    <2>6. ASSUME NEW u \in Tenants, NEW row \in BillingRows, BillingWrite(u, row) PROVE Goal
      <3>1. AllowedCap(row, now) \in Caps
        BY <2>0, EntitlementType DEF TypeOK
      <3>2. granted' \in [Tenants -> Caps] /\ \A t \in Tenants : CapLeq(granted[t], granted'[t])
        BY <2>6, <2>0, <3>1, CapAssumption DEF BillingWrite, LargerCap, CapLeq, Caps
      <3>3. \A t \in Tenants : Counted(t)' = Counted(t)
        BY <2>6 DEF BillingWrite, Counted
      <3> QED
        BY <3>2, <3>3 DEF Seats!Next, Seats!Raise, Seats!CapLeq, Seats!Caps, CapLeq, Caps
    <2> QED
      BY <2>1, <2>3, <2>4, <2>5, <2>6 DEF Next, SellerNext, GoLiveStep, GateStep, StartGoLive,
         StartDelete, StartClose, ReadEntitlement, ReadPlan, CountSeats, ReadBack,
         TakeTenantLock, EnsurePlanIsOpen, FailCall, Tick, vars, dbVars
  <1> QED BY <1>1, <1>2, Inductive, PTL DEF Spec, ImplementsSeats, Seats!Spec
-------------------------------------------------------------------------------
(* Past ensurePlanIsOpen, the plan is one the tab's tenant could see. *)
GateChecked ==
    \A r \in Tabs : pc(r) \in {"close", "delete"} => PlanTenant(call[r].target) = TabTenant[r]

LEMMA GateCheckedStep == TypeOK /\ GateChecked /\ [Next]_vars => GateChecked'
  <1> SUFFICES ASSUME TypeOK, GateChecked, [Next]_vars,
                      NEW s \in Tabs, pc(s)' \in {"close", "delete"}
               PROVE  PlanTenant(call'[s].target) = TabTenant[s]
    BY DEF GateChecked, PlanTenant
  <1> DEFINE Goal == PlanTenant(call'[s].target) = TabTenant[s]
  <1>1. CASE call'[s] = call[s]
    BY <1>1 DEF GateChecked, pc, PlanTenant
  <1>2. ASSUME NEW r \in Tabs, EnsurePlanIsOpen(r) PROVE Goal
    <2>1. CASE s # r
      BY <2>1, <1>1, <1>2, CallStep DEF EnsurePlanIsOpen, Goto, Return, TypeOK
    <2>2. CASE s = r
      <3>1. Visible(r, call[r].target) /\ call'[s].target = call[s].target
        BY <2>2, <1>2, CallStep DEF EnsurePlanIsOpen
      <3> QED BY <3>1, <2>2 DEF Visible
    <2> QED BY <2>1, <2>2
  <1>3. ASSUME NEW r \in Tabs, Return(r) PROVE Goal
    BY <1>3, <1>1, CallStep
  <1>4. ASSUME NEW r \in Tabs, NEW label, Goto(r, label), label \notin {"close", "delete"}
        PROVE  Goal
    BY <1>4, <1>1, CallStep DEF Goto, TypeOK
  <1>5. ASSUME NEW r \in Tabs, NEW p \in Plans, NEW o,
               \/ CreatePlan(r, p) \/ StartGoLive(r, p) \/ StartDelete(r, p)
               \/ StartClose(r, p, o)
        PROVE  Goal
    BY <1>5, <1>1 DEF CreatePlan, StartGoLive, StartDelete, StartClose, Begin, TypeOK, pc
  <1>6. ASSUME NEW r \in Tabs, ReadEntitlement(r) PROVE Goal
    BY <1>6, <1>1, <1>3 DEF ReadEntitlement, TypeOK, pc
  <1>7. ASSUME NEW r \in Tabs,
               \/ ReadPlan(r) \/ CountSeats(r) \/ TakeTenantLock(r) \/ WriteLive(r)
               \/ ReadBack(r) \/ FailCall(r) \/ WriteClose(r) \/ WriteDelete(r)
        PROVE  Goal
    BY <1>7, <1>3, <1>4 DEF ReadPlan, CountSeats, TakeTenantLock, WriteLive, ReadBack, FailCall,
       WriteClose, WriteDelete
  <1>8. ASSUME \/ \E t \in Tenants, row \in BillingRows : BillingWrite(t, row)
               \/ Tick \/ UNCHANGED vars
        PROVE  Goal
    BY <1>8, <1>1 DEF BillingWrite, Tick, vars, dbVars
  <1> QED
    BY <1>2, <1>5, <1>6, <1>7, <1>8 DEF Next, SellerNext, GoLiveStep, GateStep

LEMMA GateCheckedAlways == Spec => []GateChecked
  <1>1. Init => GateChecked
    BY DEF Init, GateChecked, pc, Idle
  <1> QED BY <1>1, GateCheckedStep, TypeCorrect, PTL DEF Spec

(* A step that changes a plan is a tab's create, go-live, close or delete of a
   plan of the tab's tenant; only a go-live makes it active, past the sample
   verdict and with the tenant's lock in hand. *)
Changes(r, p) ==
    /\ TabTenant[r] = PlanTenant(p)
    /\ \/ pc(r) = "idle" /\ status[p] = "unborn" /\ status'[p] = "draft"
       \/ /\ Writes(r, p, "write") /\ lock[PlanTenant(p)] = r /\ status'[p] = "active"
          /\ PlanHome[p] \notin Samples
       \/ Writes(r, p, "close") /\ status'[p] = call[r].outcome /\ status'[p] # "active"
       \/ Writes(r, p, "delete") /\ status'[p] = "gone"

LEMMA PlanChange ==
    ASSUME IInv, GateChecked, [Next]_vars, NEW p \in Plans, status'[p] # status[p]
    PROVE  \E r \in Tabs : Changes(r, p)
  <1>0. TypeOK
    BY DEF IInv
  <1>1. ASSUME NEW r \in Tabs, NEW q \in Plans, CreatePlan(r, q) PROVE Changes(r, p)
    BY <1>0, <1>1 DEF CreatePlan, TypeOK, Changes
  <1>2. ASSUME NEW r \in Tabs, WriteLive(r) PROVE Changes(r, p)
    <2>1. call[r].target = p /\ status'[p] = "active"
      BY <1>0, <1>2 DEF WriteLive, TypeOK
    <2>2. p \in Countable(TabTenant[r]) /\ lock[TabTenant[r]] = r
      BY <2>1, <1>2 DEF WriteLive, IInv, SeatChecked, LockHeld, InTransaction
    <2>3. pc(r) = "write" /\ call'[r] # call[r]
      <3>1. Goto(r, "readback") \/ Return(r)
        BY <1>2 DEF WriteLive
      <3>2. pc(r) = "write"
        BY <1>2 DEF WriteLive
      <3>3. call'[r].pc \in {"readback", "idle"}
        BY <1>0, <3>1 DEF Goto, Return, Idle, TypeOK, Calls, CallRecords
      <3> QED BY <3>2, <3>3 DEF pc
    <2> QED BY <2>1, <2>2, <2>3 DEF Countable, Changes, Writes
  <1>3. ASSUME NEW r \in Tabs, WriteClose(r) \/ WriteDelete(r) PROVE Changes(r, p)
    <2>1. call[r].target = p /\ PlanTenant(p) = TabTenant[r]
      BY <1>0, <1>3 DEF WriteClose, WriteDelete, TypeOK, GateChecked
    <2>2. WriteClose(r) => call[r].outcome \in Closed
      BY <1>0 DEF WriteClose, TypeOK, Calls, pc
    <2>3. call'[r] # call[r]
      <3>1. call'[r].pc = "idle" /\ pc(r) \in {"close", "delete"}
        BY <1>0, <1>3 DEF WriteClose, WriteDelete, Return, Idle, TypeOK
      <3> QED BY <3>1 DEF pc
    <2>4. CASE WriteClose(r)
      <3>1. status'[p] = call[r].outcome /\ pc(r) = "close"
        BY <1>0, <2>1, <2>4 DEF WriteClose, TypeOK
      <3> QED BY <2>1, <2>2, <2>3, <2>4, <3>1 DEF Changes, Writes, Closed
    <2>5. CASE WriteDelete(r)
      <3>1. status'[p] = "gone" /\ pc(r) = "delete"
        BY <1>0, <2>1, <2>5 DEF WriteDelete, TypeOK
      <3> QED BY <2>1, <2>3, <3>1 DEF Changes, Writes
    <2> QED BY <1>3, <2>4, <2>5
  <1>4. \/ UNCHANGED status
        \/ \E r \in Tabs : \/ \E q \in Plans : CreatePlan(r, q)
                           \/ WriteLive(r) \/ WriteClose(r) \/ WriteDelete(r)
    BY DEF Next, SellerNext, GoLiveStep, GateStep, StartGoLive, StartDelete, StartClose,
       ReadEntitlement, ReadPlan, CountSeats, ReadBack, TakeTenantLock, EnsurePlanIsOpen,
       FailCall, BillingWrite, Tick, vars, dbVars
  <1> QED BY <1>1, <1>2, <1>3, <1>4

(* Whatever the tabs do at the same time, no step makes a plan of a sample
   workspace live: the verdict of mark_plan_live() is read once, two
   statements before the update, and still holds there. *)
THEOREM SampleNeverGoesLiveAlways == Spec => SampleNeverGoesLive
  <1>1. IInv /\ GateChecked /\ [Next]_vars
          => [\A p \in Plans : PlanHome[p] \in Samples /\ status'[p] = "active"
                                 => status[p] = "active"]_vars
    BY PlanChange DEF Changes
  <1> QED BY <1>1, Inductive, GateCheckedAlways, PTL DEF SampleNeverGoesLive, Spec

(* A plan only changes by the step of a tab of its own tenant, to what that
   tab's call was for: close and delete write by id alone, on what
   ensurePlanIsOpen saw a statement earlier, and mark_plan_live() under the
   lock of the tab's tenant. *)
THEOREM TenantIsolationAlways == Spec => TenantIsolation
  <1>1. IInv /\ GateChecked /\ [Next]_vars
          => [\A p \in Plans : status'[p] # status[p] =>
                \E r \in Tabs :
                   /\ TabTenant[r] = PlanTenant(p)
                   /\ \/ pc(r) = "idle" /\ status[p] = "unborn" /\ status'[p] = "draft"
                      \/ Writes(r, p, "write") /\ lock[PlanTenant(p)] = r /\ status'[p] = "active"
                      \/ Writes(r, p, "close") /\ status'[p] = call[r].outcome
                      \/ Writes(r, p, "delete") /\ status'[p] = "gone"]_vars
    BY PlanChange DEF Changes
  <1> QED BY <1>1, Inductive, GateCheckedAlways, PTL DEF TenantIsolation, Spec
===============================================================================
