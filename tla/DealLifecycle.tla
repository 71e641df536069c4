---------------------------- MODULE DealLifecycle ----------------------------
(***************************************************************************)
(* The life of a deal (a success plan): created as a draft, made live      *)
(* against the tenant's active-deal limit, closed as won or lost, deleted. *)
(*                                                                         *)
(* Several browser tabs of several tenants run server actions at the same  *)
(* time.  Every await of an action is a point where other tabs may run, so *)
(* a tab carries a program counter; one database statement is one step.    *)
(* mark_plan_live() of migration 0015 runs in one transaction that holds a *)
(* lock on the tenant's row, and each of its statements reads a fresh      *)
(* snapshot (READ COMMITTED), so its statements are steps of their own.    *)
(*                                                                         *)
(* Outside this module: the subscription row, which the billing webhook    *)
(* and support staff write (BillingWrite), and the clock.                  *)
(***************************************************************************)
EXTENDS Entitlement, FiniteSets

CONSTANTS
    Tenants,
    Workspaces,
    Plans,          \* a pool of fresh plan ids
    Tabs,           \* concurrent sessions, each running one action at a time
    NoTab,
    TenantOf,       \* [Workspaces -> Tenants]: workspaces.tenant_id
    Samples,        \* the workspaces flagged is_sample
    PlanHome,       \* [Plans -> Workspaces]: success_plans.workspace_id
    SeededPlans,    \* plans inserted, already active, by the sample seed
    TabTenant,      \* [Tabs -> Tenants]: the tenant claim of the session
    BillingRows,    \* rows the billing side may store
    MaxTime

ASSUME LifecycleAssumption ==
    /\ IsFiniteSet(Plans)
    /\ NoTab \notin Tabs
    /\ TenantOf \in [Workspaces -> Tenants]
    /\ Samples \subseteq Workspaces
    /\ PlanHome \in [Plans -> Workspaces]
    /\ SeededPlans \subseteq {p \in Plans : PlanHome[p] \in Samples}
    /\ \A p, q \in SeededPlans : PlanHome[p] = PlanHome[q] => p = q
    /\ TabTenant \in [Tabs -> Tenants]
    /\ MaxTime \in Nat
    /\ \A row \in BillingRows : row # Absent => row.pastDueSince \in Nat \cup {Absent}

VARIABLES
    status,   \* success_plans.status, "unborn" before the insert, "gone" after the delete
    sub,      \* tenant_subscriptions, Absent when the tenant has no row
    lock,     \* the tab whose transaction holds the tenant's row lock
    call,     \* the server action each tab is running, see Idle
    now,      \* the clock
    granted   \* history: the largest cap the tenant was ever entitled to

dbVars == <<status, sub, lock>>
vars   == <<dbVars, call, now, granted>>

PlanStatuses == {"unborn", "draft", "active", "won", "lost", "gone"}
Closed == {"won", "lost"}

InTransaction == {"read", "count", "write"}
GoLivePcs == {"entitle", "lock"} \cup InTransaction \cup {"readback"}
GatePcs == { "closeGate", "close", "deleteGate", "delete"}

(* An action: where it is, the plan it is about, the cap a go-live carries
   from its entitlement read, the outcome a close carries. *)
Idle  == [pc |-> "idle", target |-> Absent, cap |-> Absent, outcome |-> Absent]
Begin(label, p, o) == [pc |-> label, target |-> p, cap |-> Absent, outcome |-> o]
CallRecords == [pc      : {"idle"} \cup GoLivePcs \cup GatePcs,
                target  : Plans \cup {Absent},
                cap     : Caps \cup {Absent},
                outcome : Closed \cup {Absent}]
Calls == {c \in CallRecords :
            /\ c.pc # "idle" => c.target \in Plans
            /\ c.pc \in {"lock"} \cup InTransaction => c.cap \in Caps
            /\ c.pc \in {"closeGate", "close"} => c.outcome \in Closed}

PlanTenant(p) == TenantOf[PlanHome[p]]
Exists(p)     == status[p] \notin {"unborn", "gone"}

(* 0005: the partial unique index over draft and active plans. *)
HoldsSlot(p) == status[p] \in {"draft", "active"}
SlotFree(p)  == \A q \in Plans \ {p} : PlanHome[q] = PlanHome[p] => ~HoldsSlot(q)

(* 0015: the plans mark_plan_live() counts, and how many they are. *)
Countable(t) == {p \in Plans : PlanTenant(p) = t /\ PlanHome[p] \notin Samples}
Counted(t)   == {p \in Countable(t) : status[p] = "active"}
ActiveCount(t) == Cardinality(Counted(t))

Init ==
    /\ status = [p \in Plans |-> IF p \in SeededPlans THEN "active" ELSE "unborn"]
    /\ sub = [t \in Tenants |-> Absent]
    /\ lock = [t \in Tenants |-> NoTab]
    /\ call = [r \in Tabs |-> Idle]
    /\ now = 0
    /\ granted = [t \in Tenants |-> FreeCap]

pc(r)          == call[r].pc
Goto(r, label) == call' = [call EXCEPT ![r].pc = label]
Return(r)      == call' = [call EXCEPT ![r] = Idle]
Release(r)     == lock' = [lock EXCEPT ![TabTenant[r]] = NoTab]

-------------------------------------------------------------------------------
(* Mutant: row-level security without its tenant predicate. *)
BugSeesEveryTenant(r, p) == Exists(p)

(* The seller's own row-level-security client sees its tenant's plans only. *)
Visible(r, p) == Exists(p) /\ PlanTenant(p) = TabTenant[r]

(* createPlanAction: one insert, refused by the index when the workspace
   already has a draft or an active plan. *)
CreatePlan(r, p) ==
    /\ pc(r) = "idle"
    /\ status[p] = "unborn"
    /\ PlanTenant(p) = TabTenant[r]
    /\ SlotFree(p)
    /\ status' = [status EXCEPT ![p] = "draft"]
    /\ UNCHANGED <<sub, lock, call, now, granted>>

-------------------------------------------------------------------------------
(* goLivePlan and mark_plan_live. *)
StartGoLive(r, p) ==
    /\ pc(r) = "idle"
    /\ status[p] # "unborn"      \* nobody knows an id before its insert
    /\ call' = [call EXCEPT ![r] = Begin("entitle", p, Absent)]
    /\ UNCHANGED <<dbVars, now, granted>>

(* getTenantEntitlement: BILLING_PAST_DUE when blocked, else carry the cap.
   The code takes the clock just before it queries the row; next to a grace
   period of days the two are one instant. *)
ReadEntitlement(r) ==
    LET e == ResolveEntitlement(sub[TabTenant[r]], now)
    IN  /\ pc(r) = "entitle"
        /\ \/ e.blocked /\ Return(r)
           \/ /\ ~e.blocked
              /\ call' = [call EXCEPT ![r] = [pc |-> "lock", target |-> call[r].target,
                                              cap |-> e.cap, outcome |-> Absent]]
        /\ UNCHANGED <<dbVars, now, granted>>

(* Mutant: mark_plan_live() without "for no key update". *)
BugNoLockWait(r) ==
    /\ pc(r) = "lock"
    /\ lock' = [lock EXCEPT ![TabTenant[r]] = r]
    /\ Goto(r, "read")
    /\ UNCHANGED <<status, sub, now, granted>>

(* select ... from tenants ... for no key update: waits for the holder. *)
TakeTenantLock(r) ==
    /\ pc(r) = "lock"
    /\ lock[TabTenant[r]] = NoTab
    /\ lock' = [lock EXCEPT ![TabTenant[r]] = r]
    /\ Goto(r, "read")
    /\ UNCHANGED <<status, sub, now, granted>>

(* Mutant: the sample_workspace verdict is missing. *)
BugSampleMayGoLive(r) ==
    LET p == call[r].target IN
    /\ pc(r) = "read"
    /\ \/ Visible(r, p) /\ status[p] = "draft" /\ Goto(r, "count") /\ UNCHANGED lock
       \/ ~(Visible(r, p) /\ status[p] = "draft") /\ Return(r) /\ Release(r)
    /\ UNCHANGED <<status, sub, now, granted>>

(* The verdicts read off the plan row, in the function's order. *)
ReadPlan(r) ==
    LET p == call[r].target IN
    /\ pc(r) = "read"
    /\ \/ /\ ~Visible(r, p) \/ PlanHome[p] \in Samples   \* not_found, sample_workspace
          /\ Return(r) /\ Release(r)
       \/ /\ Visible(r, p) /\ PlanHome[p] \notin Samples
          /\ \/ status[p] = "active" /\ Goto(r, "readback") /\ Release(r)  \* already_live
             \/ status[p] \in Closed /\ Return(r) /\ Release(r)      \* not_found
             \/ status[p] = "draft" /\ Goto(r, "count") /\ UNCHANGED lock
    /\ UNCHANGED <<status, sub, now, granted>>

(* Mutants: one deal too many is let through; the refusal keeps the lock. *)
BugOneTooMany(r) ==
    /\ pc(r) = "count"
    /\ \/ /\ AtMost(ActiveCount(TabTenant[r]), call[r].cap)
          /\ Goto(r, "write") /\ UNCHANGED lock
       \/ /\ ~AtMost(ActiveCount(TabTenant[r]), call[r].cap)
          /\ Return(r) /\ Release(r)
    /\ UNCHANGED <<status, sub, now, granted>>

BugRefusalKeepsLock(r) ==
    /\ pc(r) = "count"
    /\ IF UnderCap(ActiveCount(TabTenant[r]), call[r].cap) THEN Goto(r, "write") ELSE Return(r)
    /\ UNCHANGED <<status, sub, lock, now, granted>>

CountSeats(r) ==
    /\ pc(r) = "count"
    /\ \/ /\ UnderCap(ActiveCount(TabTenant[r]), call[r].cap)
          /\ Goto(r, "write") /\ UNCHANGED lock
       \/ /\ ~UnderCap(ActiveCount(TabTenant[r]), call[r].cap)   \* limit_reached
          /\ Return(r) /\ Release(r)
    /\ UNCHANGED <<status, sub, now, granted>>

(* Mutant: the unique index does not cover the update. *)
BugIgnoresIndex(r) ==
    /\ pc(r) = "write"
    /\ Release(r)
    /\ status' = IF Exists(call[r].target)
                 THEN [status EXCEPT ![call[r].target] = "active"] ELSE status
    /\ Goto(r, "readback")
    /\ UNCHANGED <<sub, now, granted>>

(* update success_plans set status = 'active' where id = p_plan_id, and the
   commit.  The statement names the id only: it does not ask again for a
   draft, and a plan that is gone is updated in zero rows. *)
WriteLive(r) ==
    LET p == call[r].target IN
    /\ pc(r) = "write"
    /\ Release(r)
    /\ \/ /\ ~Exists(p)
          /\ Goto(r, "readback")
          /\ UNCHANGED status
       \/ /\ Exists(p) /\ SlotFree(p)
          /\ status' = [status EXCEPT ![p] = "active"]
          /\ Goto(r, "readback")
       \/ /\ Exists(p) /\ ~SlotFree(p)           \* 23505: the call throws
          /\ Return(r)
          /\ UNCHANGED status
    /\ UNCHANGED <<sub, now, granted>>

ReadBack(r) ==
    /\ pc(r) = "readback"
    /\ Return(r)
    /\ UNCHANGED <<dbVars, now, granted>>

(* A failed query, a dropped connection or a dead server: the transaction,
   if one is open, rolls back and its lock goes with it. *)
FailCall(r) ==
    /\ pc(r) # "idle"
    /\ Return(r)
    /\ IF pc(r) \in InTransaction THEN Release(r) ELSE UNCHANGED lock
    /\ UNCHANGED <<status, sub, now, granted>>

-------------------------------------------------------------------------------
(* Mutant: isClosedPlanStatus() does not check what the browser sent. *)
BugAnyOutcome(r, p, o) ==
    /\ pc(r) = "idle"
    /\ status[p] # "unborn"
    /\ call' = [call EXCEPT ![r] = Begin("closeGate", p, "draft")]
    /\ UNCHANGED <<dbVars, now, granted>>

(* closePlanAction and deletePlanAction: ensurePlanIsOpen, then the write.
   Neither write repeats the check. *)
StartClose(r, p, o) ==
    /\ pc(r) = "idle"
    /\ status[p] # "unborn"
    /\ call' = [call EXCEPT ![r] = Begin("closeGate", p, o)]
    /\ UNCHANGED <<dbVars, now, granted>>

StartDelete(r, p) ==
    /\ pc(r) = "idle"
    /\ status[p] # "unborn"
    /\ call' = [call EXCEPT ![r] = Begin("deleteGate", p, Absent)]
    /\ UNCHANGED <<dbVars, now, granted>>

EnsurePlanIsOpen(r) ==
    LET open == Visible(r, call[r].target) /\ status[call[r].target] \notin Closed IN
    /\ \/ pc(r) = "closeGate"  /\ (IF open THEN Goto(r, "close") ELSE Return(r))
       \/ pc(r) = "deleteGate" /\ (IF open THEN Goto(r, "delete") ELSE Return(r))
    /\ UNCHANGED <<dbVars, now, granted>>

WriteClose(r) ==
    /\ pc(r) = "close"
    /\ Return(r)
    /\ status' = IF Exists(call[r].target)
                 THEN [status EXCEPT ![call[r].target] = call[r].outcome] ELSE status
    /\ UNCHANGED <<sub, lock, now, granted>>

WriteDelete(r) ==
    /\ pc(r) = "delete"
    /\ Return(r)
    /\ status' = IF Exists(call[r].target)
                 THEN [status EXCEPT ![call[r].target] = "gone"] ELSE status
    /\ UNCHANGED <<sub, lock, now, granted>>

-------------------------------------------------------------------------------
(* The environment: a new subscription row, and time passing. *)
BillingWrite(t, row) ==
    /\ sub' = [sub EXCEPT ![t] = row]
    /\ granted' = [granted EXCEPT ![t] = LargerCap(granted[t], AllowedCap(row, now))]
    /\ UNCHANGED <<status, lock, call, now>>

Tick ==
    /\ now < MaxTime
    /\ now' = now + 1
    /\ UNCHANGED <<dbVars, call, granted>>

GoLiveStep(r) ==
    \/ ReadEntitlement(r) \/ ReadPlan(r) \/ CountSeats(r) \/ WriteLive(r) \/ ReadBack(r)

GateStep(r) == EnsurePlanIsOpen(r) \/ WriteClose(r) \/ WriteDelete(r)

SellerNext(r) ==
    \/ \E p \in Plans : CreatePlan(r, p) \/ StartGoLive(r, p) \/ StartDelete(r, p)
    \/ \E p \in Plans, o \in Closed : StartClose(r, p, o)
    \/ GoLiveStep(r) \/ TakeTenantLock(r) \/ GateStep(r) \/ FailCall(r)

Next ==
    \/ \E r \in Tabs : SellerNext(r)
    \/ \E t \in Tenants, row \in BillingRows : BillingWrite(t, row)
    \/ Tick

Spec == Init /\ [][Next]_vars

(* A running action keeps running; a lock queue does not starve a waiter. *)
Fairness ==
    \A r \in Tabs : WF_vars(GoLiveStep(r) \/ GateStep(r)) /\ SF_vars(TakeTenantLock(r))

FairSpec == Spec /\ Fairness
-------------------------------------------------------------------------------
TypeOK ==
    /\ status \in [Plans -> PlanStatuses]
    /\ sub \in [Tenants -> BillingRows \cup {Absent}]
    /\ lock \in [Tenants -> Tabs \cup {NoTab}]
    /\ call \in [Tabs -> Calls]
    /\ now \in Nat
    /\ granted \in [Tenants -> Caps]

(* No tenant ever runs more counted deals than the best plan it has had
   allows: racing go-lives, a cap read before the lock, closes and deletes
   included (lib/plans/go-live.ts, mark_plan_live). *)
PaidFor == \A t \in Tenants : AtMost(ActiveCount(t), granted[t])

(* A workspace never has two plans that are draft or live, whatever races
   (0005's index; "which plan?" is never ambiguous for the buyer). *)
OneLivePerWorkspace ==
    \A p, q \in Plans :
        PlanHome[p] = PlanHome[q] /\ HoldsSlot(p) /\ HoldsSlot(q) => p = q

(* The sample workspace never counts, so no plan in it ever becomes live
   after the seed (0015's sample_workspace verdict). *)
SampleNeverGoesLive ==
    [][\A p \in Plans : PlanHome[p] \in Samples /\ status'[p] = "active"
                          => status[p] = "active"]_vars

(* The write of a call that goes on, from its "write", "close" or "delete". *)
Writes(r, p, label) ==
    pc(r) = label /\ call[r].target = p /\ call'[r] # call[r]

(* One tenant's traffic never moves another tenant's deals.  A plan changes
   only by the step of a tab of its own tenant, and to what that tab was
   asked for: an insert, a go-live that holds the tenant's lock, a close with
   the outcome it carries, a delete; though the last three name the plan by
   its id alone (lib/plans/mutations.ts, 0015). *)
TenantIsolation ==
    [][\A p \in Plans : status'[p] # status[p] =>
          \E r \in Tabs :
             /\ TabTenant[r] = PlanTenant(p)
             /\ \/ pc(r) = "idle" /\ status[p] = "unborn" /\ status'[p] = "draft"
                \/ Writes(r, p, "write") /\ lock[PlanTenant(p)] = r /\ status'[p] = "active"
                \/ Writes(r, p, "close") /\ status'[p] = call[r].outcome
                \/ Writes(r, p, "delete") /\ status'[p] = "gone"]_vars

(* A closed deal stays as it was closed.  plan-actions.ts: closing again is
   refused, "it would otherwise silently rewrite a Won deal as Lost"; 0015: a
   closed plan "is not re-openable through this path"; closed-plans.ts:
   "every action refuses", deletion included. *)
ClosedStaysClosed ==
    [][\A p \in Plans : status[p] \in Closed => status'[p] = status[p]]_vars

(* Every action a seller starts is answered: the lock is never leaked and
   nobody waits for ever behind it. *)
EveryCallReturns == \A r \in Tabs : pc(r) # "idle" ~> pc(r) = "idle"

(* The whole dance of reads, locks and writes looks, from outside, like one
   atomic "take a seat if you may" (DealSeats): mark-live.ts, "the ONE place
   a plan is allowed to become active". *)
Seats == INSTANCE DealSeats
            WITH Deals     <- Plans,
                 seats     <- [t \in Tenants |-> Counted(t)],
                 allowance <- granted

ImplementsSeats == Seats!Spec
===============================================================================
