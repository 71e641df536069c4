----------------------------- MODULE Entitlement -----------------------------
(***************************************************************************)
(* The pure billing rule of lib/billing/entitlement.ts: what a tenant may  *)
(* do, given its stored subscription row (or none) and the present time.   *)
(*                                                                         *)
(* Time is a natural number.  The code works in milliseconds and compares  *)
(* with the same inclusive boundary; the unit is irrelevant here.          *)
(***************************************************************************)
EXTENDS Naturals

CONSTANTS
    Tiers,          \* tier ids sold today (TIER_DEFINITIONS)
    TierCap,        \* [Tiers -> Nat \cup {Unlimited}]: maxActiveDeals
    FreeCap,        \* FREE_TIER_ACTIVE_DEALS
    Grace,          \* PAST_DUE_GRACE_DAYS, in the model's unit of time
    Unlimited,      \* the null cap
    Absent          \* a null column, a missing row, an unsold tier id

ASSUME CapAssumption ==
    /\ Unlimited \notin Nat
    /\ FreeCap \in Nat
    /\ Grace \in Nat
    /\ TierCap \in [Tiers -> Nat \cup {Unlimited}]

Caps == Nat \cup {Unlimited}

(* The statuses Paddle reports for a subscription. *)
SubscriptionStatuses == {"active", "trialing", "past_due", "paused", "canceled"}

(* lib/billing/plans.ts: Absent stands for an id that is not sold. *)
MaxActiveDealsForTier(tier) ==
    IF tier \in Tiers THEN TierCap[tier] ELSE Absent

FreeEntitlement ==
    [cap |-> FreeCap, source |-> "free", inGrace |-> FALSE, blocked |-> FALSE]

TierEntitlementOrFree(tier, source, inGrace, blocked) ==
    IF tier \in Tiers
    THEN [cap     |-> MaxActiveDealsForTier(tier), source |-> source,
          inGrace |-> inGrace, blocked |-> blocked]
    ELSE FreeEntitlement

(* Inclusive at the boundary; a row without an anchor stays in grace. *)
IsInGrace(pastDueSince, now) ==
    pastDueSince = Absent \/ now <= pastDueSince + Grace

ResolveEntitlement(row, now) ==
    IF row = Absent THEN FreeEntitlement
    ELSE IF row.manual # Absent
         THEN TierEntitlementOrFree(row.manual, "manual", FALSE, FALSE)
    ELSE IF row.status \in {"active", "trialing"}
         THEN TierEntitlementOrFree(row.tier, "subscription", FALSE, FALSE)
    ELSE IF row.status = "past_due"
         THEN LET inGrace == IsInGrace(row.pastDueSince, now)
              IN  TierEntitlementOrFree(row.tier, "subscription", inGrace, ~inGrace)
    ELSE FreeEntitlement

(* There is a subscription that Paddle still manages. *)
HasLiveSubscription(row) ==
    row # Absent /\ row.status \in {"active", "trialing", "past_due", "paused"}

(* canStartNewDeal's arithmetic, and mark_plan_live's: the cap as a bound. *)
UnderCap(count, cap) == IF cap = Unlimited THEN TRUE ELSE count < cap

(* The cap that a row lets the tenant grow to right now: none while the
   tenant is blocked from starting new deals. *)
AllowedCap(row, now) ==
    LET e == ResolveEntitlement(row, now) IN IF e.blocked THEN 0 ELSE e.cap

(* Order on caps, with Unlimited on top. *)
CapLeq(a, b)     == IF b = Unlimited THEN TRUE ELSE a # Unlimited /\ a <= b
AtMost(n, cap)   == IF cap = Unlimited THEN TRUE ELSE n <= cap
LargerCap(a, b)  ==
    IF a = Unlimited \/ b = Unlimited THEN Unlimited ELSE IF a >= b THEN a ELSE b
===============================================================================
