----------------------------- MODULE BillingPages -----------------------------
(***************************************************************************)
(* What a seller sees of billing: the pricing page, which asks Paddle for  *)
(* its prices and opens the checkout, and the billing settings, which open *)
(* Paddle's portal.  Both show the tenant's row as it was when they were   *)
(* rendered; Paddle's events and support go on writing it (see Billing).   *)
(***************************************************************************)
EXTENDS Entitlement, FiniteSets

CONSTANTS Plans, MaxToggles, MaxMoves    \* the tiers sold at a checkout

ASSUME BillingPagesAssumption ==
    Plans \subseteq Tiers /\ {MaxToggles, MaxMoves} \subseteq Nat /\ Absent \notin Tiers

VARIABLES
    account,     \* the tenant's row: status, tier, manual, and whether Paddle has
                 \* a customer and a subscription for it; or Absent
    revoked,     \* a grant was taken back from a tenant that never subscribed
    offer,       \* the prices configured, <<plan, cycle>>: none of them counts without
                 \* client settings for Paddle's environment (getPaddleClientConfig)
    shop,        \* the pricing page, see Shop
    asked,       \* its PricePreview requests: cycle, and whether it is cancelled
    shelf,       \* priceDetailsByTier: of each plan the cycle its price is for, or Absent
    clicks,      \* its handleSubscribe calls that wait for a reference
    opened,      \* the checkout it opened last, in a set
    toggles, moves

shopVars == <<shop, asked, shelf, clicks, opened, toggles>>
billingPageVars == <<account, revoked, offer, moves, shopVars>>

Cycles == {"month", "year"}
Shop == [user : {"nobody", "seller"}, manual : BOOLEAN, live : BOOLEAN, tier : Tiers \cup {Absent},
         paddle : {"loading", "ready", "failed"}, cycle : Cycles, error : BOOLEAN]

Account == [status : SubscriptionStatuses, tier : Tiers, manual : Tiers \cup {Absent},
            pastDueSince : {0, Absent}, paddle : BOOLEAN]

(* A row as Paddle's first event, or support's first grant, writes it. *)
AccountRow(status, tier, manual, paddle) ==
    [status |-> status, tier |-> tier, manual |-> manual, pastDueSince |-> Absent, paddle |-> paddle]

-------------------------------------------------------------------------------
(* getPricingModel: publishable with every monthly price, and the yearly ones
   for all plans or for none. *)
Priced(cycle) == {p \in Plans : <<p, cycle>> \in offer}
IsPublishable == Priced("month") = Plans /\ Priced("year") \in {{}, Plans}
HasYearlyPricing == IsPublishable /\ Plans # {} /\ Priced("year") = Plans

(* PricingPage. *)
Rendered(user) ==
    LET row == IF user = "seller" THEN account ELSE Absent IN
    [user |-> user, live |-> HasLiveSubscription(row),
     manual |-> ResolveEntitlement(row, 0).source = "manual",
     tier |-> IF HasLiveSubscription(row) THEN row.tier ELSE Absent,
     paddle |-> "loading", cycle |-> "month", error |-> FALSE]
EmptyShelf == [p \in Plans |-> Absent]

BillingPagesInit ==
    /\ account = Absent /\ revoked = FALSE /\ moves = 0 /\ toggles = 0
    /\ offer \in SUBSET (Plans \X Cycles) /\ IsPublishable
    /\ \E user \in {"nobody", "seller"} : shop = Rendered(user)
    /\ asked = {} /\ shelf = EmptyShelf /\ clicks = {} /\ opened = {}

OpenPricing == \E user \in {"nobody", "seller"} :
    /\ shop # Rendered(user) /\ shop' = Rendered(user)
    /\ asked' = {} /\ shelf' = EmptyShelf /\ clicks' = {} /\ opened' = {} /\ toggles' = 0
    /\ UNCHANGED <<account, revoked, offer, moves>>

-------------------------------------------------------------------------------
(* PricingTiers.  The effects: Paddle.js, once; then a preview per cycle, the
   ones before it cancelled. *)
Preview(cycle) == asked' = {[a EXCEPT !.cancelled = TRUE] : a \in asked}
                           \cup {[cycle |-> cycle, cancelled |-> FALSE]}
InitializePaddle ==
    /\ shop.paddle = "loading"
    /\ \/ shop' = [shop EXCEPT !.paddle = "ready"] /\ Preview(shop.cycle)
       \/ shop' = [shop EXCEPT !.paddle = "failed"] /\ UNCHANGED asked
    /\ UNCHANGED <<account, revoked, offer, moves, shelf, clicks, opened, toggles>>
SetBillingCycle == \E cycle \in Cycles \ {shop.cycle} :
    /\ HasYearlyPricing /\ toggles < MaxToggles /\ toggles' = toggles + 1
    /\ shop' = [shop EXCEPT !.cycle = cycle]
    /\ IF shop.paddle = "ready" THEN Preview(cycle) ELSE UNCHANGED asked
    /\ UNCHANGED <<account, revoked, offer, moves, shelf, clicks, opened>>

(* The answers may come in any order, and lack a plan. *)
PricesAnswered == \E a \in asked :
    /\ asked' = asked \ {a}
    /\ \/ ~a.cancelled /\ \E known \in SUBSET Plans :
                              shelf' = [p \in Plans |-> IF p \in known THEN a.cycle ELSE Absent]
       \/ UNCHANGED shelf                                \* cancelled, or failed
    /\ UNCHANGED <<account, revoked, offer, moves, shop, clicks, opened, toggles>>

(* Mutant: what was stored is shown, whatever cycle it is for. *)
BugShowsWhatIsStored(plan) == IF shelf[plan] = Absent THEN {} ELSE {shelf[plan]}

(* priceDetails: what is stored counts for the cycle it was asked for. *)
PriceDetails(plan) == IF shelf[plan] = shop.cycle THEN {shelf[plan]} ELSE {}

(* TierAction. *)
TierAction(page, plan) ==
    CASE page.manual -> "nothing"
      [] ~page.manual /\ page.live -> IF plan = page.tier THEN "current plan" ELSE "change plan in billing"
      [] OTHER -> IF page.user = "nobody" THEN "sign up" ELSE "subscribe"

(* handleSubscribe: the price of the cycle selected, a reference, and the
   overlay, by when the seller may have selected the other cycle. *)
HandleSubscribe == \E plan \in Plans :
    /\ TierAction(shop, plan) = "subscribe" /\ shop.paddle = "ready" /\ PriceDetails(plan) # {}
    /\ clicks' = clicks \cup {[plan |-> plan, cycle |-> shop.cycle, shown |-> PriceDetails(plan)]}
    /\ UNCHANGED <<account, revoked, offer, moves, shop, asked, shelf, opened, toggles>>

(* issueCheckoutRefAction refuses by the row as it is by then, or for want of
   a session, a budget or a database; Paddle.js may refuse the overlay. *)
CheckoutRefAnswered == \E click \in clicks :
    /\ clicks' = clicks \ {click}
    /\ \/ ~HasLiveSubscription(account) /\ opened' = {click}
          /\ shop' = [shop EXCEPT !.error = FALSE]
       \/ shop' = [shop EXCEPT !.error = TRUE] /\ UNCHANGED opened
       \/ UNCHANGED <<shop, opened>>                     \* the action rejected
    /\ UNCHANGED <<account, revoked, offer, moves, asked, shelf, toggles>>

-------------------------------------------------------------------------------
(* Paddle's events, and support. *)
Moves == moves < MaxMoves /\ moves' = moves + 1 /\ UNCHANGED <<offer, shopVars>>
PaddleWrites ==
    /\ Moves /\ \E status \in SubscriptionStatuses, tier \in Plans :
           account' = [AccountRow(status, tier, IF account = Absent THEN Absent ELSE account.manual, TRUE)
                       EXCEPT !.pastDueSince = IF status = "past_due" THEN 0 ELSE Absent]
    /\ revoked' = FALSE
SupportGrants ==
    /\ Moves /\ \E tier \in Tiers :
           account' = IF account = Absent THEN AccountRow("active", tier, tier, FALSE)
                      ELSE [account EXCEPT !.manual = tier]
    /\ revoked' = FALSE
SupportRevokes ==
    /\ Moves /\ account # Absent /\ account.manual # Absent
    /\ account' = [account EXCEPT !.manual = Absent] /\ revoked' = ~account.paddle

-------------------------------------------------------------------------------
(* BillingSettingsPage: describeBillingStatus, BillingCardBody and
   BillingActions, of a row at a time. *)
DescribeBillingStatus(row, now) ==
    CASE row = Absent -> "free"
      [] OTHER -> IF row.status = "past_due" /\ ResolveEntitlement(row, now).inGrace THEN "fix by"
                  ELSE row.status
CanManageBilling(row) == row # Absent /\ row.paddle

(* Mutant: a paused subscription is taken for one that is over. *)
BugPausedIsOver(row) ==
    CASE row # Absent /\ row.manual # Absent -> {"contact us"}
      [] OTHER -> IF DescribeBillingStatus(row, 0) \in {"canceled", "paused"}
                  THEN {"see plans"} \cup (IF CanManageBilling(row) THEN {"view invoices"} ELSE {})
                  ELSE IF CanManageBilling(row) THEN {"manage billing"} ELSE {"see plans"}

BillingActions(row) ==
    CASE ResolveEntitlement(row, 0).source = "manual" -> {"contact us"}
      [] OTHER -> IF DescribeBillingStatus(row, 0) = "canceled"
                  THEN {"see plans"} \cup (IF CanManageBilling(row) THEN {"view invoices"} ELSE {})
                  ELSE IF CanManageBilling(row) THEN {"manage billing"} ELSE {"see plans"}

(* BillingSettingsPage; a count of deals that could not be read is left out. *)
BillingSettings(row, count, now) ==
    [cap |-> ResolveEntitlement(row, now).cap, used |-> {count} \ {Absent},
     status |-> DescribeBillingStatus(row, now), actions |-> BillingActions(row)]

(* resolveBillableSubscription, createBillingPortalSession and
   openBillingPortalAction: what the portal may be opened on, or the code the
   page is shown with instead. *)
BillableSubscription(row) ==
    IF row = Absent \/ ~row.paddle THEN "no_account"
    ELSE IF HasLiveSubscription(row) THEN "subscription" ELSE "invoices"
PortalSession(scope) == {scope, "generic"}
OpenBillingPortal(row) ==
    {"signed_out", "rate_limited", "misconfigured"}
    \cup (IF BillableSubscription(row) = "no_account" THEN {"no_account", "generic"}
          ELSE PortalSession(BillableSubscription(row)))

BillingPagesNext ==
    \/ OpenPricing \/ InitializePaddle \/ SetBillingCycle \/ PricesAnswered
    \/ HandleSubscribe \/ CheckoutRefAnswered
    \/ PaddleWrites \/ SupportGrants \/ SupportRevokes
BillingPagesSpec == BillingPagesInit /\ [][BillingPagesNext]_billingPageVars

-------------------------------------------------------------------------------
(* Every variable has its type. *)
BillingPagesTypeOK ==
    /\ account \in {Absent} \cup Account
    /\ shop \in Shop /\ shelf \in [Plans -> Cycles \cup {Absent}] /\ offer \subseteq Plans \X Cycles
    /\ asked \subseteq [cycle : Cycles, cancelled : BOOLEAN]
    /\ clicks \cup opened \subseteq [plan : Plans, cycle : Cycles, shown : SUBSET Cycles]
    /\ revoked \in BOOLEAN /\ toggles \in 0..MaxToggles /\ moves \in 0..MaxMoves

(* A checkout charges a price that is sold and that the page displayed when
   Subscribe was clicked, however often the cycle was changed and in
   whatever order the previews came. *)
ChargedIsShown ==
    \A click \in opened : click.shown = {click.cycle} /\ <<click.plan, click.cycle>> \in offer

(* The pages lead on: who is told to change plan in billing finds the way to
   Paddle's portal there, on the subscription it has; who is told there to
   see the plans can subscribe.  Except a tenant whose grant was taken back
   before it ever subscribed: its row says active, and neither page helps. *)
PagesLeadOn ==
    LET Settings == BillingSettings(account, 0, 0) IN
    \A plan \in Plans :
        CASE TierAction(Rendered("seller"), plan) \in {"current plan", "change plan in billing"} ->
                 \/ revoked
                 \/ "manage billing" \in Settings.actions /\ "subscription" \in OpenBillingPortal(account)
          [] TierAction(Rendered("seller"), plan) = "subscribe" -> "see plans" \in Settings.actions
          [] OTHER -> Settings.actions = {"contact us"}
===============================================================================
